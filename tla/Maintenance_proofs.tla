------------------------- MODULE Maintenance_proofs -------------------------
(***************************************************************************)
(* For any intervals, reminders and requests in flight: a disabled         *)
(* interval has no ACTIVE reminder, no interval has two reminders, and a   *)
(* change of an interval reaches its reminder.  What makes it so is the    *)
(* lock of the interval's row, which the update statement takes before the *)
(* reminder is looked up: nobody else creates one until the commit.        *)
(***************************************************************************)
EXTENDS Maintenance, TLAPS

(* The interval of a reminder has been created. *)
IntervalCreated ==
  \A m \in ReminderIds :
    LiveReminder(m) /\ reminder[m].of # Null => interval[reminder[m].of].st # "free"

(* What request r relies on where it stands. *)
Knows(r) ==
  /\ pc[r] \in {"change", "delete.reminders", "delete.interval"} \cup InSyncTx
       => arg[r].int \in IntervalIds /\ interval[arg[r].int].st # "free"
  /\ pc[r] \in {"change"} \cup InSyncTx => arg[r].op \in Changes
  /\ pc[r] \in InSyncTx => LiveInterval(arg[r].int)
  /\ pc[r] = "sync.write"
       => /\ RemindersOf(arg[r].int) \subseteq {arg[r].rem}
          /\ arg[r].rem # Null => reminder[arg[r].rem].st # "free"
          /\ arg[r].rem # Null /\ LiveReminder(arg[r].rem)
               => reminder[arg[r].rem].of = arg[r].int
  /\ pc[r] = "reminder.write" => arg[r].rem \in ReminderIds

(* Two open transactions do not hold the lock of one interval. *)
Apart(q, r) ==
  pc[q] \in InSyncTx /\ pc[r] \in InSyncTx => arg[q].int # arg[r].int

AllKnow == \A r \in Requests : Knows(r)
AllApart == \A q, r \in Requests : q # r => Apart(q, r)

IInv ==
  /\ TypeOK
  /\ DisabledIsSilent
  /\ OneReminderPerInterval
  /\ IntervalCreated
  /\ AllKnow
  /\ AllApart

-----------------------------------------------------------------------------
(* Facts about the operators *)

(* The next service of values that are given or null. *)
LEMMA NextType ==
  ASSUME NEW km \in Kms \cup {Null}, NEW last \in Mileages \cup {Null}
  PROVE  calculateNext(km, last) \in Nat \cup {Null}
BY ConstantsAssumption DEF calculateNext

(* An update statement leaves a well-typed row that is live. *)
LEMMA PatchedType ==
  ASSUME NEW row \in IntervalRow, NEW a \in Args
  PROVE  Patched(row, a) \in IntervalRow
BY DEF Patched, IntervalRow, Args, MaintenanceStatus

LEMMA ReminderPatchedType ==
  ASSUME NEW row \in ReminderRow, NEW a \in Args
  PROVE  /\ ReminderPatched(row, a) \in ReminderRow \cup {GoneReminder}
         /\ ReminderPatched(row, a).st = "live"
              => /\ ReminderPatched(row, a).of = row.of
                 /\ ReminderPatched(row, a).status # "ACTIVE" \/ row.status = "ACTIVE"
<1>1. OrElse(a.last, row.due) \in Nat \cup {Null}
  BY ConstantsAssumption DEF OrElse, Args, ReminderRow
<1> QED
  BY <1>1 DEF ReminderPatched, ReminderRow, ReminderStatus, GoneReminder, FreeReminder

LEMMA NoArgsType == NoArgs \in Args /\ "idle" \in Steps
BY DEF NoArgs, Args, Steps

LEMMA LiveRows ==
  ASSUME TypeOK
  PROVE  /\ \A i \in IntervalIds : LiveInterval(i) => interval[i] \in IntervalRow
         /\ \A m \in ReminderIds : LiveReminder(m) => reminder[m] \in ReminderRow
BY DEF TypeOK, LiveInterval, LiveReminder, FreeInterval, FreeReminder, GoneInterval,
       GoneReminder

(* Initially no row exists and every request is idle. *)
LEMMA InitIInv == Init => IInv
<1> SUFFICES ASSUME Init PROVE IInv
  OBVIOUS
<1>1. TypeOK
  BY NoArgsType DEF Init, TypeOK
<1>2. DisabledIsSilent /\ OneReminderPerInterval /\ IntervalCreated
  BY DEF Init, DisabledIsSilent, OneReminderPerInterval, IntervalCreated, LiveInterval,
         LiveReminder, RemindersOf, FreeInterval, FreeReminder
<1>3. AllKnow /\ AllApart
  BY DEF Init, AllKnow, Knows, AllApart, Apart, InSyncTx
<1> QED
  BY <1>1, <1>2, <1>3 DEF IInv

-----------------------------------------------------------------------------
(* Steps that write no table *)

LEMMA ContinueKeeps ==
  ASSUME IInv, NEW r \in Requests, NEW step \in Steps, NEW a \in Args,
         Continue(r, step, a),
         Knows(r)',
         \A q \in Requests \ {r} : Apart(q, r)' /\ Apart(r, q)'
  PROVE  IInv'
<1> USE DEF Continue, Goto, tables
<1>1. /\ pc'[r] = step /\ arg'[r] = a
      /\ \A q \in Requests \ {r} : pc'[q] = pc[q] /\ arg'[q] = arg[q]
  BY DEF IInv, TypeOK
<1>2. TypeOK'
  BY DEF IInv, TypeOK
<1>3. (DisabledIsSilent /\ OneReminderPerInterval /\ IntervalCreated)'
  BY DEF IInv, DisabledIsSilent, OneReminderPerInterval, IntervalCreated, LiveInterval,
         LiveReminder, RemindersOf
<1>4. AllKnow'
  <2> SUFFICES ASSUME NEW q \in Requests, q # r PROVE Knows(q)'
    BY DEF AllKnow
  <2> QED
    BY <1>1 DEF IInv, AllKnow, Knows, LiveInterval, LiveReminder, RemindersOf
<1>5. AllApart'
  <2> SUFFICES ASSUME NEW q \in Requests, NEW s \in Requests, q # s
               PROVE  Apart(q, s)'
    BY DEF AllApart
  <2>1. CASE q = r \/ s = r
    BY <2>1
  <2>2. CASE q # r /\ s # r
    BY <1>1, <2>2 DEF IInv, AllApart, Apart
  <2> QED BY <2>1, <2>2
<1> QED
  BY <1>2, <1>3, <1>4, <1>5 DEF IInv

(* A step that takes no lock only has to account for what r knows next. *)
LEMMA PlainStepKeeps ==
  ASSUME IInv, NEW r \in Requests, NEW step \in Steps \ InSyncTx, NEW a \in Args,
         Continue(r, step, a), Knows(r)'
  PROVE  IInv'
<1>1. pc'[r] = step
  BY DEF Continue, Goto, IInv, TypeOK
<1>2. \A q \in Requests \ {r} : Apart(q, r)' /\ Apart(r, q)'
  BY <1>1 DEF Apart
<1> QED
  BY <1>2, ContinueKeeps

(* An idle request knows nothing and holds no lock. *)
LEMMA Idle ==
  ASSUME TypeOK, NEW r \in Requests, Finish(r)
  PROVE  /\ pc'[r] = "idle" /\ arg'[r] = NoArgs
         /\ \A q \in Requests \ {r} : pc'[q] = pc[q] /\ arg'[q] = arg[q]
         /\ pc' \in [Requests -> Steps] /\ arg' \in [Requests -> Args]
         /\ Knows(r)'
         /\ \A q \in Requests \ {r} : Apart(q, r)' /\ Apart(r, q)'
<1>1. /\ pc'[r] = "idle" /\ arg'[r] = NoArgs
      /\ \A q \in Requests \ {r} : pc'[q] = pc[q] /\ arg'[q] = arg[q]
      /\ pc' \in [Requests -> Steps] /\ arg' \in [Requests -> Args]
  BY NoArgsType DEF Finish, Goto, TypeOK
<1>2. Knows(r)' /\ \A q \in Requests \ {r} : Apart(q, r)' /\ Apart(r, q)'
  BY <1>1 DEF Knows, Apart, InSyncTx
<1> QED
  BY <1>1, <1>2

LEMMA AnswerKeeps ==
  ASSUME IInv, NEW r \in Requests, Answer(r)
  PROVE  IInv'
BY NoArgsType, Idle, ContinueKeeps DEF Answer, Finish, Continue, IInv

LEMMA UnchangedKeeps == IInv /\ UNCHANGED vars => IInv'
BY DEF vars, IInv, TypeOK, DisabledIsSilent, OneReminderPerInterval, IntervalCreated,
       LiveInterval, LiveReminder, RemindersOf, AllKnow, Knows, AllApart, Apart

(* The first read of a request: the row it names exists. *)
LEMMA OpenKeeps ==
  ASSUME IInv, NEW r \in Requests, Open(r)
  PROVE  IInv'
<1>1. ASSUME NEW i \in IntervalIds, NEW found, NEW a \in Args, found => LiveInterval(i),
             a.int = i, NEW step \in {"change", "delete.reminders"},
             step = "change" => a.op \in Changes,
             Opened(r, found, step, a)
      PROVE  IInv'
  <2>1. CASE UNCHANGED vars
    BY <2>1, UnchangedKeeps
  <2>2. CASE found /\ Continue(r, step, a)
    <3>1. pc'[r] = step /\ arg'[r] = a /\ interval' = interval
      BY <2>2 DEF Continue, Goto, tables, IInv, TypeOK
    <3>2. Knows(r)'
      BY <1>1, <2>2, <3>1 DEF Knows, InSyncTx, LiveInterval
    <3> QED
      BY <2>2, <3>2, PlainStepKeeps DEF Steps, InSyncTx
  <2> QED
    BY <1>1, <2>1, <2>2 DEF Opened
<1>2. ASSUME NEW i \in IntervalIds, NEW km \in Kms \cup {Null},
             NEW last \in Mileages \cup {Null}, OpenUpdate(r, i, km, last)
      PROVE  IInv'
  <2> DEFINE newKm == OrElse(km, interval[i].km)
             newLast == OrElse(last, interval[i].last)
             a == [NoArgs EXCEPT !.op = "update", !.int = i, !.km = newKm,
                                 !.last = newLast, !.next = calculateNext(newKm, newLast)]
  <2>1. interval[i] \in IntervalRow \cup {FreeInterval, GoneInterval}
    BY DEF IInv, TypeOK
  <2>2. newKm \in Kms \cup {Null} /\ newLast \in Mileages \cup {Null}
    BY <2>1 DEF OrElse, IntervalRow, FreeInterval, GoneInterval
  <2>3. calculateNext(newKm, newLast) \in Nat \cup {Null}
    BY <2>2, NextType
  <2> HIDE DEF newKm, newLast
  <2>4. a \in Args /\ a.int = i /\ a.op \in Changes
    BY <2>2, <2>3 DEF NoArgs, Args, Changes
  <2>5. Opened(r, LiveInterval(i), "change", a)
    BY <1>2 DEF OpenUpdate, newKm, newLast
  <2> QED
    BY <1>1, <2>4, <2>5
<1>3. ASSUME NEW i \in IntervalIds, NEW mileage \in Mileages, OpenMarkAsDone(r, i, mileage)
      PROVE  IInv'
  <2> DEFINE next == calculateNext(interval[i].km, mileage)
             a == [NoArgs EXCEPT !.op = "markAsDone", !.int = i, !.last = mileage,
                                 !.next = next]
  <2>1. interval[i] \in IntervalRow \cup {FreeInterval, GoneInterval}
    BY DEF IInv, TypeOK
  <2>2. interval[i].km \in Kms \cup {Null}
    BY <2>1 DEF IntervalRow, FreeInterval, GoneInterval
  <2>3. next \in Nat \cup {Null}
    BY <2>2, NextType
  <2> HIDE DEF next
  <2>4. a \in Args /\ a.int = i /\ a.op \in Changes
    BY <2>3 DEF NoArgs, Args, Changes
  <2>5. Opened(r, LiveInterval(i), "change", a)
    BY <1>3 DEF OpenMarkAsDone, next
  <2> QED
    BY <1>1, <2>4, <2>5
<1>4. ASSUME NEW i \in IntervalIds, NEW op \in {"disable", "enable"}, OpenSwitch(r, i, op)
      PROVE  IInv'
  <2> DEFINE a == [NoArgs EXCEPT !.op = op, !.int = i]
             found == LiveInterval(i) /\ (op = "disable" => interval[i].status # "DISABLED")
  <2>1. a \in Args /\ a.int = i /\ a.op \in Changes
    BY DEF NoArgs, Args, Changes
  <2>2. Opened(r, found, "change", a)
    BY <1>4 DEF OpenSwitch
  <2>3. found => LiveInterval(i)
    OBVIOUS
  <2> QED
    BY <1>1, <2>1, <2>2, <2>3
<1>5. ASSUME NEW i \in IntervalIds, OpenDelete(r, i) PROVE IInv'
  <2> DEFINE a == [NoArgs EXCEPT !.int = i]
  <2>1. a \in Args /\ a.int = i
    BY DEF NoArgs, Args
  <2> QED
    BY <1>1, <1>5, <2>1 DEF OpenDelete
<1>6. ASSUME NEW m \in ReminderIds, NEW op \in ReminderChanges,
             NEW due \in Mileages \cup {Null}, OpenReminder(r, m, op, due)
      PROVE  IInv'
  <2> DEFINE a == [NoArgs EXCEPT !.op = op, !.rem = m, !.last = due]
  <2>1. CASE UNCHANGED vars
    BY <2>1, UnchangedKeeps
  <2>2. CASE Continue(r, "reminder.write", a)
    <3>1. a \in Args /\ a.rem = m
      BY DEF NoArgs, Args
    <3>2. pc'[r] = "reminder.write" /\ arg'[r] = a
      BY <2>2 DEF Continue, Goto, IInv, TypeOK
    <3>3. Knows(r)'
      BY <3>1, <3>2 DEF Knows, InSyncTx
    <3> QED
      BY <2>2, <3>1, <3>3, PlainStepKeeps DEF Steps, InSyncTx
  <2> QED
    BY <1>6, <2>1, <2>2 DEF OpenReminder, Opened
<1> QED
  BY <1>2, <1>3, <1>4, <1>5, <1>6 DEF Open, ReminderChanges

(* The update statement takes the interval's lock, ... *)
LEMMA ChangeKeeps ==
  ASSUME IInv, NEW r \in Requests, Change(r)
  PROVE  IInv'
<1>1. CASE Answer(r)
  BY <1>1, AnswerKeeps
<1>2. CASE LiveInterval(arg[r].int) /\ Continue(r, "sync.find", arg[r])
  <2>1. /\ pc'[r] = "sync.find" /\ arg'[r] = arg[r] /\ interval' = interval
        /\ \A q \in Requests \ {r} : pc'[q] = pc[q] /\ arg'[q] = arg[q]
    BY <1>2 DEF Continue, Goto, tables, IInv, TypeOK
  <2>2. pc[r] = "change" /\ Knows(r) /\ arg[r] \in Args /\ ~IntervalLocked(arg[r].int, r)
    BY DEF Change, IInv, AllKnow, TypeOK
  <2>3. Knows(r)'
    BY <1>2, <2>1, <2>2 DEF Knows, InSyncTx, LiveInterval
  <2>4. \A q \in Requests \ {r} : Apart(q, r)' /\ Apart(r, q)'
    BY <2>1, <2>2 DEF Apart, IntervalLocked
  <2> QED
    BY <1>2, <2>2, <2>3, <2>4, ContinueKeeps DEF Steps, InSyncTx
<1> QED
  BY <1>1, <1>2 DEF Change

(* ... under which the reminder that was found, or none, is the only one. *)
LEMMA SyncFindKeeps ==
  ASSUME IInv, NEW r \in Requests, SyncFind(r)
  PROVE  IInv'
<1> DEFINE mine == RemindersOf(arg[r].int)
<1>1. PICK m \in IF mine = {} THEN {Null} ELSE mine :
        Continue(r, "sync.write", [arg[r] EXCEPT !.rem = m])
  BY DEF SyncFind
<1> DEFINE a == [arg[r] EXCEPT !.rem = m]
<1>2. pc[r] = "sync.find" /\ Knows(r) /\ arg[r] \in Args
  BY DEF SyncFind, IInv, AllKnow, TypeOK
<1>3. m \in ReminderIds \cup {Null}
  BY <1>1 DEF RemindersOf
<1>4. a \in Args /\ a.rem = m /\ a.int = arg[r].int /\ a.op = arg[r].op
  BY <1>2, <1>3 DEF Args
<1>5. /\ pc'[r] = "sync.write" /\ arg'[r] = a
      /\ interval' = interval /\ reminder' = reminder
      /\ \A q \in Requests \ {r} : pc'[q] = pc[q] /\ arg'[q] = arg[q]
  BY <1>1 DEF Continue, Goto, tables, IInv, TypeOK
<1>6. arg[r].int \in IntervalIds /\ LiveInterval(arg[r].int) /\ arg[r].op \in Changes
  BY <1>2 DEF Knows, InSyncTx
<1>7. mine \subseteq {m}
  <2> SUFFICES ASSUME NEW n \in mine PROVE n = m
    OBVIOUS
  <2> QED
    BY <1>1, <1>6, ConstantsAssumption DEF RemindersOf, IInv, OneReminderPerInterval
<1>8. m # Null => LiveReminder(m) /\ reminder[m].of = arg[r].int
  BY <1>1 DEF RemindersOf
<1>9. Knows(r)'
  BY <1>4, <1>5, <1>6, <1>7, <1>8
     DEF Knows, InSyncTx, LiveInterval, LiveReminder, RemindersOf
<1>10. \A q \in Requests \ {r} : Apart(q, r)' /\ Apart(r, q)'
  BY <1>2, <1>4, <1>5 DEF Apart, InSyncTx, IInv, AllApart
<1> QED
  BY <1>1, <1>4, <1>9, <1>10, ContinueKeeps DEF Steps, InSyncTx

LEMMA DeleteRemindersKeeps ==
  ASSUME IInv, NEW r \in Requests, DeleteReminders(r)
  PROVE  IInv'
<1> DEFINE a == [arg[r] EXCEPT !.doomed = RemindersOf(arg[r].int)]
<1>1. /\ pc[r] = "delete.reminders" /\ Knows(r) /\ arg[r] \in Args
      /\ Continue(r, "delete.interval", a)
  BY DEF DeleteReminders, IInv, AllKnow, TypeOK
<1>2. a \in Args /\ a.int = arg[r].int
  BY <1>1 DEF Args, RemindersOf
<1>3. pc'[r] = "delete.interval" /\ arg'[r] = a /\ interval' = interval
  BY <1>1 DEF Continue, Goto, tables, IInv, TypeOK
<1>4. Knows(r)'
  BY <1>1, <1>2, <1>3 DEF Knows, InSyncTx
<1> QED
  BY <1>1, <1>2, <1>4, PlainStepKeeps DEF Steps, InSyncTx

-----------------------------------------------------------------------------
(* Steps that write the tables *)

(* The commit of a change: the reminders that it wrote are new or are the  *)
(* interval's, and at most one of the interval is there afterwards.        *)
LEMMA SyncWritesKeeps ==
  ASSUME IInv, NEW r \in Requests, pc[r] = "sync.write",
         NEW row \in IntervalRow, NEW n,
         NEW newReminder \in [ReminderIds -> ReminderRow \cup {FreeReminder, GoneReminder}],
         SyncWrites(r, row, newReminder),
         \A m \in ReminderIds :
           newReminder[m] # reminder[m]
             => /\ reminder[m].st = "free" \/ (LiveReminder(m) /\ reminder[m].of = arg[r].int)
                /\ newReminder[m].st = "live" /\ newReminder[m].of = arg[r].int,
         \A m \in ReminderIds :
           newReminder[m].st = "live" /\ newReminder[m].of = arg[r].int
             => m = n /\ (row.status = "DISABLED" => newReminder[m].status # "ACTIVE")
  PROVE  IInv'
<1> DEFINE i == arg[r].int
<1>1. i \in IntervalIds /\ LiveInterval(i)
  BY DEF IInv, AllKnow, Knows, InSyncTx
<1>2. interval' = [interval EXCEPT ![i] = row] /\ reminder' = newReminder /\ Finish(r)
  BY DEF SyncWrites
<1>3. /\ interval'[i] = row /\ row.st = "live"
      /\ \A j \in IntervalIds \ {i} : interval'[j] = interval[j]
  BY <1>1, <1>2 DEF IInv, TypeOK, IntervalRow
<1>4. /\ pc'[r] = "idle"
      /\ \A q \in Requests \ {r} : pc'[q] = pc[q] /\ arg'[q] = arg[q]
      /\ pc' \in [Requests -> Steps] /\ arg' \in [Requests -> Args] /\ Knows(r)'
      /\ \A q \in Requests \ {r} : Apart(q, r)' /\ Apart(r, q)'
  BY <1>2, Idle DEF IInv
<1>5. TypeOK'
  BY <1>1, <1>2, <1>4 DEF IInv, TypeOK
<1>6. DisabledIsSilent'
  <2> SUFFICES ASSUME NEW j \in IntervalIds, NEW m \in ReminderIds, LiveInterval(j)',
                      interval'[j].status = "DISABLED", newReminder[m].st = "live",
                      newReminder[m].of = j
               PROVE  newReminder[m].status # "ACTIVE"
    BY <1>2 DEF DisabledIsSilent, RemindersOf, LiveReminder
  <2>1. CASE j = i
    BY <1>3, <2>1
  <2>2. CASE j # i
    BY <1>3, <2>2 DEF IInv, DisabledIsSilent, RemindersOf, LiveReminder, LiveInterval
  <2> QED
    BY <2>1, <2>2
<1>7. OneReminderPerInterval'
  <2> SUFFICES ASSUME NEW m \in ReminderIds, NEW k \in ReminderIds,
                      newReminder[m].st = "live", newReminder[k].st = "live",
                      newReminder[m].of = newReminder[k].of, newReminder[m].of # Null
               PROVE  m = k
    BY <1>2 DEF OneReminderPerInterval, LiveReminder
  <2>1. CASE newReminder[m].of = i
    BY <2>1
  <2>2. CASE newReminder[m].of # i
    BY <2>2 DEF IInv, OneReminderPerInterval, LiveReminder
  <2> QED
    BY <2>1, <2>2
<1>8. IntervalCreated'
  <2> SUFFICES ASSUME NEW m \in ReminderIds, newReminder[m].st = "live",
                      newReminder[m].of # Null
               PROVE  interval'[newReminder[m].of].st # "free"
    BY <1>2 DEF IntervalCreated, LiveReminder
  <2>1. CASE newReminder[m] # reminder[m]
    BY <1>3, <2>1
  <2>2. CASE newReminder[m] = reminder[m]
    BY <1>3, <2>2 DEF IInv, IntervalCreated, LiveReminder, TypeOK, ReminderRow,
                      FreeReminder, GoneReminder
  <2> QED
    BY <2>1, <2>2
<1>9. AllKnow'
  <2> SUFFICES ASSUME NEW q \in Requests, q # r PROVE Knows(q)'
    BY <1>4 DEF AllKnow
  <2>1. pc'[q] = pc[q] /\ arg'[q] = arg[q] /\ Knows(q) /\ Apart(q, r)
    BY <1>4 DEF IInv, AllKnow, AllApart
  <2>2. pc[q] \in InSyncTx => arg[q].int # i
    BY <2>1 DEF Apart, InSyncTx
  <2>3. pc[q] \in InSyncTx => RemindersOf(arg[q].int)' = RemindersOf(arg[q].int)
    BY <1>2, <2>1, <2>2 DEF RemindersOf, LiveReminder
  <2>4. pc[q] = "sync.write" /\ arg[q].rem # Null
          => arg[q].rem \in ReminderIds /\ newReminder[arg[q].rem] = reminder[arg[q].rem]
    BY <2>1, <2>2 DEF Knows, InSyncTx, IInv, TypeOK, Args
  <2> QED
    BY <1>2, <1>3, <2>1, <2>3, <2>4 DEF Knows, InSyncTx, LiveInterval, LiveReminder
<1>10. AllApart'
  <2> SUFFICES ASSUME NEW q \in Requests, NEW s \in Requests, q # s
               PROVE  Apart(q, s)'
    BY DEF AllApart
  <2>1. CASE q = r \/ s = r
    BY <1>4, <2>1
  <2>2. CASE q # r /\ s # r
    BY <1>4, <2>2 DEF IInv, AllApart, Apart
  <2> QED BY <2>1, <2>2
<1> QED
  BY <1>5, <1>6, <1>7, <1>8, <1>9, <1>10 DEF IInv

LEMMA SyncUpdateKeeps ==
  ASSUME IInv, NEW r \in Requests, SyncUpdate(r)
  PROVE  IInv'
<1> DEFINE i == arg[r].int
           m == arg[r].rem
           row == Patched(interval[i], arg[r])
           silent == [reminder[m] EXCEPT !.status = "DISMISSED"]
           synced == [reminder[m] EXCEPT !.status = "ACTIVE", !.due = row.next]
           newRow == IF row.status = "DISABLED" THEN silent ELSE synced
<1>1. CASE Answer(r)
  BY <1>1, AnswerKeeps
<1>2. CASE /\ LiveReminder(m)
           /\ SyncWrites(r, row, [reminder EXCEPT ![m] = newRow])
  <2>1. /\ pc[r] = "sync.write" /\ m # Null /\ Knows(r) /\ arg[r] \in Args
        /\ m \in ReminderIds
    BY DEF SyncUpdate, IInv, TypeOK, AllKnow, Args
  <2>2. /\ i \in IntervalIds /\ interval[i] \in IntervalRow
        /\ reminder[m] \in ReminderRow /\ reminder[m].of = i /\ LiveReminder(m)
        /\ RemindersOf(i) \subseteq {m}
    BY <1>2, <2>1, LiveRows DEF Knows, InSyncTx, IInv
  <2>3. row \in IntervalRow
    BY <2>1, <2>2, PatchedType
  <2> HIDE DEF row
  <2>4. /\ newRow \in ReminderRow /\ newRow.of = i /\ newRow.st = "live"
        /\ row.status = "DISABLED" => newRow.status # "ACTIVE"
    BY <2>2, <2>3 DEF ReminderRow, ReminderStatus, IntervalRow
  <2> HIDE DEF newRow
  <2> DEFINE new == [reminder EXCEPT ![m] = newRow]
  <2>5. /\ new \in [ReminderIds -> ReminderRow \cup {FreeReminder, GoneReminder}]
        /\ new[m] = newRow
        /\ \A k \in ReminderIds \ {m} : new[k] = reminder[k]
    BY <2>1, <2>4 DEF IInv, TypeOK
  <2>6. \A k \in ReminderIds \ {m} : ~(new[k].st = "live" /\ new[k].of = i)
    BY <2>2, <2>5 DEF RemindersOf, LiveReminder
  <2>7. SyncWrites(r, row, new)
    BY <1>2
  <2> HIDE DEF new
  <2> QED
    BY <2>1, <2>2, <2>3, <2>4, <2>5, <2>6, <2>7, SyncWritesKeeps
<1>3. ASSUME pc[r] = "sync.write", LiveReminder(m),
             SyncWrites(r, row, IF row.status = "DISABLED"
                                THEN [reminder EXCEPT ![m].status = "DISMISSED"]
                                ELSE [reminder EXCEPT ![m].status = "ACTIVE",
                                                      ![m].due = row.next])
      PROVE  SyncWrites(r, row, [reminder EXCEPT ![m] = newRow])
  <2> HIDE DEF row
  <2>1. [reminder EXCEPT ![m].status = "DISMISSED"] = [reminder EXCEPT ![m] = silent]
    OBVIOUS
  <2>2. [reminder EXCEPT ![m].status = "ACTIVE", ![m].due = row.next]
          = [reminder EXCEPT ![m] = synced]
    BY DEF IInv, TypeOK
  <2> QED
    BY <1>3, <2>1, <2>2
<1> QED
  BY <1>1, <1>2, <1>3 DEF SyncUpdate

LEMMA SyncCreateKeeps ==
  ASSUME IInv, NEW r \in Requests, SyncCreate(r)
  PROVE  IInv'
<1> DEFINE i == arg[r].int
           row == Patched(interval[i], arg[r])
<1>1. CASE Answer(r)
  BY <1>1, AnswerKeeps
<1>2. /\ pc[r] = "sync.write" /\ arg[r].rem = Null /\ Knows(r) /\ arg[r] \in Args
  BY DEF SyncCreate, IInv, TypeOK, AllKnow
<1>3. /\ i \in IntervalIds /\ interval[i] \in IntervalRow
      /\ \A k \in ReminderIds : ~(LiveReminder(k) /\ reminder[k].of = i)
  BY <1>2, LiveRows, ConstantsAssumption DEF Knows, InSyncTx, IInv, RemindersOf
<1>4. row \in IntervalRow
  BY <1>2, <1>3, PatchedType
<1>5. CASE SyncWrites(r, row, reminder)
  <2>1. reminder \in [ReminderIds -> ReminderRow \cup {FreeReminder, GoneReminder}]
    BY DEF IInv, TypeOK
  <2> HIDE DEF row
  <2> QED
    BY <1>2, <1>3, <1>4, <1>5, <2>1, SyncWritesKeeps DEF LiveReminder
<1>6. ASSUME NEW m \in ReminderIds, reminder[m].st = "free", row.status = "ACTIVE",
             SyncWrites(r, row, [reminder EXCEPT ![m] =
                                  [st |-> "live", status |-> "ACTIVE",
                                   of |-> i, due |-> row.next]])
      PROVE  IInv'
  <2> DEFINE newRow == [st |-> "live", status |-> "ACTIVE", of |-> i, due |-> row.next]
             new == [reminder EXCEPT ![m] = newRow]
  <2> HIDE DEF row
  <2>1. newRow \in ReminderRow /\ newRow.of = i /\ newRow.st = "live"
    BY <1>3, <1>4 DEF ReminderRow, ReminderStatus, IntervalRow
  <2>2. SyncWrites(r, row, new)
    BY <1>6
  <2> HIDE DEF newRow
  <2>3. /\ new \in [ReminderIds -> ReminderRow \cup {FreeReminder, GoneReminder}]
        /\ new[m] = newRow
        /\ \A k \in ReminderIds \ {m} : new[k] = reminder[k]
    BY <2>1 DEF IInv, TypeOK
  <2>4. \A k \in ReminderIds \ {m} : ~(new[k].st = "live" /\ new[k].of = i)
    BY <1>3, <2>3 DEF LiveReminder
  <2> HIDE DEF new
  <2>5. row.status # "DISABLED"
    BY <1>6
  <2> QED
    BY <1>2, <1>4, <1>6, <2>1, <2>2, <2>3, <2>4, <2>5, SyncWritesKeeps
<1> QED
  BY <1>1, <1>5, <1>6 DEF SyncCreate

(* A step that writes no row of interval, and leaves every reminder that   *)
(* some request found to its interval or deletes it.                       *)
LEMMA ReminderStepKeeps ==
  ASSUME IInv, interval' = interval,
         pc' \in [Requests -> Steps], arg' \in [Requests -> Args],
         reminder' \in [ReminderIds -> ReminderRow \cup {FreeReminder, GoneReminder}],
         \A m \in ReminderIds :
           /\ reminder[m].st # "free" => reminder'[m].st # "free"
           /\ reminder'[m].st = "live"
                => \/ reminder'[m].of = Null
                   \/ /\ LiveReminder(m) /\ reminder[m].of = reminder'[m].of
                      /\ reminder'[m].status # "ACTIVE" \/ reminder[m].status = "ACTIVE"
           /\ reminder[m].st # "free" /\ reminder'[m].st = "live"
                => LiveReminder(m) /\ reminder[m].of = reminder'[m].of,
         \A q \in Requests : \/ pc'[q] = pc[q] /\ arg'[q] = arg[q]
                             \/ pc'[q] = "idle"
  PROVE  IInv'
<1>1. TypeOK'
  BY DEF IInv, TypeOK
<1>2. DisabledIsSilent'
  BY ConstantsAssumption
     DEF IInv, DisabledIsSilent, RemindersOf, LiveReminder, LiveInterval
<1>3. OneReminderPerInterval'
  BY DEF IInv, OneReminderPerInterval, LiveReminder
<1>4. IntervalCreated'
  BY DEF IInv, IntervalCreated, LiveReminder
<1>5. AllKnow'
  <2> SUFFICES ASSUME NEW q \in Requests PROVE Knows(q)'
    BY DEF AllKnow
  <2>1. CASE pc'[q] = "idle"
    BY <2>1 DEF Knows, InSyncTx
  <2>2. CASE pc'[q] = pc[q] /\ arg'[q] = arg[q]
    <3>1. Knows(q) /\ arg[q] \in Args
      BY DEF IInv, AllKnow, TypeOK
    <3>2. arg[q].int \in IntervalIds
            => RemindersOf(arg[q].int)' \subseteq RemindersOf(arg[q].int)
      BY <2>2, ConstantsAssumption DEF RemindersOf, LiveReminder
    <3>3. arg[q].rem # Null => arg[q].rem \in ReminderIds
      BY <3>1 DEF Args
    <3> QED
      BY <2>2, <3>1, <3>2, <3>3 DEF Knows, InSyncTx, LiveInterval, LiveReminder
  <2> QED
    BY <2>1, <2>2
<1>6. AllApart'
  BY DEF IInv, AllApart, Apart, InSyncTx
<1> QED
  BY <1>1, <1>2, <1>3, <1>4, <1>5, <1>6 DEF IInv

LEMMA CreateReminderKeeps ==
  ASSUME IInv, NEW m \in ReminderIds, NEW due \in Mileages \cup {Null},
         CreateReminder(m, due)
  PROVE  IInv'
<1> DEFINE row == [st |-> "live", status |-> "ACTIVE", of |-> Null, due |-> due]
<1>1. row \in ReminderRow /\ row.of = Null /\ row.st = "live"
  BY ConstantsAssumption DEF ReminderRow, ReminderStatus
<1>2. /\ reminder[m].st = "free" /\ reminder' = [reminder EXCEPT ![m] = row]
      /\ interval' = interval /\ pc' = pc /\ arg' = arg
  BY DEF CreateReminder
<1> HIDE DEF row
<1>3. /\ reminder' \in [ReminderIds -> ReminderRow \cup {FreeReminder, GoneReminder}]
      /\ reminder'[m] = row
      /\ \A k \in ReminderIds \ {m} : reminder'[k] = reminder[k]
  BY <1>1, <1>2 DEF IInv, TypeOK
<1>4. pc' \in [Requests -> Steps] /\ arg' \in [Requests -> Args]
  BY <1>2 DEF IInv, TypeOK
<1> QED
  BY <1>1, <1>2, <1>3, <1>4, ReminderStepKeeps DEF LiveReminder

LEMMA WriteReminderKeeps ==
  ASSUME IInv, NEW r \in Requests, WriteReminder(r)
  PROVE  IInv'
<1> DEFINE m == arg[r].rem
           row == ReminderPatched(reminder[m], arg[r])
<1>1. CASE Answer(r)
  BY <1>1, AnswerKeeps
<1>2. CASE /\ LiveReminder(m) /\ Finish(r) /\ interval' = interval
           /\ reminder' = [reminder EXCEPT ![m] = row]
  <2>1. pc[r] = "reminder.write" /\ m \in ReminderIds /\ arg[r] \in Args
    BY DEF WriteReminder, IInv, AllKnow, Knows, TypeOK
  <2>2. reminder[m] \in ReminderRow
    BY <1>2, <2>1, LiveRows DEF IInv
  <2>3. /\ row \in ReminderRow \cup {GoneReminder}
        /\ row.st = "live" => /\ row.of = reminder[m].of
                              /\ row.status # "ACTIVE" \/ reminder[m].status = "ACTIVE"
        /\ row.st # "free"
    BY <2>1, <2>2, ReminderPatchedType DEF ReminderRow, GoneReminder, FreeReminder
  <2> HIDE DEF row
  <2>4. /\ reminder' \in [ReminderIds -> ReminderRow \cup {FreeReminder, GoneReminder}]
        /\ reminder'[m] = row
        /\ \A k \in ReminderIds \ {m} : reminder'[k] = reminder[k]
    BY <1>2, <2>1, <2>3 DEF IInv, TypeOK
  <2>5. /\ pc' \in [Requests -> Steps] /\ arg' \in [Requests -> Args]
        /\ \A q \in Requests : \/ pc'[q] = pc[q] /\ arg'[q] = arg[q]
                               \/ pc'[q] = "idle"
    BY <1>2, Idle DEF IInv
  <2> HIDE DEF m
  <2>6. \A k \in ReminderIds :
          /\ reminder[k].st # "free" => reminder'[k].st # "free"
          /\ reminder'[k].st = "live"
               => /\ LiveReminder(k) /\ reminder[k].of = reminder'[k].of
                  /\ reminder'[k].status # "ACTIVE" \/ reminder[k].status = "ACTIVE"
    BY <1>2, <2>3, <2>4 DEF LiveReminder
  <2> QED
    BY <1>2, <2>4, <2>5, <2>6, ReminderStepKeeps
<1> QED
  BY <1>1, <1>2 DEF WriteReminder

(* A new interval is nobody's yet: no reminder and no request names it. *)
LEMMA CreateKeeps ==
  ASSUME IInv, NEW i \in IntervalIds, NEW m \in ReminderIds,
         NEW km \in Kms \cup {Null}, NEW last \in Mileages \cup {Null},
         Create(i, m, km, last)
  PROVE  IInv'
<1> DEFINE next == calculateNext(km, last)
           iRow == [st |-> "live", status |-> "ACTIVE", km |-> km, last |-> last,
                    next |-> next]
           mRow == [st |-> "live", status |-> "ACTIVE", of |-> i, due |-> next]
<1>1. next \in Nat \cup {Null}
  BY NextType
<1>2. /\ interval[i].st = "free" /\ interval' = [interval EXCEPT ![i] = iRow]
      /\ reminder[m].st = "free" /\ reminder' = [reminder EXCEPT ![m] = mRow]
      /\ pc' = pc /\ arg' = arg
  BY DEF Create
<1> HIDE DEF next
<1>3. /\ iRow \in IntervalRow /\ iRow.st = "live" /\ iRow.status = "ACTIVE"
      /\ mRow \in ReminderRow /\ mRow.st = "live" /\ mRow.of = i
  BY <1>1 DEF IntervalRow, ReminderRow, MaintenanceStatus, ReminderStatus
<1> HIDE DEF iRow, mRow
<1>4. /\ interval' \in [IntervalIds -> IntervalRow \cup {FreeInterval, GoneInterval}]
      /\ interval'[i] = iRow
      /\ \A j \in IntervalIds \ {i} : interval'[j] = interval[j]
      /\ reminder' \in [ReminderIds -> ReminderRow \cup {FreeReminder, GoneReminder}]
      /\ reminder'[m] = mRow
      /\ \A k \in ReminderIds \ {m} : reminder'[k] = reminder[k]
  BY <1>2, <1>3 DEF IInv, TypeOK
<1>5. i # Null /\ \A k \in ReminderIds : LiveReminder(k) => reminder[k].of # i
  BY <1>2, ConstantsAssumption DEF IInv, IntervalCreated
<1>6. TypeOK'
  BY <1>2, <1>4 DEF IInv, TypeOK
<1>7. DisabledIsSilent'
  BY <1>3, <1>4 DEF IInv, DisabledIsSilent, RemindersOf, LiveReminder, LiveInterval
<1>8. OneReminderPerInterval'
  BY <1>3, <1>4, <1>5 DEF IInv, OneReminderPerInterval, LiveReminder
<1>9. IntervalCreated'
  BY <1>3, <1>4 DEF IInv, IntervalCreated, LiveReminder, TypeOK, ReminderRow,
                    FreeReminder, GoneReminder
<1>10. AllKnow'
  <2> SUFFICES ASSUME NEW q \in Requests PROVE Knows(q)'
    BY DEF AllKnow
  <2>1. pc'[q] = pc[q] /\ arg'[q] = arg[q] /\ Knows(q) /\ arg[q] \in Args
    BY <1>2 DEF IInv, AllKnow, TypeOK
  <2>2. /\ arg[q].int \in IntervalIds /\ interval[arg[q].int].st # "free"
             => /\ interval'[arg[q].int] = interval[arg[q].int]
                /\ RemindersOf(arg[q].int)' = RemindersOf(arg[q].int)
        /\ arg[q].rem \in ReminderIds /\ reminder[arg[q].rem].st # "free"
             => reminder'[arg[q].rem] = reminder[arg[q].rem]
    BY <1>2, <1>3, <1>4, <2>1 DEF RemindersOf, LiveReminder
  <2>3. arg[q].rem # Null => arg[q].rem \in ReminderIds
    BY <2>1 DEF Args
  <2> QED
    BY <2>1, <2>2, <2>3 DEF Knows, InSyncTx, LiveInterval, LiveReminder
<1>11. AllApart'
  BY <1>2 DEF IInv, AllApart, Apart
<1> QED
  BY <1>6, <1>7, <1>8, <1>9, <1>10, <1>11 DEF IInv

(* A delete waits for the lock: no open change finds its interval gone. *)
LEMMA DeleteIntervalKeeps ==
  ASSUME IInv, NEW r \in Requests, DeleteInterval(r)
  PROVE  IInv'
<1> DEFINE i == arg[r].int
<1>1. CASE Answer(r)
  BY <1>1, AnswerKeeps
<1>2. CASE /\ LiveInterval(i) /\ Finish(r)
           /\ interval' = [interval EXCEPT ![i] = GoneInterval]
           /\ reminder' = [m \in ReminderIds |-> IF m \in arg[r].doomed
                                                 THEN GoneReminder
                                                 ELSE reminder[m]]
  <2>1. /\ pc[r] = "delete.interval" /\ i \in IntervalIds
        /\ \A q \in Requests \ {r} : ~(pc[q] \in InSyncTx /\ arg[q].int = i)
    BY DEF DeleteInterval, IntervalLocked, IInv, AllKnow, Knows
  <2>2. /\ interval' \in [IntervalIds -> IntervalRow \cup {FreeInterval, GoneInterval}]
        /\ interval'[i].st = "gone"
        /\ \A j \in IntervalIds \ {i} : interval'[j] = interval[j]
    BY <1>2, <2>1 DEF IInv, TypeOK, GoneInterval, FreeInterval
  <2>3. /\ reminder' \in [ReminderIds -> ReminderRow \cup {FreeReminder, GoneReminder}]
        /\ \A m \in ReminderIds :
             reminder'[m] = reminder[m] \/ reminder'[m] = GoneReminder
    BY <1>2 DEF IInv, TypeOK
  <2>4. GoneReminder.st = "gone"
    BY DEF GoneReminder, FreeReminder
  <2>5. /\ pc'[r] = "idle"
        /\ \A q \in Requests \ {r} : pc'[q] = pc[q] /\ arg'[q] = arg[q]
        /\ pc' \in [Requests -> Steps] /\ arg' \in [Requests -> Args] /\ Knows(r)'
        /\ \A q \in Requests \ {r} : Apart(q, r)' /\ Apart(r, q)'
    BY <1>2, Idle DEF IInv
  <2>6. TypeOK'
    BY <2>2, <2>3, <2>5 DEF TypeOK
  <2>7. DisabledIsSilent'
    BY <2>2, <2>3, <2>4 DEF IInv, DisabledIsSilent, RemindersOf, LiveReminder, LiveInterval
  <2>8. OneReminderPerInterval'
    BY <2>3, <2>4 DEF IInv, OneReminderPerInterval, LiveReminder
  <2>9. IntervalCreated'
    <3> SUFFICES ASSUME NEW m \in ReminderIds, reminder'[m].st = "live",
                        reminder'[m].of # Null
                 PROVE  interval'[reminder'[m].of].st # "free"
      BY DEF IntervalCreated, LiveReminder
    <3>1. /\ reminder'[m] = reminder[m] /\ interval[reminder[m].of].st # "free"
          /\ reminder[m].of \in IntervalIds
      BY <2>3, <2>4, LiveRows DEF IInv, IntervalCreated, LiveReminder, ReminderRow
    <3> QED
      BY <2>2, <3>1
  <2>10. AllKnow'
    <3> SUFFICES ASSUME NEW q \in Requests, q # r PROVE Knows(q)'
      BY <2>5 DEF AllKnow
    <3>1. pc'[q] = pc[q] /\ arg'[q] = arg[q] /\ Knows(q) /\ arg[q] \in Args
      BY <2>5 DEF IInv, AllKnow, TypeOK
    <3>2. RemindersOf(arg[q].int)' \subseteq RemindersOf(arg[q].int)
      BY <2>3, <2>4, <3>1 DEF RemindersOf, LiveReminder
    <3>3. arg[q].int \in IntervalIds /\ interval[arg[q].int].st # "free"
            => /\ interval'[arg[q].int].st # "free"
               /\ arg[q].int # i => interval'[arg[q].int] = interval[arg[q].int]
      BY <2>2
    <3>4. arg[q].rem # Null => arg[q].rem \in ReminderIds
      BY <3>1 DEF Args
    <3> QED
      BY <2>1, <2>3, <2>4, <3>1, <3>2, <3>3, <3>4
         DEF Knows, InSyncTx, LiveInterval, LiveReminder
  <2>11. AllApart'
    <3> SUFFICES ASSUME NEW q \in Requests, NEW s \in Requests, q # s
                 PROVE  Apart(q, s)'
      BY DEF AllApart
    <3>1. CASE q = r \/ s = r
      BY <2>5, <3>1
    <3>2. CASE q # r /\ s # r
      BY <2>5, <3>2 DEF IInv, AllApart, Apart
    <3> QED BY <3>1, <3>2
  <2> QED
    BY <2>6, <2>7, <2>8, <2>9, <2>10, <2>11 DEF IInv
<1> QED
  BY <1>1, <1>2 DEF DeleteInterval

-----------------------------------------------------------------------------
LEMMA NextKeeps == IInv /\ [Next]_vars => IInv'
<1> SUFFICES ASSUME IInv, [Next]_vars PROVE IInv'
  OBVIOUS
<1>1. ASSUME NEW r \in Requests, Step(r) PROVE IInv'
  BY <1>1, ChangeKeeps, SyncFindKeeps, SyncUpdateKeeps, SyncCreateKeeps,
     DeleteRemindersKeeps, DeleteIntervalKeeps, WriteReminderKeeps DEF Step
<1>2. ASSUME NEW r \in Requests, Open(r) \/ DeadlockVictim(r) \/ Fail(r) PROVE IInv'
  BY <1>2, OpenKeeps, AnswerKeeps DEF DeadlockVictim, Fail
<1>3. CASE UNCHANGED vars
  BY <1>3, UnchangedKeeps
<1> QED
  BY <1>1, <1>2, <1>3, CreateKeeps, CreateReminderKeeps DEF Next

(* The strengthened invariant holds in every state. *)
THEOREM Invariance == Spec => []IInv
BY InitIInv, NextKeeps, PTL DEF Spec

(* Every row and every request stays well-typed: no update by id brings a  *)
(* reminder or an interval back that was deleted meanwhile.                *)
THEOREM TypeCorrect == Spec => []TypeOK
<1>1. IInv => TypeOK
  BY DEF IInv
<1> QED
  BY <1>1, Invariance, PTL

(* The reminder of a disabled interval is never ACTIVE. *)
THEOREM DisabledAlwaysSilent == Spec => []DisabledIsSilent
<1>1. IInv => DisabledIsSilent
  BY DEF IInv
<1> QED
  BY <1>1, Invariance, PTL

(* syncFromMaintenanceInterval never makes a second reminder. *)
THEOREM NeverTwoReminders == Spec => []OneReminderPerInterval
<1>1. IInv => OneReminderPerInterval
  BY DEF IInv
<1> QED
  BY <1>1, Invariance, PTL

(* A change of an ACTIVE interval reaches its reminder in the same commit. *)
THEOREM ChangesReachReminder == Spec => ChangesAreSynced
<1>1. ASSUME IInv, Next, NEW i \in IntervalIds,
             interval'[i] # interval[i], interval'[i].st = "live",
             interval'[i].status = "ACTIVE"
      PROVE  \E m \in ReminderIds : /\ reminder'[m].st = "live" /\ reminder'[m].of = i
                                    /\ reminder'[m].status = "ACTIVE"
                                    /\ reminder'[m].due = interval'[i].next
  <2> DEFINE Synced == \E m \in ReminderIds :
                         /\ reminder'[m].st = "live" /\ reminder'[m].of = i
                         /\ reminder'[m].status = "ACTIVE"
                         /\ reminder'[m].due = interval'[i].next
  <2>1. ASSUME NEW j \in IntervalIds, NEW m \in ReminderIds, NEW km \in Kms \cup {Null},
               NEW last \in Mileages \cup {Null}, Create(j, m, km, last)
        PROVE  Synced
    <3> DEFINE next == calculateNext(km, last)
    <3>1. /\ interval' = [interval EXCEPT ![j] =
                           [st |-> "live", status |-> "ACTIVE", km |-> km, last |-> last,
                            next |-> next]]
          /\ reminder' = [reminder EXCEPT ![m] =
                           [st |-> "live", status |-> "ACTIVE", of |-> j, due |-> next]]
      BY <2>1 DEF Create
    <3> HIDE DEF next
    <3> QED
      BY <1>1, <3>1 DEF IInv, TypeOK
  <2>2. ASSUME NEW r \in Requests, SyncUpdate(r) PROVE Synced
    <3> DEFINE m == arg[r].rem
               row == Patched(interval[arg[r].int], arg[r])
    <3>1. ~Answer(r)
      BY <1>1 DEF Answer, tables
    <3>2. /\ pc[r] = "sync.write" /\ m # Null /\ LiveReminder(m) /\ Knows(r)
          /\ arg[r].int \in IntervalIds /\ m \in ReminderIds
          /\ interval' = [interval EXCEPT ![arg[r].int] = row]
      BY <1>1, <2>2, <3>1
         DEF SyncUpdate, SyncWrites, IInv, AllKnow, Knows, InSyncTx, TypeOK, Args
    <3> HIDE DEF row
    <3>3. i = arg[r].int /\ interval'[i] = row /\ row.status = "ACTIVE"
      BY <1>1, <3>2 DEF IInv, TypeOK
    <3>4. reminder' = [reminder EXCEPT ![m].status = "ACTIVE", ![m].due = row.next]
      BY <2>2, <3>1, <3>3 DEF SyncUpdate, SyncWrites, row
    <3>5. reminder[m] \in ReminderRow /\ reminder[m].of = i /\ reminder[m].st = "live"
      BY <1>1, <3>2, <3>3, LiveRows DEF IInv, Knows, LiveReminder
    <3>6. reminder'[m] = [reminder[m] EXCEPT !.status = "ACTIVE", !.due = row.next]
      BY <1>1, <3>2, <3>4 DEF IInv, TypeOK
    <3> QED
      BY <3>2, <3>3, <3>5, <3>6 DEF ReminderRow
  <2>3. ASSUME NEW r \in Requests, SyncCreate(r) PROVE Synced
    <3> DEFINE row == Patched(interval[arg[r].int], arg[r])
               new(m) == [reminder EXCEPT ![m] = [st |-> "live", status |-> "ACTIVE",
                                                  of |-> arg[r].int, due |-> row.next]]
    <3>1. ~Answer(r)
      BY <1>1 DEF Answer, tables
    <3>2. /\ arg[r].int \in IntervalIds
          /\ interval' = [interval EXCEPT ![arg[r].int] = row]
      BY <1>1, <2>3, <3>1
         DEF SyncCreate, SyncWrites, IInv, AllKnow, Knows, InSyncTx
    <3> HIDE DEF row
    <3>3. i = arg[r].int /\ interval'[i] = row /\ row.status = "ACTIVE"
      BY <1>1, <3>2 DEF IInv, TypeOK
    <3>4. PICK m \in ReminderIds : reminder' = new(m)
      BY <2>3, <3>1, <3>3 DEF SyncCreate, SyncWrites, row
    <3> QED
      BY <1>1, <3>3, <3>4 DEF IInv, TypeOK
  <2>4. ASSUME NEW r \in Requests, DeleteInterval(r) PROVE FALSE
    BY <1>1, <2>4
       DEF DeleteInterval, Answer, tables, IInv, AllKnow, Knows, TypeOK, GoneInterval,
           FreeInterval
  <2>5. ASSUME NEW r \in Requests,
               Change(r) \/ SyncFind(r) \/ DeleteReminders(r) \/ WriteReminder(r)
        PROVE  FALSE
    BY <1>1, <2>5
       DEF Change, SyncFind, DeleteReminders, WriteReminder, Answer, Continue, tables
  <2>6. ASSUME NEW r \in Requests, Open(r) PROVE FALSE
    <3>1. \A found, step, a : ~Opened(r, found, step, a)
      BY <1>1 DEF Opened, Continue, tables, vars
    <3> QED
      BY <2>6, <3>1 DEF Open, OpenUpdate, OpenMarkAsDone, OpenSwitch, OpenDelete, OpenReminder
  <2>7. ASSUME NEW r \in Requests, DeadlockVictim(r) \/ Fail(r) PROVE FALSE
    BY <1>1, <2>7 DEF DeadlockVictim, Fail, Answer, tables
  <2>8. ASSUME NEW m \in ReminderIds, NEW due \in Mileages \cup {Null},
               CreateReminder(m, due)
        PROVE  FALSE
    BY <1>1, <2>8 DEF CreateReminder
  <2> QED
    BY <1>1, <2>1, <2>2, <2>3, <2>4, <2>5, <2>6, <2>7, <2>8 DEF Next, Step
<1>2. IInv /\ [Next]_vars => [SyncedStep]_vars
  BY <1>1 DEF SyncedStep
<1> QED
  BY <1>2, Invariance, PTL DEF Spec, ChangesAreSynced

=============================================================================
