--------------------------- MODULE Notifications ---------------------------
(***************************************************************************)
(* The job that mails the owners of vehicles about reminders that are soon *)
(* due: notifications.cron.ts, which every process of the application runs *)
(* at nine each morning.  Time is counted in half days, and the job runs   *)
(* at odd instants; a run is over before the next day's begins, and does   *)
(* not see midnight.  A process that crashes is up again on the next day.  *)
(*                                                                         *)
(* Reminders are created, moved, dismissed and deleted by other parts.     *)
(***************************************************************************)
EXTENDS Integers, FiniteSets

CONSTANTS
  Servers,     \* processes that run the job
  Reminders,   \* ids of reminders rows
  Thresholds,  \* REMINDER_THRESHOLD_DAYS
  MaxNow,      \* how long the clock runs: a bound
  Null         \* no value

(* What the module asks of its constants. *)
ConstantsAssumption ==
  /\ Thresholds \subseteq Nat \ {0} /\ 1 \in Thresholds
  /\ \E most \in Thresholds : \A t \in Thresholds : t <= most
  /\ Servers # {} /\ MaxNow \in Nat
  /\ Null \notin Reminders

VARIABLES
  now,       \* half days
  reminder,  \* table reminders: status and due date, and when it was set
  wanted,    \* user_settings.notificationsEmail of the owner
  row,       \* row[m][s]: status of today's row that server s inserted for m
  server,    \* where each server's run of today stands
  mails,     \* mails sent today for each reminder
  told,      \* reminders there was a row for since their due date was set
  excused,   \* reminders a run of which crashed or failed, or was unwanted
  met        \* two runs of today overlapped

history == <<mails, told, excused, met>>
vars == <<now, reminder, wanted, row, server, history>>

FreeReminder == [st |-> "free", due |-> 0, since |-> 0]
GoneReminder == [FreeReminder EXCEPT !.st = "gone"]
Instants == 0..MaxNow
Reminder == [st : {"ACTIVE", "off"}, due : Instants, since : Instants]

Rest == [at |-> "waits", todo |-> {}, cur |-> Null]
Runs == [at : {"waits", "loop", "mail", "mark", "markFailed", "over"},
         todo : SUBSET Reminders, cur : Reminders \cup {Null}]
Running(s) == server[s].at \notin {"waits", "over"}

TypeOK ==
  /\ now \in 0..MaxNow
  /\ reminder \in [Reminders -> Reminder \cup {FreeReminder, GoneReminder}]
  /\ wanted \in BOOLEAN
  /\ row \in [Reminders -> [Servers -> {"none", "PENDING", "SENT", "FAILED"}]]
  /\ server \in [Servers -> Runs]
  /\ mails \in [Reminders -> Nat]
  /\ told \subseteq Reminders /\ excused \subseteq Reminders /\ met \in BOOLEAN

NoRows == [m \in Reminders |-> [s \in Servers |-> "none"]]

Init ==
  /\ now = 0
  /\ reminder = [m \in Reminders |-> FreeReminder]
  /\ wanted = TRUE
  /\ row = NoRows
  /\ server = [s \in Servers |-> Rest]
  /\ mails = [m \in Reminders |-> 0]
  /\ told = {} /\ excused = {} /\ met = FALSE

-----------------------------------------------------------------------------
(* What other parts do to reminders.  Dates and settings change between    *)
(* two runs only (a bound); a reminder goes or ends at any time.           *)

SetDue(m, due) ==
  /\ reminder[m].st # "gone" /\ now % 2 = 0 /\ due > now
  /\ reminder' = [reminder EXCEPT ![m] = [st |-> "ACTIVE", due |-> due, since |-> now]]
  /\ told' = told \ {m} /\ excused' = excused \ {m}
  /\ UNCHANGED <<now, wanted, row, server, mails, met>>

TurnOff(m) ==
  /\ reminder[m].st = "ACTIVE"
  /\ reminder' = [reminder EXCEPT ![m].st = "off"]
  /\ UNCHANGED <<now, wanted, row, server, history>>

(* The rows of its notifications go with it. *)
Delete(m) ==
  /\ reminder[m].st \in {"ACTIVE", "off"}
  /\ reminder' = [reminder EXCEPT ![m] = GoneReminder]
  /\ row' = [row EXCEPT ![m] = NoRows[m]]
  /\ UNCHANGED <<now, wanted, server, history>>

Choose ==
  /\ now % 2 = 0
  /\ wanted' = ~wanted
  /\ UNCHANGED <<now, reminder, row, server, history>>

-----------------------------------------------------------------------------
(* handleReminderNotifications *)

(* Math.ceil *)
DaysLeft(m) == (reminder[m].due - now + 1) \div 2

SentToday(m) ==  \* mutant: only looks for rows that were marked SENT
  \E s \in Servers : row[m][s] = "SENT"

AlreadySentToday(m) == \E s \in Servers : row[m][s] # "none"

(* The query, and the two conditions of the loop that only depend on it. *)
Due ==
  {m \in Reminders :
     /\ reminder[m].st = "ACTIVE"
     /\ reminder[m].due >= now
     /\ \E most \in Thresholds : /\ \A t \in Thresholds : t <= most
                                 /\ reminder[m].due <= now + 2 * most
     /\ DaysLeft(m) \in Thresholds
     /\ ~AlreadySentToday(m)}

(* Who does not want mails by now is passed over by sendEmailNotification. *)
Begin(s) ==
  /\ server[s].at = "waits" /\ now % 2 = 1
  /\ server' = [server EXCEPT ![s].at = "loop",
                              ![s].todo = IF wanted THEN Due ELSE {}]
  /\ met' = (met \/ \E q \in Servers : Running(q))
  /\ excused' = IF wanted THEN excused ELSE excused \cup Due
  /\ UNCHANGED <<now, reminder, wanted, row, mails, told>>

At(s, step) == server' = [server EXCEPT ![s].at = step]

(* The next reminder: its row comes before its mail. *)
Log(s, m) ==
  /\ server[s].at = "loop" /\ m \in server[s].todo
  /\ reminder[m].st # "gone"
  /\ row' = [row EXCEPT ![m][s] = "PENDING"]
  /\ server' = [server EXCEPT ![s].at = "mail", ![s].cur = m, ![s].todo = @ \ {m}]
  /\ told' = told \cup {m}
  /\ UNCHANGED <<now, reminder, wanted, mails, excused, met>>

LogFailsAll(s, m) ==  \* mutant: the error leaves the loop
  /\ server[s].at = "loop" /\ m \in server[s].todo
  /\ server' = [server EXCEPT ![s].todo = {}]
  /\ excused' = excused \cup {m}
  /\ UNCHANGED <<now, reminder, wanted, row, mails, told, met>>

(* The insert fails, or the reminder is gone: caught, on to the next. *)
LogFails(s, m) ==
  /\ server[s].at = "loop" /\ m \in server[s].todo
  /\ server' = [server EXCEPT ![s].todo = @ \ {m}]
  /\ excused' = excused \cup {m}
  /\ UNCHANGED <<now, reminder, wanted, row, mails, told, met>>

(* The mail goes out, or the call fails, or it goes out and the call fails. *)
Mail(s, sent, ok) ==
  /\ server[s].at = "mail" /\ (sent \/ ~ok)
  /\ mails' = IF sent THEN [mails EXCEPT ![server[s].cur] = @ + 1] ELSE mails
  /\ At(s, IF ok THEN "mark" ELSE "markFailed")
  /\ UNCHANGED <<now, reminder, wanted, row, told, excused, met>>

Marked(s, status) ==
  LET m == server[s].cur IN
  /\ row' = IF row[m][s] = "none" THEN row ELSE [row EXCEPT ![m][s] = status]
  /\ server' = [server EXCEPT ![s].at = "loop", ![s].cur = Null]

Mark(s) ==
  /\ server[s].at = "mark"
  /\ row[server[s].cur][s] # "none"
  /\ Marked(s, "SENT")
  /\ UNCHANGED <<now, reminder, wanted, history>>

(* The update throws, as it does when the row is gone. *)
MarkThrows(s) ==
  /\ server[s].at = "mark"
  /\ At(s, "markFailed")
  /\ UNCHANGED <<now, reminder, wanted, row, history>>

(* Marking as FAILED may fail in its turn, which is logged. *)
MarkFailed(s, ok) ==
  /\ server[s].at = "markFailed"
  /\ Marked(s, IF ok THEN "FAILED" ELSE row[server[s].cur][s])
  /\ UNCHANGED <<now, reminder, wanted, history>>

End(s) ==
  /\ server[s].at = "loop" /\ server[s].todo = {}
  /\ server' = [server EXCEPT ![s] = [Rest EXCEPT !.at = "over"]]
  /\ UNCHANGED <<now, reminder, wanted, row, history>>

(* A crash, or the query fails: nothing more happens on this day. *)
Crash(s) ==
  /\ server[s].at # "over" /\ now % 2 = 1
  /\ excused' = excused \cup (IF server[s].at = "waits" THEN Due ELSE server[s].todo)
  /\ server' = [server EXCEPT ![s] = [Rest EXCEPT !.at = "over"]]
  /\ UNCHANGED <<now, reminder, wanted, row, mails, told, met>>

(* Half a day passes: no run is left out, and none is longer. *)
Tick ==
  /\ now < MaxNow
  /\ now % 2 = 1 => \A s \in Servers : server[s].at = "over"
  /\ now' = now + 1
  /\ server' = [s \in Servers |-> Rest]
  /\ row' = NoRows /\ mails' = [m \in Reminders |-> 0] /\ met' = FALSE
  /\ UNCHANGED <<reminder, wanted, told, excused>>

Next ==
  \/ \E m \in Reminders :
       TurnOff(m) \/ Delete(m) \/ \E due \in Instants : SetDue(m, due)
  \/ Choose \/ Tick
  \/ \E s \in Servers :
       \/ Begin(s) \/ Mark(s) \/ MarkThrows(s) \/ End(s) \/ Crash(s)
       \/ \E m \in Reminders : Log(s, m) \/ LogFails(s, m)
       \/ \E ok \in BOOLEAN : MarkFailed(s, ok) \/ \E sent \in BOOLEAN : Mail(s, sent, ok)

Spec == Init /\ [][Next]_vars

-----------------------------------------------------------------------------
(* Nobody is mailed twice on a day about one reminder: the row is inserted *)
(* before the mail is sent, and counts whatever became of the mail, so not *)
(* even a crash between the two makes the next process mail again.  Only   *)
(* processes that run at the same time may.                                *)
MailedOnceADay == ~met => \A m \in Reminders : mails[m] <= 1

(* Whoever has a reminder for the whole day before it is due is told of it *)
(* in time: one reminder that cannot be logged does not keep the job from  *)
(* the others, and no time of day falls between the thresholds.            *)
RemindedBeforeDue ==
  \A m \in Reminders :
    /\ reminder[m].st = "ACTIVE"
    /\ reminder[m].since < reminder[m].due - 2
    /\ now > reminder[m].due
    => m \in told \cup excused

=============================================================================
