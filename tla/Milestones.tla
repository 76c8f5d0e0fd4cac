----------------------------- MODULE Milestones -----------------------------
(***************************************************************************)
(* The milestones of one vehicle and one group of levels.  What is counted *)
(* from its events, mileage, expenses, refuels, changes by any amount: the *)
(* logs less the mileage at registration are below 0 at first, and a cost  *)
(* may be negative.  Only createEvent runs checkAndAward, some awaits      *)
(* after it stored its event, and not for a sale.  Ownership is checked by *)
(* a cron, which counts the days once.  There is no unique index on        *)
(* vehicle_milestones, and no transaction.  The vehicle is not deleted     *)
(* here, which would take its awards along: Vehicles is about that.        *)
(***************************************************************************)
EXTENDS Integers, FiniteSets, FiniteSetsExt

CONSTANTS
  Levels,    \* the value each definition of the group asks for
  Requests,  \* requests, or runs of the cron, that can be in flight together
  MinTotal,  \* lowest total of what is counted: a bound
  MaxTotal,  \* highest total of what is counted: a bound
  MaxRows,   \* highest number of rows per definition: a bound
  Null       \* no value

(* What the module asks of its constants. *)
ConstantsAssumption ==
  /\ Levels \subseteq Nat \ {0} /\ MaxTotal \in Nat /\ MaxRows \in Nat
  /\ MinTotal \in Int /\ MinTotal <= 0
  /\ Null \notin Int
  /\ IsFiniteSet(Requests)

VARIABLES
  group,   \* the group of levels this is about
  total,   \* what evaluate computes from the tables, or the days of ownership
  awards,  \* rows of vehicle_milestones per definition
  pc, arg,
  (* History, which no guard reads. *)
  highest, \* the highest total there was, or count of a cron
  lowest,  \* per request: the lowest total since its check began
  granted  \* the highest of what was lowest in a check that came to its end

vars == <<group, total, awards, pc, arg, highest, lowest, granted>>

Totals == MinTotal..MaxTotal

(* days is the cron's count; todo holds what a reader was told is awarded, *)
(* granted what it was then.                                               *)
NoArgs == [todo |-> {}, level |-> Null, days |-> Null, granted |-> 0]
Args == [todo : SUBSET Levels, level : Levels \cup {Null},
         days : Totals \cup {Null}, granted : 0..MaxTotal]

Steps == {"idle", "stored", "next", "evaluate", "vehicles", "cron", "create", "levels"}

TypeOK ==
  /\ group \in {"counted", "owned"}
  /\ total \in Totals /\ highest \in Totals /\ granted \in 0..MaxTotal
  /\ awards \in [Levels -> 0..MaxRows]
  /\ pc \in [Requests -> Steps]
  /\ arg \in [Requests -> Args]
  /\ lowest \in [Requests -> Totals \cup {Null}]

Init ==
  /\ group \in {"counted", "owned"}
  /\ total \in Totals /\ (group = "counted" => total <= 0)
  /\ awards = [l \in Levels |-> 0]
  /\ pc = [r \in Requests |-> "idle"] /\ arg = [r \in Requests |-> NoArgs]
  /\ highest = total /\ lowest = [r \in Requests |-> Null] /\ granted = 0

Goto(r, step, a) ==
  /\ pc' = [pc EXCEPT ![r] = step]
  /\ arg' = [arg EXCEPT ![r] = a]

-----------------------------------------------------------------------------
(* What changes the total *)

Change(t) ==
  /\ total' = t
  /\ highest' = IF t > highest THEN t ELSE highest
  /\ lowest' = [r \in Requests |->
                  IF lowest[r] = Null \/ lowest[r] <= t THEN lowest[r] ELSE t]

(* createEvent writes the event and its log, and goes on to its other writes. *)
StoreEvent(r) ==
  /\ pc[r] = "idle" /\ group = "counted"
  /\ \E t \in Totals : Change(t)
  /\ Goto(r, "stored", NoArgs)
  /\ UNCHANGED <<group, awards, granted>>

(* markAsDone's event of service, which has no cost, and an event of sale, *)
(* whose cost and mileage do not count: no check follows.                  *)
StoreUnchecked ==
  /\ group = "counted"
  /\ \E t \in Totals : t >= total /\ Change(t)
  /\ UNCHANGED <<group, awards, pc, arg, granted>>

(* The cost, or the mileage of the log: no check follows. *)
UpdateEvent ==
  /\ group = "counted"
  /\ \E t \in Totals : Change(t)
  /\ UNCHANGED <<group, awards, pc, arg, granted>>

(* The total rises when the event's cost was negative. *)
DeleteEvent ==
  /\ group = "counted"
  /\ \E t \in Totals : Change(t)
  /\ UNCHANGED <<group, awards, pc, arg, granted>>

(* A day passes, for a cron too that has read the date and not counted yet. *)
DayPasses ==
  LET counting == {r \in Requests : pc[r] = "vehicles"}
      counts == {total} \cup {arg[r].days : r \in counting} IN
  /\ group = "owned" /\ \A n \in counts : n < MaxTotal
  /\ total' = total + 1
  /\ arg' = [r \in Requests |->
               IF r \in counting THEN [arg[r] EXCEPT !.days = @ + 1] ELSE arg[r]]
  /\ highest' = IF highest \in counts THEN highest + 1 ELSE highest
  /\ UNCHANGED <<group, awards, pc, lowest, granted>>

(* The event of purchase is deleted and created again, with another date. *)
Repurchase ==
  /\ group = "owned"
  /\ \E t \in Totals : Change(t)
  /\ UNCHANGED <<group, awards, pc, arg, granted>>

-----------------------------------------------------------------------------
(* The checks *)

(* findAchieved *)
Awarded(l) == awards[l] > 0

(* checkAndAward reads the definitions. *)
OpenCheck(r) ==
  /\ pc[r] = "stored"
  /\ Goto(r, "next", [NoArgs EXCEPT !.todo = Levels])
  /\ lowest' = [lowest EXCEPT ![r] = total]
  /\ UNCHANGED <<group, total, awards, highest, granted>>

(* checkOwnershipMilestones reads the vehicles and their dates of purchase. *)
OpenCron(r) ==
  /\ pc[r] = "idle" /\ group = "owned"
  /\ Goto(r, "vehicles", [NoArgs EXCEPT !.todo = Levels, !.days = total])
  /\ UNCHANGED <<group, total, awards, highest, lowest, granted>>

(* It comes to the vehicle, and counts the days since the date it read. *)
CountDays(r) ==
  /\ pc[r] = "vehicles"
  /\ Goto(r, "cron", arg[r])
  /\ UNCHANGED <<group, total, awards, highest, lowest, granted>>

Skip(r, l) ==
  Goto(r, IF arg[r].days = Null THEN "next" ELSE "cron",
       [arg[r] EXCEPT !.todo = @ \ {l}, !.level = Null])

(* The next definition; they come in any order. *)
Find(r, l) ==
  /\ pc[r] = "next" /\ l \in arg[r].todo
  /\ IF Awarded(l) THEN Skip(r, l)
     ELSE Goto(r, "evaluate", [arg[r] EXCEPT !.todo = @ \ {l}, !.level = l])
  /\ UNCHANGED <<group, total, awards, highest, lowest, granted>>

(* The cron has no more to ask: it compares with the days it counted. *)
CronFind(r, l) ==
  /\ pc[r] = "cron" /\ l \in arg[r].todo
  /\ IF Awarded(l) \/ arg[r].days < l THEN Skip(r, l)
     ELSE Goto(r, "create", [arg[r] EXCEPT !.todo = @ \ {l}, !.level = l])
  /\ UNCHANGED <<group, total, awards, highest, lowest, granted>>

Evaluate(r) ==
  LET l == arg[r].level IN
  /\ pc[r] = "evaluate"
  /\ IF total >= l THEN Goto(r, "create", arg[r]) ELSE Skip(r, l)
  /\ UNCHANGED <<group, total, awards, highest, lowest, granted>>

CreateAndStop(r) ==  \* mutant: the loop ends with the first award
  LET l == arg[r].level IN
  /\ pc[r] = "create" /\ awards[l] < MaxRows
  /\ awards' = [awards EXCEPT ![l] = @ + 1]
  /\ Goto(r, IF arg[r].days = Null THEN "next" ELSE "cron",
          [arg[r] EXCEPT !.todo = {}, !.level = Null])
  /\ UNCHANGED <<group, total, highest, lowest, granted>>

Create(r) ==
  LET l == arg[r].level IN
  /\ pc[r] = "create" /\ awards[l] < MaxRows
  /\ awards' = [awards EXCEPT ![l] = @ + 1]
  /\ Skip(r, l)
  /\ UNCHANGED <<group, total, highest, lowest, granted>>

(* What a check compared every level with was never below this. *)
Floor(r) == IF arg[r].days = Null THEN lowest[r] ELSE arg[r].days

Done(r) ==
  /\ pc[r] \in {"next", "cron"} /\ arg[r].todo = {}
  /\ Goto(r, "idle", NoArgs)
  /\ lowest' = [lowest EXCEPT ![r] = Null]
  /\ granted' = IF Floor(r) > granted THEN Floor(r) ELSE granted
  /\ UNCHANGED <<group, total, awards, highest>>

(* An await throws: what was stored or awarded stays. *)
Fail(r) ==
  /\ pc[r] # "idle"
  /\ Goto(r, "idle", NoArgs)
  /\ lowest' = [lowest EXCEPT ![r] = Null]
  /\ UNCHANGED <<group, total, awards, highest, granted>>

-----------------------------------------------------------------------------
(* getVehicleMilestoneLevels: the awards are read, then the total, and the *)
(* answer is computed.                                                     *)

OpenLevels(r) ==
  /\ pc[r] = "idle" /\ group = "counted"
  /\ Goto(r, "levels", [NoArgs EXCEPT !.todo = {l \in Levels : Awarded(l)},
                                      !.granted = granted])
  /\ UNCHANGED <<group, total, awards, highest, lowest, granted>>

AnswerLevels(r) ==
  /\ pc[r] = "levels"
  /\ Goto(r, "idle", NoArgs)
  /\ UNCHANGED <<group, total, awards, highest, lowest, granted>>

(* The highest level that is awarded, 0 for none. *)
CurrentLevel(achieved) == Max(achieved \cup {0})

(* The first level that is not: below the current one, when an award is    *)
(* missing.                                                                *)
NextLevel(achieved) ==
  IF achieved = Levels THEN Null ELSE Min(Levels \ achieved)

(* Math.round of the percentage that a is of b, which may be negative. *)
RoundedPercent(a, b) ==
  IF b > 0 THEN (200 * a + b) \div (2 * b) ELSE (-200 * a - b) \div (-2 * b)

(* The progress before it is clamped to 0..100. *)
Progress(achieved) ==
  LET from == CurrentLevel(achieved)  to == NextLevel(achieved) IN
  IF to = Null THEN 100 ELSE RoundedPercent(total - from, to - from)

Next ==
  \/ StoreUnchecked \/ UpdateEvent \/ DeleteEvent \/ DayPasses \/ Repurchase
  \/ \E r \in Requests :
       \/ StoreEvent(r) \/ OpenCheck(r) \/ OpenCron(r) \/ CountDays(r)
       \/ Evaluate(r) \/ Create(r) \/ Done(r) \/ Fail(r)
       \/ OpenLevels(r) \/ AnswerLevels(r)
       \/ \E l \in Levels : Find(r, l) \/ CronFind(r, l)

Spec == Init /\ [][Next]_vars

-----------------------------------------------------------------------------
(* The award is looked for before it is created, and nothing else prevents *)
(* a second one: there are never more rows than checks in flight.          *)
AwardsBounded == \A l \in Levels : awards[l] <= Cardinality(Requests)

(* Every level decided on a total of its own, with the total changing and  *)
(* other checks awarding meanwhile: a check that came to its end has left  *)
(* no level open that the total did not fall below since the check began,  *)
(* whatever failed or was stored unchecked before or after; and nothing is *)
(* awarded that the total never reached.                                   *)
LevelsReached ==
  \A l \in Levels :
    /\ l <= granted => Awarded(l)
    /\ Awarded(l) => l <= highest

(* The answer about the levels shows as current a level that was reached,  *)
(* and as next one that no check which had ended granted.  Its progress    *)
(* needs clamping only if the total fell below the current level, or rose  *)
(* past what those checks granted.                                         *)
LevelsShown ==
  \A r \in Requests :
    pc[r] = "levels"
      => LET achieved == arg[r].todo  to == NextLevel(achieved) IN
         /\ achieved # {} => CurrentLevel(achieved) <= highest
         /\ to # Null => to > arg[r].granted
         /\ CurrentLevel(achieved) <= total /\ total <= arg[r].granted /\ to # Null
              => Progress(achieved) \in 0..100

=============================================================================
