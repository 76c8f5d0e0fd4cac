----------------------------- MODULE TireHistory -----------------------------
(***************************************************************************)
(* The history of one tire, TiresService.getHistory: the changes of the    *)
(* tire by date, then the odometer of its vehicle, from which periods are  *)
(* paired.  The changes are read with those whose event was deleted: the   *)
(* deletion is soft, and the query does not look at it.  A mileage is in   *)
(* the unit of a date where it matters (see DrivenOnce).                   *)
(***************************************************************************)
EXTENDS Integers, Sequences, FiniteSets, SequencesExt

CONSTANTS
  ChangeIds,  \* ids of tire_changes rows
  Dates,      \* values of eventDate
  Mileages,   \* values of every mileage
  Null        \* no value

(* given is installedMileage of an INSTALL, removedMileage of a REMOVE. *)
Row == [type : {"INSTALL", "REMOVE"}, date : Dates, mileage : Mileages,
        given : Mileages \cup {Null}]

(* What the module asks of its constants. *)
ConstantsAssumption ==
  /\ IsFiniteSet(ChangeIds)
  /\ Dates \cup Mileages \subseteq Nat /\ 0 \in Mileages
  /\ Null \notin Nat \cup Row

VARIABLES
  change,  \* table tire_changes, with eventDate and mileage of the events
  odo,     \* vehicles.currentMileage
  pc,      \* the read that comes next
  read     \* the changes that were read, and the odometer

vars == <<change, odo, pc, read>>

NothingRead == [changes |-> <<>>, odo |-> Null]
Rows == {c \in ChangeIds : change[c] # Null}

TypeOK ==
  /\ change \in [ChangeIds -> Row \cup {Null}]
  /\ odo \in Mileages
  /\ pc \in {"idle", "odometer", "reply"}
  /\ \A i \in DOMAIN read.changes : read.changes[i] \in Row
  /\ read.odo \in Mileages \cup {Null}

Init ==
  /\ change = [c \in ChangeIds |-> Null] /\ odo = 0
  /\ pc = "idle" /\ read = NothingRead

(* A TIRE_CHANGE event is stored, dated and read off as its author likes.  *)
(* Once the changes are read it no longer matters to the answer.           *)
Record(c, row) ==
  /\ pc = "idle" /\ change[c] = Null
  /\ change' = [change EXCEPT ![c] = row]
  /\ UNCHANGED <<odo, pc, read>>

SetOdometer(km) ==
  /\ km # odo /\ odo' = km
  /\ UNCHANGED <<change, pc, read>>

(* findTireChangesByTireId: of equal dates either may come first. *)
ByDate ==
  {[i \in DOMAIN s |-> change[s[i]]] :
     s \in {t \in SetToSeqs(Rows) :
              \A i \in 1..(Len(t) - 1) : change[t[i]].date <= change[t[i + 1]].date}}

OpenHistory ==
  /\ pc = "idle"
  /\ \E changes \in ByDate : read' = [read EXCEPT !.changes = changes]
  /\ pc' = "odometer"
  /\ UNCHANGED <<change, odo>>

ReadOdometer ==
  /\ pc = "odometer"
  /\ read' = [read EXCEPT !.odo = odo]
  /\ pc' = "reply"
  /\ UNCHANGED <<change, odo>>

Reply ==
  /\ pc = "reply"
  /\ pc' = "idle" /\ read' = NothingRead
  /\ UNCHANGED <<change, odo>>

Next ==
  \/ \E c \in ChangeIds, row \in Row : Record(c, row)
  \/ \E km \in Mileages : SetOdometer(km)
  \/ OpenHistory \/ ReadOdometer \/ Reply

Spec == Init /\ [][Next]_vars

-----------------------------------------------------------------------------
(* The loop over the changes.  pending is the INSTALL that waits for its   *)
(* removal; one that follows another takes its place.                      *)

Period(install, until, ongoing) ==
  [from |-> install, km |-> IF install.given = Null THEN Null ELSE until - install.given,
   ongoing |-> ongoing]

Removed(row) == IF row.given # Null THEN row.given ELSE row.mileage

PairKeeping(acc, row) ==  \* mutant: the INSTALL is not forgotten with its removal
  IF row.type = "INSTALL" THEN [acc EXCEPT !.pending = row]
  ELSE IF acc.pending = Null THEN acc
  ELSE [acc EXCEPT !.periods = Append(@, Period(acc.pending, Removed(row), FALSE))]

Pair(acc, row) ==
  IF row.type = "INSTALL" THEN [acc EXCEPT !.pending = row]
  ELSE IF acc.pending = Null THEN acc
  ELSE [pending |-> Null,
        periods |-> Append(acc.periods, Period(acc.pending, Removed(row), FALSE))]

Periods(changes, km) ==
  LET all == FoldLeft(Pair, [pending |-> Null, periods |-> <<>>], changes) IN
  IF all.pending = Null THEN all.periods
  ELSE Append(all.periods, Period(all.pending, km, TRUE))

TotalKmDriven(periods) ==
  FoldLeft(LAMBDA sum, p : sum + (IF p.km = Null THEN 0 ELSE p.km), 0, periods)

-----------------------------------------------------------------------------
(* Every kilometre counts once, and only where the tire was mounted: there *)
(* is one period for each INSTALL that a REMOVE follows, or nothing; and   *)
(* with readings that agree with the events and never fall, what was       *)
(* driven adds up to no more than the vehicle has run since the first      *)
(* change, and to the distances after these INSTALLs if all were read off. *)
Consistent(s, km) ==
  /\ \A i \in DOMAIN s : s[i].given \in {Null, s[i].mileage} /\ s[i].mileage <= km
  /\ \A i \in 1..(Len(s) - 1) : s[i].mileage <= s[i + 1].mileage

DrivenOnce ==
  pc = "reply" =>
    LET s == read.changes
        periods == Periods(s, read.odo)
        total == TotalKmDriven(periods)
        last == Len(s)
        mounts == {i \in 1..last :
                     s[i].type = "INSTALL" /\ (i = last \/ s[i + 1].type = "REMOVE")}
        At(i) == IF i > last THEN read.odo ELSE s[i].mileage
        driven == FoldLeftDomain(LAMBDA sum, i : IF i \in mounts THEN sum + At(i + 1) - At(i)
                                                 ELSE sum, 0, s)
    IN /\ Len(periods) = Cardinality(mounts)
       /\ \A i \in DOMAIN periods : periods[i].ongoing <=> (i = Len(periods) /\ last \in mounts)
       /\ Consistent(s, read.odo) =>
            /\ \A i \in DOMAIN periods : periods[i].km = Null \/ periods[i].km >= 0
            /\ total <= driven
            /\ (\A i \in mounts : s[i].given # Null) => total = driven
            /\ last > 0 => driven <= read.odo - s[1].mileage

=============================================================================
