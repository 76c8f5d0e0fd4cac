---------------------------- MODULE Tires_proofs ----------------------------
(***************************************************************************)
(* For any vehicles, tires and requests in flight: the history of a tire   *)
(* is kept, and, when events name tires of their own vehicle, a vehicle    *)
(* has no more mounted sets than there are requests, which, for a server   *)
(* that serves one at a time, is what MountedSet promises.                 *)
(*                                                                         *)
(* The bound is not inductive by itself.  What is: every mounted set can  *)
(* be blamed on a request of its own, the last that mounted it, and a      *)
(* request in the middle of a mount has met the set it is blamed for, that *)
(* is, will have demoted it when it mounts the next one.                   *)
(***************************************************************************)
EXTENDS Tires, FiniteSetTheorems, TLAPS

InMount == {"mount.find", "mount.write"}

(* The rows that a mount writes, has written and keeps locked, or targets *)
Met(r) == arg[r].held \cup arg[r].rest \cup {arg[r].at, arg[r].tire}

Blames(v, f) ==
  /\ f \in [Mounted(v) -> Requests]
  /\ \A s, t \in Mounted(v) : f[s] = f[t] => s = t
  /\ \A t \in Mounted(v) :
       pc[f[t]] = "mount.write" /\ arg[f[t]].vehicle = v => t \in Met(f[t])

Blamed == \A v \in VehicleIds : \E f : Blames(v, f)

(* The other rows that r holds or means to write are of its vehicle. *)
Here(r) ==
  \A t \in Met(r) \ {arg[r].tire, Null} :
    /\ t \in TireIds /\ tire[t].st # "free"
    /\ tire[t].st = "live" => tire[t].vehicle = arg[r].vehicle

(* What request r relies on where it stands *)
Knows(r) ==
  /\ pc[r] \in {"mount.write", "vehicle.commit"} => Here(r)
  /\ pc[r] \in InMount \cup {"update", "delete", "event"} => arg[r].tire \in TireIds
  /\ pc[r] \in InMount \cup {"create", "event", "vehicle.tires", "vehicle.commit"}
       => arg[r].vehicle \in VehicleIds
  /\ pc[r] = "update" => arg[r].status # "MOUNTED"
  /\ pc[r] = "mount.write" => /\ arg[r].at \in TireIds
                              /\ arg[r].tire \notin arg[r].rest
                              /\ arg[r].at = arg[r].tire => arg[r].rest = {}
                              /\ arg[r].tx \/ arg[r].held = {}
  /\ pc[r] = "vehicle.tires" => arg[r].rest = {} /\ arg[r].at = Null /\ arg[r].tire = Null
  /\ pc[r] = "vehicle.commit" => /\ arg[r].tire = Null
                                 /\ \A t \in arg[r].held : ~tire[t].used
  /\ OwnTires /\ pc[r] \in InMount \cup {"event"}
       => /\ tire[arg[r].tire].st # "free"
          /\ Live(arg[r].tire) => tire[arg[r].tire].vehicle = arg[r].vehicle

AllKnow == \A r \in Requests : Knows(r)

IInv ==
  /\ TypeOK
  /\ AllKnow
  /\ OwnTires => Blamed

-----------------------------------------------------------------------------
LEMMA NoArgsType == NoArgs \in Args /\ "idle" \in Steps
BY DEF NoArgs, Args, Steps, TireStatus

LEMMA InitIInv == Init => IInv
<1> SUFFICES ASSUME Init PROVE IInv
  OBVIOUS
<1>1. TypeOK
  BY NoArgsType DEF Init, TypeOK
<1>2. AllKnow
  BY DEF Init, AllKnow, Knows, InMount
<1>3. Blamed
  <2> SUFFICES ASSUME NEW v \in VehicleIds PROVE \E f : Blames(v, f)
    BY DEF Blamed
  <2>1. Mounted(v) = {}
    BY DEF Init, Mounted, TiresOf, Live, FreeTire
  <2>2. [t \in Mounted(v) |-> CHOOSE r \in Requests : TRUE] \in [Mounted(v) -> Requests]
    BY <2>1
  <2>3. Blames(v, [t \in Mounted(v) |-> CHOOSE r \in Requests : TRUE])
    BY <2>1, <2>2 DEF Blames
  <2> QED
    BY <2>3
<1> QED
  BY <1>1, <1>2, <1>3 DEF IInv

-----------------------------------------------------------------------------
(* What a step of r leaves alone, whatever it does *)

(* The other requests stand where they stood; rows are not resurrected nor *)
(* moved, and a row another transaction deletes gets no history.           *)
Mild(r) ==
  /\ \A q \in Requests \ {r} : pc'[q] = pc[q] /\ arg'[q] = arg[q]
  /\ \A t \in TireIds :
       /\ tire[t].st # "free"
            => /\ tire'[t].st # "free"
               /\ tire'[t].st = "live"
                    => tire[t].st = "live" /\ tire'[t].vehicle = tire[t].vehicle
       /\ tire'[t].used => tire[t].used \/ ~KeyLocked(t, r)

(* Nothing becomes mounted. *)
Quiet ==
  \A t \in TireIds :
    tire'[t].st = "live" /\ tire'[t].status = "MOUNTED"
      => /\ tire[t].st = "live" /\ tire[t].status = "MOUNTED"
         /\ tire'[t].vehicle = tire[t].vehicle

(* A mount that r begins has met all that is mounted, and one that goes on *)
(* forgets nothing of what is still mounted.                               *)
Meets(r) ==
  \A v \in VehicleIds :
    pc'[r] = "mount.write" /\ arg'[r].vehicle = v =>
      \/ Mounted(v)' \subseteq Met(r)'
      \/ /\ pc[r] = "mount.write" /\ arg[r].vehicle = v
         /\ Mounted(v)' \cap Met(r) \subseteq Met(r)'

LEMMA KnowledgeKept ==
  ASSUME IInv, TypeOK', NEW r \in Requests, Mild(r), Knows(r)'
  PROVE  AllKnow'
<1> SUFFICES ASSUME NEW q \in Requests, q # r PROVE Knows(q)'
  BY DEF AllKnow
<1>1. pc'[q] = pc[q] /\ arg'[q] = arg[q] /\ Knows(q) /\ arg[q] \in Args
  BY DEF Mild, IInv, AllKnow, TypeOK
<1>2. ASSUME pc[q] = "vehicle.commit", NEW t \in arg[q].held PROVE ~tire'[t].used
  <2>1. t \in TireIds /\ ~tire[t].used
    BY <1>1, <1>2 DEF Args, Knows
  <2>2. KeyLocked(t, r)
    BY <1>2 DEF KeyLocked
  <2> QED
    BY <2>1, <2>2 DEF Mild
<1>3. ASSUME OwnTires, pc[q] \in InMount \cup {"event"}
      PROVE  /\ tire'[arg[q].tire].st # "free"
             /\ tire'[arg[q].tire].st = "live"
                  => tire'[arg[q].tire].vehicle = arg[q].vehicle
  BY <1>1, <1>3 DEF Knows, Mild, Live
<1>4. ASSUME Here(q) PROVE Here(q)'
  <2>1. Met(q)' = Met(q)
    BY <1>1 DEF Met
  <2> QED
    BY <1>1, <1>4, <2>1 DEF Here, Mild
<1> QED
  BY <1>1, <1>2, <1>3, <1>4 DEF Knows, Live

LEMMA BlameKept ==
  ASSUME IInv, Blamed, NEW r \in Requests, Mild(r), Quiet, Meets(r)
  PROVE  Blamed'
<1> SUFFICES ASSUME NEW v \in VehicleIds PROVE \E f : Blames(v, f)'
  BY DEF Blamed
<1>1. PICK f : Blames(v, f)
  BY DEF Blamed
<1>2. PICK M : M = Mounted(v)'
  OBVIOUS
<1>3. M \subseteq Mounted(v)
  BY <1>2 DEF Quiet, Mounted, TiresOf, Live
<1> DEFINE g == [t \in M |-> f[t]]
<1>4. g \in [M -> Requests] /\ \A s, t \in M : g[s] = g[t] => s = t
  BY <1>1, <1>3 DEF Blames
<1>5. ASSUME NEW t \in M, pc'[g[t]] = "mount.write", arg'[g[t]].vehicle = v
      PROVE  t \in Met(g[t])'
  <2>1. PICK q \in Requests : q = f[t] /\ q = g[t] /\ t \in Mounted(v)
    BY <1>1, <1>3 DEF Blames
  <2>2. CASE q # r
    <3>1. pc[q] = "mount.write" /\ arg[q].vehicle = v /\ arg'[q] = arg[q]
      BY <1>5, <2>1, <2>2 DEF Mild
    <3>2. t \in Met(q)
      BY <1>1, <2>1, <3>1 DEF Blames
    <3> QED
      BY <2>1, <3>1, <3>2 DEF Met
  <2>3. CASE q = r
    <3>1. pc[r] = "mount.write" /\ arg[r].vehicle = v => t \in Met(r)
      BY <1>1, <2>1, <2>3 DEF Blames
    <3>2. t \in Met(r)'
      BY <1>2, <1>5, <2>1, <2>3, <3>1 DEF Meets
    <3> QED
      BY <2>1, <2>3, <3>2 DEF Met
  <2> QED
    BY <2>2, <2>3
<1>6. Blames(v, g)'
  <2> HIDE DEF g
  <2> QED
    BY <1>2, <1>4, <1>5 DEF Blames
<1> QED
  BY <1>6

LEMMA StepKeeps ==
  ASSUME IInv, TypeOK', NEW r \in Requests, Mild(r), Knows(r)', Quiet, Meets(r)
  PROVE  IInv'
<1>1. OwnTires => Blamed'
  BY BlameKept DEF IInv
<1> QED
  BY <1>1, KnowledgeKept DEF IInv

-----------------------------------------------------------------------------
(* Steps that write one row, or none *)

LEMMA GotoFacts ==
  ASSUME TypeOK, NEW r \in Requests, NEW step \in Steps, NEW a \in Args, Goto(r, step, a)
  PROVE  /\ pc' \in [Requests -> Steps] /\ arg' \in [Requests -> Args]
         /\ pc'[r] = step /\ arg'[r] = a
         /\ \A q \in Requests \ {r} : pc'[q] = pc[q] /\ arg'[q] = arg[q]
BY DEF Goto, TypeOK

LEMMA ContinueKeeps ==
  ASSUME IInv, NEW r \in Requests, NEW step \in Steps, NEW a \in Args,
         Continue(r, step, a), Knows(r)', Meets(r)
  PROVE  IInv'
<1>1. Goto(r, step, a) /\ vehicle' = vehicle /\ tire' = tire
  BY DEF Continue, tables
<1>2. TypeOK'
  BY <1>1, GotoFacts DEF IInv, TypeOK
<1>3. Mild(r)
  BY <1>1, GotoFacts DEF Mild, IInv
<1>4. Quiet
  BY <1>1 DEF Quiet
<1> QED
  BY <1>2, <1>3, <1>4, StepKeeps

(* A step to another await than that of a mount's writes *)
LEMMA PlainKeeps ==
  ASSUME IInv, NEW r \in Requests, NEW step \in Steps \ {"mount.write"},
         NEW a \in Args, Continue(r, step, a), Knows(r)'
  PROVE  IInv'
<1>1. Meets(r)
  BY GotoFacts DEF Continue, Meets, IInv
<1> QED
  BY <1>1, ContinueKeeps

LEMMA FinishFacts ==
  ASSUME TypeOK, NEW r \in Requests, Finish(r)
  PROVE  /\ pc' \in [Requests -> Steps] /\ arg' \in [Requests -> Args]
         /\ \A q \in Requests \ {r} : pc'[q] = pc[q] /\ arg'[q] = arg[q]
         /\ Knows(r)' /\ Meets(r)
<1>1. Goto(r, "idle", NoArgs)
  BY DEF Finish
<1>2. pc'[r] = "idle"
  BY <1>1, NoArgsType, GotoFacts
<1> QED
  BY <1>1, <1>2, NoArgsType, GotoFacts DEF Knows, Meets, InMount

LEMMA AnswerKeeps ==
  ASSUME IInv, NEW r \in Requests, Answer(r)
  PROVE  IInv'
<1>1. Continue(r, "idle", NoArgs) /\ Knows(r)'
  BY FinishFacts DEF Answer, Finish, Continue, IInv
<1> QED
  BY <1>1, NoArgsType, PlainKeeps

LEMMA UnchangedKeeps == IInv /\ UNCHANGED vars => IInv'
<1> SUFFICES ASSUME IInv, UNCHANGED vars PROVE IInv'
  OBVIOUS
<1>1. TypeOK'
  BY DEF vars, IInv, TypeOK
<1>2. AllKnow'
  BY DEF vars, IInv, AllKnow, Knows, Live, Here, Met
<1>3. ASSUME Blamed PROVE Blamed'
  <2> SUFFICES ASSUME NEW v \in VehicleIds PROVE \E f : Blames(v, f)'
    BY DEF Blamed
  <2>1. PICK f : Blames(v, f)
    BY <1>3 DEF Blamed
  <2>2. PICK M : M = Mounted(v)' /\ M = Mounted(v)
    BY DEF vars, Mounted, TiresOf, Live
  <2>3. Blames(v, f)'
    BY <2>1, <2>2 DEF vars, Blames, Met
  <2> QED
    BY <2>3
<1> QED
  BY <1>1, <1>2, <1>3 DEF IInv, vars

(* What r may write into row t of the table *)
Writes(t, r, row) ==
  /\ tire' = [tire EXCEPT ![t] = row]
  /\ vehicle' = vehicle
  /\ tire[t].st # "free"
       => /\ row.st # "free"
          /\ row.st = "live" => tire[t].st = "live" /\ row.vehicle = tire[t].vehicle
  /\ row.used => tire[t].used \/ ~KeyLocked(t, r)
  /\ row.st = "live" /\ row.status = "MOUNTED"
       => tire[t].st = "live" /\ tire[t].status = "MOUNTED" /\ row.vehicle = tire[t].vehicle

LEMMA WriteFacts ==
  ASSUME IInv, NEW r \in Requests, NEW t \in TireIds,
         NEW row \in TireRow \cup {FreeTire, GoneTire}, Writes(t, r, row),
         \A q \in Requests \ {r} : pc'[q] = pc[q] /\ arg'[q] = arg[q]
  PROVE  /\ tire' \in [TireIds -> TireRow \cup {FreeTire, GoneTire}]
         /\ vehicle' \in [VehicleIds -> {"live", "gone"}]
         /\ tire'[t] = row
         /\ Mild(r) /\ Quiet
<1>1. /\ tire' \in [TireIds -> TireRow \cup {FreeTire, GoneTire}]
      /\ vehicle' \in [VehicleIds -> {"live", "gone"}]
      /\ tire'[t] = row /\ \A s \in TireIds \ {t} : tire'[s] = tire[s]
  BY DEF Writes, IInv, TypeOK
<1>2. Mild(r)
  BY <1>1 DEF Mild, Writes
<1>3. Quiet
  BY <1>1 DEF Quiet, Writes
<1> QED
  BY <1>1, <1>2, <1>3

LEMMA LastWriteKeeps ==
  ASSUME IInv, NEW r \in Requests, NEW t \in TireIds,
         NEW row \in TireRow \cup {FreeTire, GoneTire}, Writes(t, r, row), Finish(r)
  PROVE  IInv'
<1>1. /\ pc' \in [Requests -> Steps] /\ arg' \in [Requests -> Args]
      /\ Knows(r)' /\ Meets(r) /\ Mild(r) /\ Quiet
      /\ tire' \in [TireIds -> TireRow \cup {FreeTire, GoneTire}]
      /\ vehicle' \in [VehicleIds -> {"live", "gone"}]
  BY FinishFacts, WriteFacts DEF IInv
<1>2. TypeOK'
  BY <1>1 DEF TypeOK
<1> QED
  BY <1>1, <1>2, StepKeeps

(* The rows that the handlers write *)
LEMMA RowTypes ==
  ASSUME TypeOK, NEW t \in TireIds, Live(t)
  PROVE  /\ tire[t] \in TireRow
         /\ \A status \in TireStatus : [tire[t] EXCEPT !.status = status] \in TireRow
         /\ [tire[t] EXCEPT !.used = TRUE] \in TireRow
<1>1. tire[t] \in TireRow
  BY DEF TypeOK, Live, FreeTire, GoneTire
<1> QED
  BY <1>1 DEF TireRow

-----------------------------------------------------------------------------
(* Each step keeps the invariant *)

LEMMA CreateKeeps ==
  ASSUME IInv, NEW r \in Requests, Create(r)
  PROVE  IInv'
<1>1. CASE Answer(r)
  BY <1>1, AnswerKeeps
<1>2. ASSUME NEW t \in TireIds, tire[t].st = "free", Finish(r), UNCHANGED vehicle,
             tire' = [tire EXCEPT ![t] = [FreeTire EXCEPT !.st = "live",
                                                          !.vehicle = arg[r].vehicle]]
      PROVE  IInv'
  <2> DEFINE row == [FreeTire EXCEPT !.st = "live", !.vehicle = arg[r].vehicle]
  <2>1. arg[r].vehicle \in VehicleIds
    BY DEF Create, IInv, AllKnow, Knows
  <2>2. row \in TireRow
    BY <2>1 DEF FreeTire, TireRow, TireStatus
  <2>3. Writes(t, r, row)
    BY <1>2 DEF Writes, FreeTire
  <2> QED
    BY <1>2, <2>2, <2>3, LastWriteKeeps
<1> QED
  BY <1>1, <1>2 DEF Create

LEMMA UpdateKeeps ==
  ASSUME IInv, NEW r \in Requests, Update(r)
  PROVE  IInv'
<1> DEFINE t == arg[r].tire
           row == [tire[t] EXCEPT !.status = arg[r].status]
<1>1. t \in TireIds /\ arg[r].status \in TireStatus /\ arg[r].status # "MOUNTED"
  BY DEF Update, IInv, AllKnow, Knows, TypeOK, Args
<1>2. CASE Answer(r)
  BY <1>2, AnswerKeeps
<1>3. CASE Live(t) /\ tire' = [tire EXCEPT ![t].status = arg[r].status]
             /\ Finish(r) /\ UNCHANGED vehicle
  <2>1. tire[t] \in TireRow /\ row \in TireRow
    BY <1>1, <1>3, RowTypes DEF IInv
  <2>2. Writes(t, r, row)
    BY <1>1, <1>3, <2>1 DEF Writes, TireRow, Live
  <2> QED
    BY <1>1, <1>3, <2>1, <2>2, LastWriteKeeps
<1> QED
  BY <1>2, <1>3 DEF Update

LEMMA DeleteKeeps ==
  ASSUME IInv, NEW r \in Requests, Delete(r)
  PROVE  IInv'
<1> DEFINE t == arg[r].tire
<1>1. t \in TireIds
  BY DEF Delete, IInv, AllKnow, Knows
<1>2. CASE Answer(r)
  BY <1>2, AnswerKeeps
<1>3. CASE tire' = [tire EXCEPT ![t] = GoneTire] /\ Finish(r) /\ UNCHANGED vehicle
  <2>1. Writes(t, r, GoneTire)
    BY <1>3 DEF Writes, GoneTire, FreeTire
  <2> QED
    BY <1>1, <1>3, <2>1, LastWriteKeeps
<1> QED
  BY <1>2, <1>3 DEF Delete

LEMMA InsertEventKeeps ==
  ASSUME IInv, NEW r \in Requests, InsertEvent(r)
  PROVE  IInv'
<1> DEFINE t == arg[r].tire
           step == IF arg[r].status = "MOUNTED" THEN "mount.find" ELSE "update"
           row == [tire[t] EXCEPT !.used = TRUE]
<1>1. /\ pc[r] = "event" /\ t \in TireIds /\ arg[r] \in Args /\ Knows(r)
      /\ ~KeyLocked(t, r) /\ step \in Steps
  BY DEF InsertEvent, IInv, AllKnow, Knows, TypeOK, Steps
<1>2. CASE Answer(r)
  BY <1>2, AnswerKeeps
<1>3. CASE Live(t) /\ tire' = [tire EXCEPT ![t].used = TRUE] /\ Goto(r, step, arg[r])
             /\ UNCHANGED vehicle
  <2>1. tire[t] \in TireRow /\ row \in TireRow
    BY <1>1, <1>3, RowTypes DEF IInv
  <2>2. Writes(t, r, row)
    BY <1>1, <1>3, <2>1 DEF Writes, TireRow
  <2>3. /\ pc' \in [Requests -> Steps] /\ arg' \in [Requests -> Args]
        /\ pc'[r] = step /\ arg'[r] = arg[r]
        /\ \A q \in Requests \ {r} : pc'[q] = pc[q] /\ arg'[q] = arg[q]
    BY <1>1, <1>3, GotoFacts DEF IInv
  <2>4. /\ Mild(r) /\ Quiet /\ tire'[t] = row
        /\ tire' \in [TireIds -> TireRow \cup {FreeTire, GoneTire}]
        /\ vehicle' \in [VehicleIds -> {"live", "gone"}]
    BY <1>1, <2>1, <2>2, <2>3, WriteFacts
  <2>5. TypeOK'
    BY <2>3, <2>4 DEF TypeOK
  <2>6. tire'[t].st = tire[t].st /\ tire'[t].vehicle = tire[t].vehicle
    BY <2>1, <2>4 DEF TireRow
  <2>7. Knows(r)'
    BY <1>1, <2>3, <2>6 DEF Knows, InMount, Live
  <2>8. Meets(r)
    BY <2>3 DEF Meets
  <2> QED
    BY <2>4, <2>5, <2>7, <2>8, StepKeeps
<1> QED
  BY <1>1, <1>2, <1>3 DEF InsertEvent

LEMMA VehicleTiresKeeps ==
  ASSUME IInv, NEW r \in Requests, VehicleTires(r)
  PROVE  IInv'
<1> DEFINE mine == TiresOf(arg[r].vehicle)
           a == [arg[r] EXCEPT !.held = mine]
<1>1. /\ pc[r] = "vehicle.tires" /\ arg[r] \in Args /\ Knows(r)
  BY DEF VehicleTires, IInv, AllKnow, TypeOK
<1>2. CASE Answer(r)
  BY <1>2, AnswerKeeps
<1>3. CASE Continue(r, "vehicle.commit", a) /\ \A t \in mine : ~tire[t].used
  <2>1. mine \subseteq TireIds
    BY DEF TiresOf
  <2>2. /\ a \in Args /\ a.vehicle = arg[r].vehicle /\ a.held = mine
        /\ a.rest = arg[r].rest /\ a.at = arg[r].at /\ a.tire = arg[r].tire
    BY <1>1, <2>1 DEF Args
  <2>3. pc'[r] = "vehicle.commit" /\ arg'[r] = a /\ tire' = tire
    BY <1>3, <2>2, GotoFacts DEF Continue, tables, Steps, IInv
  <2>4. Here(r)'
    <3> SUFFICES ASSUME NEW t \in Met(r)', t # Null
                 PROVE  /\ t \in TireIds /\ tire'[t].st # "free"
                        /\ tire'[t].st = "live" => tire'[t].vehicle = arg'[r].vehicle
      BY DEF Here
    <3> HIDE DEF a
    <3>1. t \in mine
      BY <1>1, <2>2, <2>3 DEF Met, Knows
    <3> QED
      BY <2>2, <2>3, <3>1 DEF TiresOf, Live
  <2>5. Knows(r)'
    <3> HIDE DEF a
    <3> QED
      BY <1>1, <1>3, <2>2, <2>3, <2>4 DEF Knows, InMount
  <2> QED
    BY <1>3, <2>2, <2>5, PlainKeeps DEF Steps
<1> QED
  BY <1>2, <1>3 DEF VehicleTires

LEMMA VehicleCommitKeeps ==
  ASSUME IInv, NEW r \in Requests, VehicleCommit(r)
  PROVE  IInv'
<1>1. /\ arg[r].vehicle \in VehicleIds /\ Finish(r)
      /\ tire' = [t \in TireIds |-> IF t \in arg[r].held THEN GoneTire ELSE tire[t]]
      /\ vehicle' = [vehicle EXCEPT ![arg[r].vehicle] = "gone"]
  BY DEF VehicleCommit, IInv, AllKnow, Knows
<1>2. /\ pc' \in [Requests -> Steps] /\ arg' \in [Requests -> Args]
      /\ \A q \in Requests \ {r} : pc'[q] = pc[q] /\ arg'[q] = arg[q]
      /\ Knows(r)' /\ Meets(r)
  BY <1>1, FinishFacts DEF IInv
<1>3. TypeOK'
  BY <1>1, <1>2 DEF IInv, TypeOK
<1>4. Mild(r) /\ Quiet
  BY <1>1, <1>2 DEF Mild, Quiet, GoneTire, FreeTire
<1> QED
  BY <1>2, <1>3, <1>4, StepKeeps

-----------------------------------------------------------------------------
(* The mount *)

(* Where a mount goes on: some set of the rest is next, or the target. *)
LEMMA WriteNextFacts ==
  ASSUME TypeOK, NEW r \in Requests, NEW left \in SUBSET TireIds,
         NEW held \in SUBSET TireIds, arg[r].tire \in TireIds \ left,
         WriteNext(r, left, held)
  PROVE  \E a \in Args :
           /\ Goto(r, "mount.write", a)
           /\ a.tire = arg[r].tire /\ a.vehicle = arg[r].vehicle
           /\ a.at \in TireIds /\ a.tire \notin a.rest
           /\ a.at = a.tire => a.rest = {}
           /\ left \cup held \cup {a.tire} = a.held \cup a.rest \cup {a.at, a.tire}
           /\ a.held = held /\ a.tx = arg[r].tx
<1>1. PICK next \in IF left = {} THEN {arg[r].tire} ELSE left :
        Goto(r, "mount.write", [arg[r] EXCEPT !.at = next, !.rest = left \ {next},
                                              !.held = held])
  BY DEF WriteNext
<1> DEFINE a == [arg[r] EXCEPT !.at = next, !.rest = left \ {next}, !.held = held]
<1>2. next \in TireIds /\ arg[r] \in Args
  BY DEF TypeOK
<1>3. /\ a \in Args /\ a.tire = arg[r].tire /\ a.vehicle = arg[r].vehicle
      /\ a.at = next /\ a.rest = left \ {next} /\ a.held = held
      /\ a.tx = arg[r].tx
  BY <1>2 DEF Args
<1> HIDE DEF a
<1>4. left \cup held \cup {a.tire} = a.held \cup a.rest \cup {a.at, a.tire}
  BY <1>3
<1> QED
  BY <1>1, <1>2, <1>3, <1>4 DEF a

LEMMA MountFindKeeps ==
  ASSUME IInv, NEW r \in Requests, MountFind(r)
  PROVE  IInv'
<1> DEFINE v == arg[r].vehicle
           left == Mounted(v) \ {arg[r].tire}
<1>1. /\ pc[r] = "mount.find" /\ arg[r] \in Args /\ Knows(r) /\ UNCHANGED tables
      /\ WriteNext(r, left, {}) /\ arg[r].tire \in TireIds /\ v \in VehicleIds
  BY DEF MountFind, IInv, AllKnow, Knows, TypeOK, InMount
<1>2. left \in SUBSET TireIds /\ {} \in SUBSET TireIds /\ arg[r].tire \in TireIds \ left
  BY <1>1 DEF Mounted, TiresOf
<1> HIDE DEF left
<1>3. PICK a \in Args :
        /\ Goto(r, "mount.write", a)
        /\ a.tire = arg[r].tire /\ a.vehicle = v
        /\ a.at \in TireIds /\ a.tire \notin a.rest
        /\ a.at = a.tire => a.rest = {}
        /\ left \cup {} \cup {a.tire} = a.held \cup a.rest \cup {a.at, a.tire}
        /\ a.held = {} /\ a.tx = arg[r].tx
  BY <1>1, <1>2, WriteNextFacts DEF IInv
<1>4. pc'[r] = "mount.write" /\ arg'[r] = a /\ tire' = tire
  BY <1>1, <1>3, GotoFacts DEF IInv, Steps, tables
<1>5. Knows(r)'
  <2>1. \A t \in left : t \in TireIds /\ tire[t].st = "live" /\ tire[t].vehicle = v
    BY DEF left, Mounted, TiresOf, Live
  <2>2. Here(r)'
    BY <1>3, <1>4, <2>1 DEF Here, Met
  <2> QED
    BY <1>1, <1>3, <1>4, <2>2 DEF Knows, InMount, Live
<1>6. Meets(r)
  <2> SUFFICES ASSUME NEW w \in VehicleIds, arg'[r].vehicle = w
               PROVE  Mounted(w)' \subseteq Met(r)'
    BY DEF Meets
  <2>1. Mounted(w)' = Mounted(v)
    BY <1>3, <1>4 DEF Mounted, TiresOf, Live
  <2> QED
    BY <1>3, <1>4, <2>1 DEF Met, left
<1> QED
  BY <1>1, <1>3, <1>5, <1>6, ContinueKeeps DEF Continue, Steps

LEMMA MountDemoteKeeps ==
  ASSUME IInv, NEW r \in Requests, MountDemote(r)
  PROVE  IInv'
<1> DEFINE t == arg[r].at
           left == arg[r].rest
<1>1. /\ pc[r] = "mount.write" /\ arg[r] \in Args /\ Knows(r)
      /\ t # arg[r].tire /\ t \in TireIds /\ arg[r].tire \in TireIds \ left
      /\ left \in SUBSET TireIds /\ arg[r].held \in SUBSET TireIds
      /\ arg[r].vehicle \in VehicleIds
  BY DEF MountDemote, IInv, AllKnow, Knows, TypeOK, InMount, Args
<1>2. CASE Answer(r)
  BY <1>2, AnswerKeeps
<1>3. ASSUME Live(t), NEW held \in SUBSET TireIds, WriteNext(r, left, held),
             arg[r].tx \/ held = {}, held \subseteq Met(r),
             NEW row \in TireRow, Writes(t, r, row), row.vehicle = tire[t].vehicle,
             row.st = "live",
             \A s \in Met(r) \ (left \cup held \cup {arg[r].tire}) :
               (s = t /\ row.status # "MOUNTED") \/ s \notin Mounted(arg[r].vehicle)
      PROVE  IInv'
  <2> HIDE DEF left, t
  <2>0. TypeOK /\ left \in SUBSET TireIds /\ arg[r].tire \in TireIds \ left
        /\ WriteNext(r, left, held) /\ held \in SUBSET TireIds
    BY <1>1, <1>3 DEF IInv
  <2>1. PICK a \in Args :
          /\ Goto(r, "mount.write", a)
          /\ a.tire = arg[r].tire /\ a.vehicle = arg[r].vehicle
          /\ a.at \in TireIds /\ a.tire \notin a.rest
          /\ a.at = a.tire => a.rest = {}
          /\ left \cup held \cup {a.tire} = a.held \cup a.rest \cup {a.at, a.tire}
          /\ a.held = held /\ a.tx = arg[r].tx
    BY <2>0, WriteNextFacts
  <2>2. /\ pc' \in [Requests -> Steps] /\ arg' \in [Requests -> Args]
        /\ pc'[r] = "mount.write" /\ arg'[r] = a
        /\ \A q \in Requests \ {r} : pc'[q] = pc[q] /\ arg'[q] = arg[q]
    BY <2>1, GotoFacts DEF IInv, Steps
  <2>3. /\ Mild(r) /\ Quiet /\ tire'[t] = row
        /\ tire' \in [TireIds -> TireRow \cup {FreeTire, GoneTire}]
        /\ vehicle' \in [VehicleIds -> {"live", "gone"}]
    BY <1>1, <1>3, <2>2, WriteFacts
  <2>4. TypeOK'
    BY <2>2, <2>3 DEF TypeOK
  <2>5. OwnTires => /\ tire'[a.tire].st # "free"
                    /\ tire'[a.tire].st = "live" => tire'[a.tire].vehicle = a.vehicle
    BY <1>1, <2>1, <2>3 DEF Knows, InMount, Mild, Live
  <2>6. Knows(r)'
    <3>1. left \cup held \cup {a.tire} \subseteq Met(r)
      BY <1>1, <1>3, <2>1 DEF Met, left
    <3>2. Met(r)' \subseteq Met(r)
      BY <2>1, <2>2, <3>1 DEF Met
    <3>3. Here(r)
      BY <1>1 DEF Knows
    <3>4. Here(r)'
      BY <2>1, <2>2, <2>3, <3>2, <3>3 DEF Here, Mild
    <3> QED
      BY <1>1, <1>3, <2>1, <2>2, <2>5, <3>4 DEF Knows, InMount, Live
  <2>7. Meets(r)
    <3> SUFFICES ASSUME NEW v \in VehicleIds, arg'[r].vehicle = v,
                        NEW s \in Mounted(v)', s \in Met(r)
                 PROVE  s \in Met(r)'
      BY <1>1, <2>1, <2>2 DEF Meets
    <3>1. s \in TireIds /\ s \in Mounted(v) /\ (s = t => row.status = "MOUNTED")
      BY <2>3 DEF Mounted, TiresOf, Live, Quiet
    <3>2. s \in left \cup held \cup {a.tire}
      BY <1>3, <2>1, <2>2, <3>1
    <3> QED
      BY <2>1, <2>2, <3>2 DEF Met
  <2> QED
    BY <2>3, <2>4, <2>6, <2>7, StepKeeps
<1>4. CASE Live(t) /\ arg[r].tx /\ WriteNext(r, left, arg[r].held \cup {t}) /\ UNCHANGED tables
  <2>1. tire[t] \in TireRow /\ tire[t].st = "live"
    BY <1>1, <1>4, RowTypes DEF IInv, TireRow
  <2>2. Writes(t, r, tire[t])
    BY <1>4, <2>1 DEF Writes, tables, IInv, TypeOK
  <2>3. /\ Met(r) \ (left \cup (arg[r].held \cup {t}) \cup {arg[r].tire}) = {}
        /\ arg[r].held \cup {t} \subseteq Met(r)
    BY DEF Met
  <2> QED
    BY <1>1, <1>3, <1>4, <2>1, <2>2, <2>3
<1>5. CASE /\ Live(t) /\ ~arg[r].tx /\ WriteNext(r, left, {}) /\ UNCHANGED vehicle
           /\ tire' = [tire EXCEPT ![t].status = "STORED"]
  <2> DEFINE row == [tire[t] EXCEPT !.status = "STORED"]
  <2>1. /\ tire[t] \in TireRow /\ row \in TireRow /\ row.status = "STORED"
        /\ row.vehicle = tire[t].vehicle /\ row.used = tire[t].used /\ row.st = "live"
    BY <1>1, <1>5, RowTypes DEF IInv, TireRow, TireStatus
  <2>2. Writes(t, r, row)
    <3> HIDE DEF row
    <3>1. tire' = [tire EXCEPT ![t] = row]
      BY <1>5 DEF row
    <3> QED
      BY <1>5, <2>1, <3>1 DEF Writes, Live
  <2>3. \A s \in Met(r) \ (left \cup {} \cup {arg[r].tire}) : s = t
    BY <1>1, <1>5 DEF Met, Knows
  <2>4. {} \in SUBSET TireIds
    OBVIOUS
  <2> HIDE DEF row
  <2> QED
    BY <1>3, <1>5, <2>1, <2>2, <2>3, <2>4
<1> QED
  BY <1>2, <1>4, <1>5 DEF MountDemote

(* A mount that ends is blamed for its own set, and for no other: what it  *)
(* was blamed for it had met, so it has demoted it.                        *)
LEMMA MountTargetKeeps ==
  ASSUME IInv, NEW r \in Requests, MountTarget(r)
  PROVE  IInv'
<1> DEFINE T == arg[r].tire
           row(s) == IF s = T THEN [tire[s] EXCEPT !.status = "MOUNTED"]
                     ELSE IF s \in arg[r].held THEN [tire[s] EXCEPT !.status = "STORED"]
                     ELSE tire[s]
<1>1. /\ pc[r] = "mount.write" /\ Knows(r) /\ T \in TireIds /\ arg[r].at = T
      /\ arg[r].rest = {} /\ arg[r].vehicle \in VehicleIds
  BY DEF MountTarget, IInv, AllKnow, Knows, InMount
<1>2. CASE Answer(r)
  BY <1>2, AnswerKeeps
<1>3. CASE /\ Live(T) /\ tire' = [s \in TireIds |-> row(s)]
           /\ Finish(r) /\ vehicle' = vehicle
  <2>1. /\ pc' \in [Requests -> Steps] /\ arg' \in [Requests -> Args]
        /\ \A q \in Requests \ {r} : pc'[q] = pc[q] /\ arg'[q] = arg[q]
        /\ Knows(r)' /\ pc'[r] = "idle"
    BY <1>3, FinishFacts, NoArgsType, GotoFacts DEF IInv, Finish
  <2>2. \A s \in TireIds :
          /\ row(s) \in TireRow \cup {FreeTire, GoneTire}
          /\ row(s).st = tire[s].st /\ row(s).vehicle = tire[s].vehicle
          /\ row(s).used = tire[s].used
          /\ s # T /\ row(s).status = "MOUNTED"
               => tire[s].status = "MOUNTED" /\ s \notin arg[r].held
    <3> SUFFICES ASSUME NEW s \in TireIds
                 PROVE  /\ row(s) \in TireRow \cup {FreeTire, GoneTire}
                        /\ row(s).st = tire[s].st /\ row(s).vehicle = tire[s].vehicle
                        /\ row(s).used = tire[s].used
                        /\ s # T /\ row(s).status = "MOUNTED"
                             => tire[s].status = "MOUNTED" /\ s \notin arg[r].held
      OBVIOUS
    <3>1. tire[s] \in TireRow \cup {FreeTire, GoneTire}
      BY DEF IInv, TypeOK
    <3>2. CASE tire[s] \in TireRow
      BY <3>2 DEF TireRow, TireStatus
    <3>3. CASE tire[s] \in {FreeTire, GoneTire}
      <4>1. s # T
        BY <1>3, <3>3 DEF FreeTire, GoneTire, Live
      <4>2. [tire[s] EXCEPT !.status = "STORED"] = tire[s]
        BY <3>3 DEF FreeTire, GoneTire
      <4>3. row(s) = tire[s] /\ tire[s].status = "STORED"
        BY <3>3, <4>1, <4>2 DEF FreeTire, GoneTire
      <4> HIDE DEF row
      <4> QED
        BY <3>1, <4>3
    <3> QED
      BY <3>1, <3>2, <3>3
  <2> HIDE DEF row
  <2>3. \A s \in TireIds : tire'[s] = row(s)
    BY <1>3
  <2>4. TypeOK'
    BY <1>3, <2>1, <2>2 DEF IInv, TypeOK
  <2>5. Mild(r)
    BY <2>1, <2>2, <2>3 DEF Mild
  <2>6. AllKnow'
    BY <2>1, <2>4, <2>5, KnowledgeKept
  <2>7. ASSUME OwnTires, Blamed, NEW v \in VehicleIds PROVE \E f : Blames(v, f)'
    <3>1. PICK f : Blames(v, f)
      BY <2>7 DEF Blamed
    <3>2. PICK M : M = Mounted(v)'
      OBVIOUS
    <3>3. M \subseteq (Mounted(v) \ arg[r].held) \cup {T}
      BY <2>2, <2>3, <3>2 DEF Mounted, TiresOf, Live
    <3>4. T \in M => arg[r].vehicle = v
      BY <1>1, <1>3, <2>2, <2>3, <2>7, <3>2 DEF Mounted, TiresOf, Live, Knows, InMount
    <3>5. \A t \in M \ {T} : T \in M => f[t] # r
      BY <1>1, <3>1, <3>3, <3>4 DEF Blames, Met
    <3>6. PICK g : g = [t \in M |-> IF t = T THEN r ELSE f[t]]
      OBVIOUS
    <3>7. \A t \in M \ {T} : t \in Mounted(v) /\ f[t] \in Requests /\ g[t] = f[t]
      BY <3>1, <3>3, <3>6 DEF Blames
    <3>8. g \in [M -> Requests] /\ (T \in M => g[T] = r)
      BY <3>6, <3>7
    <3>9. \A s, t \in M : g[s] = g[t] => s = t
      BY <3>1, <3>5, <3>7, <3>8 DEF Blames
    <3>10. ASSUME NEW t \in M, pc'[g[t]] = "mount.write", arg'[g[t]].vehicle = v
           PROVE  t \in Met(g[t])'
      <4>1. g[t] # r /\ t # T
        BY <2>1, <3>8, <3>10
      <4>2. PICK q \in Requests \ {r} : q = f[t] /\ q = g[t] /\ t \in Mounted(v)
        BY <3>7, <4>1
      <4>3. pc[q] = "mount.write" /\ arg[q].vehicle = v /\ arg'[q] = arg[q]
        BY <2>1, <3>10, <4>2
      <4>4. t \in Met(q)
        BY <3>1, <4>2, <4>3 DEF Blames
      <4> QED
        BY <4>2, <4>3, <4>4 DEF Met
    <3>11. Blames(v, g)'
      BY <3>2, <3>8, <3>9, <3>10 DEF Blames
    <3> QED
      BY <3>11
  <2>8. OwnTires => Blamed'
    BY <2>7 DEF IInv, Blamed
  <2> QED
    BY <2>4, <2>6, <2>8 DEF IInv
<1> QED
  BY <1>2, <1>3 DEF MountTarget

-----------------------------------------------------------------------------
(* A request that arrives *)

LEMMA OpenedKeeps ==
  ASSUME IInv, NEW r \in Requests, NEW allowed, NEW step \in Steps \ {"mount.write"},
         NEW a \in Args, Opened(r, allowed, step, a),
         allowed /\ pc'[r] = step /\ arg'[r] = a /\ tire' = tire => Knows(r)'
  PROVE  IInv'
<1>1. CASE UNCHANGED vars
  BY <1>1, UnchangedKeeps
<1>2. CASE allowed /\ Continue(r, step, a)
  <2>1. pc'[r] = step /\ arg'[r] = a /\ tire' = tire
    BY <1>2, GotoFacts DEF Continue, tables, IInv
  <2> QED
    BY <1>2, <2>1, PlainKeeps
<1> QED
  BY <1>1, <1>2 DEF Opened

LEMMA OpenKeeps ==
  ASSUME IInv, NEW r \in Requests, Open(r)
  PROVE  IInv'
<1>1. ASSUME NEW v \in VehicleIds, NEW u \in Users, OpenCreate(r, v, u) PROVE IInv'
  <2> DEFINE a == [NoArgs EXCEPT !.vehicle = v, !.user = u]
  <2>1. a \in Args /\ a.vehicle = v
    BY DEF NoArgs, Args, TireStatus
  <2>2. Opened(r, vehicle[v] = "live", "create", a)
    BY <1>1 DEF OpenCreate
  <2> HIDE DEF a
  <2>3. pc'[r] = "create" /\ arg'[r] = a => Knows(r)'
    BY <2>1 DEF Knows, InMount
  <2> QED
    BY <2>1, <2>2, <2>3, OpenedKeeps DEF Steps
<1>2. ASSUME NEW v \in VehicleIds, OpenDeleteVehicle(r, v) PROVE IInv'
  <2> DEFINE a == [NoArgs EXCEPT !.vehicle = v]
  <2>1. a \in Args /\ a.vehicle = v /\ a.rest = {} /\ a.at = Null /\ a.tire = Null
    BY DEF NoArgs, Args, TireStatus
  <2>2. Opened(r, vehicle[v] = "live", "vehicle.tires", a)
    BY <1>2 DEF OpenDeleteVehicle
  <2> HIDE DEF a
  <2>3. pc'[r] = "vehicle.tires" /\ arg'[r] = a => Knows(r)'
    BY <2>1 DEF Knows, InMount
  <2> QED
    BY <2>1, <2>2, <2>3, OpenedKeeps DEF Steps
<1>3. ASSUME NEW t \in TireIds, NEW status \in TireStatus, OpenUpdate(r, t, status)
      PROVE  IInv'
  <2> DEFINE a == [NoArgs EXCEPT !.tire = t, !.vehicle = tire[t].vehicle,
                                 !.status = status, !.tx = (status = "MOUNTED")]
             allowed == Live(t) /\ ~(tire[t].status = status /\ status # "STORED")
             step == IF status = "MOUNTED" THEN "mount.find" ELSE "update"
  <2>1. tire[t].vehicle \in VehicleIds \cup {Null} /\ (Live(t) => tire[t].vehicle \in VehicleIds)
    BY DEF IInv, TypeOK, TireRow, FreeTire, GoneTire, Live
  <2>2. /\ a \in Args /\ a.tire = t /\ a.vehicle = tire[t].vehicle /\ a.status = status
    BY <2>1 DEF NoArgs, Args
  <2>3. Opened(r, allowed, step, a)
    BY <1>3 DEF OpenUpdate
  <2> HIDE DEF a
  <2>4. allowed /\ pc'[r] = step /\ arg'[r] = a /\ tire' = tire => Knows(r)'
    BY <2>1, <2>2 DEF Knows, InMount, Live
  <2>5. step \in Steps \ {"mount.write"}
    BY DEF Steps
  <2> HIDE DEF allowed, step
  <2> QED
    BY <2>2, <2>3, <2>4, <2>5, OpenedKeeps
<1>4. ASSUME NEW t \in TireIds, NEW u \in Users, OpenDelete(r, t, u) PROVE IInv'
  <2> DEFINE a == [NoArgs EXCEPT !.tire = t]
             allowed == /\ Live(t) /\ tire[t].status # "MOUNTED"
                        /\ assertCanDeleteOwnedResource(u, tire[t])
  <2>1. a \in Args /\ a.tire = t
    BY DEF NoArgs, Args, TireStatus
  <2>2. Opened(r, allowed, "delete", a)
    BY <1>4 DEF OpenDelete
  <2> HIDE DEF a, allowed
  <2>3. pc'[r] = "delete" /\ arg'[r] = a => Knows(r)'
    BY <2>1 DEF Knows, InMount
  <2> QED
    BY <2>1, <2>2, <2>3, OpenedKeeps DEF Steps
<1>5. ASSUME NEW v \in VehicleIds, NEW t \in TireIds, NEW status \in {"MOUNTED", "STORED"},
             OpenChange(r, v, t, status)
      PROVE  IInv'
  <2> DEFINE a == [NoArgs EXCEPT !.tire = t, !.vehicle = v, !.status = status]
             allowed == vehicle[v] = "live" /\ (OwnTires => tire[t].vehicle = v)
  <2>1. a \in Args /\ a.tire = t /\ a.vehicle = v /\ a.status = status
    BY DEF NoArgs, Args, TireStatus
  <2>2. Opened(r, allowed, "event", a)
    BY <1>5 DEF OpenChange
  <2>3. tire[t].vehicle = v => tire[t].st # "free"
    BY ConstantsAssumption DEF IInv, TypeOK, TireRow, FreeTire, GoneTire
  <2> HIDE DEF a
  <2>4. allowed /\ pc'[r] = "event" /\ arg'[r] = a /\ tire' = tire => Knows(r)'
    BY <2>1, <2>3 DEF Knows, InMount, Live
  <2> HIDE DEF allowed
  <2> QED
    BY <2>1, <2>2, <2>4, OpenedKeeps DEF Steps
<1> QED
  BY <1>1, <1>2, <1>3, <1>4, <1>5 DEF Open

LEMMA NextKeeps == IInv /\ [Next]_vars => IInv'
<1> SUFFICES ASSUME IInv, [Next]_vars PROVE IInv'
  OBVIOUS
<1>1. CASE UNCHANGED vars
  BY <1>1, UnchangedKeeps
<1>2. ASSUME NEW r \in Requests, Open(r) \/ Step(r) \/ DeadlockVictim(r) \/ Fail(r)
      PROVE  IInv'
  <2>1. CASE Open(r)
    BY <2>1, OpenKeeps
  <2>2. CASE Step(r)
    BY <2>2, CreateKeeps, UpdateKeeps, DeleteKeeps, MountFindKeeps, MountDemoteKeeps,
       MountTargetKeeps, InsertEventKeeps, VehicleTiresKeeps, VehicleCommitKeeps DEF Step
  <2>3. CASE DeadlockVictim(r) \/ Fail(r)
    BY <2>3, AnswerKeeps DEF DeadlockVictim, Fail
  <2> QED
    BY <1>2, <2>1, <2>2, <2>3
<1> QED
  BY <1>1, <1>2 DEF Next

LEMMA Inductive == Spec => []IInv
BY InitIInv, NextKeeps, PTL DEF Spec

-----------------------------------------------------------------------------
(* Every reachable state of the two tables and the requests is well typed. *)
THEOREM TypeCorrect == Spec => []TypeOK
<1>1. IInv => TypeOK
  BY DEF IInv
<1> QED
  BY <1>1, Inductive, PTL

(* When events name tires of their own vehicle, no interleaving leaves a   *)
(* vehicle with more mounted sets than requests can be in flight: mount    *)
(* demotes all it found, so no request is to blame for two.                *)
THEOREM MountedSetsBounded ==
  ASSUME OwnTires
  PROVE  Spec => []OneSetPerRequest
<1>1. IInv => OneSetPerRequest
  <2> SUFFICES ASSUME IInv, NEW v \in VehicleIds
               PROVE  Cardinality(Mounted(v)) <= Cardinality(Requests)
    BY DEF OneSetPerRequest
  <2>1. PICK f : Blames(v, f)
    BY DEF IInv, Blamed
  <2>2. IsFiniteSet(Mounted(v)) /\ IsFiniteSet(Requests)
    BY ConstantsAssumption, FS_Subset DEF Mounted, TiresOf
  <2>3. Cardinality(Mounted(v)) \in Nat /\ Cardinality(Requests) \in Nat
    BY <2>2, FS_CardinalityType
  <2>4. ~(Cardinality(Requests) < Cardinality(Mounted(v)))
    BY <2>1, <2>2, FS_PigeonHole DEF Blames
  <2> QED
    BY <2>3, <2>4
<1> QED
  BY <1>1, Inductive, PTL

-----------------------------------------------------------------------------
(* What a step does to the tires *)

Same(t) ==
  /\ tire'[t].st = tire[t].st
  /\ tire'[t].status = tire[t].status
  /\ tire'[t].vehicle = tire[t].vehicle

KeepsUsed == \A t \in TireIds : tire[t].used => tire'[t].used

(* Only tires of v change, and none is mounted by it. *)
Touches(v) ==
  \A t \in TireIds :
    \/ Same(t)
    \/ /\ Live(t) => tire[t].vehicle = v
       /\ ~(tire'[t].st = "live" /\ tire'[t].status = "MOUNTED")

LEMMA WriteEffect ==
  ASSUME IInv, NEW t \in TireIds, NEW row, tire' = [tire EXCEPT ![t] = row],
         NEW v \in VehicleIds, Live(t) => tire[t].vehicle = v,
         ~(row.st = "live" /\ row.status = "MOUNTED"), tire[t].used => row.used
  PROVE  KeepsUsed /\ Touches(v)
BY DEF IInv, TypeOK, Live, KeepsUsed, Touches, Same

(* A step touches the tires of one vehicle, and mounts at most the target  *)
(* of a mount that ends.                                                   *)
LEMMA StepEffect ==
  ASSUME IInv, NEW r \in Requests, Open(r) \/ Step(r) \/ DeadlockVictim(r) \/ Fail(r)
  PROVE  /\ KeepsUsed
         /\ \/ \E v \in VehicleIds : Touches(v)
            \/ \A t \in TireIds : Same(t)
            \/ MountTarget(r) /\ Live(arg[r].tire)
<1>1. CASE tire' = tire
  BY <1>1 DEF KeepsUsed, Same
<1>2. CASE Open(r) \/ MountFind(r) \/ VehicleTires(r) \/ DeadlockVictim(r) \/ Fail(r)
  <2>1. tire' = tire
    BY <1>2 DEF Open, OpenCreate, OpenUpdate, OpenDelete, OpenChange, OpenDeleteVehicle,
       Opened, Continue, Answer, tables, vars, MountFind, VehicleTires, DeadlockVictim, Fail
  <2> QED
    BY <2>1, <1>1
<1>4. \A t \in TireIds : Live(t) => tire[t].vehicle \in VehicleIds /\ tire[t] \in TireRow
  BY DEF IInv, TypeOK, Live, FreeTire, GoneTire, TireRow
<1>5. CASE Create(r) /\ ~Answer(r)
  <2>1. PICK t \in TireIds :
          /\ tire[t].st = "free"
          /\ tire' = [tire EXCEPT ![t] = [FreeTire EXCEPT !.st = "live",
                                                          !.vehicle = arg[r].vehicle]]
    BY <1>5 DEF Create
  <2> DEFINE row == [FreeTire EXCEPT !.st = "live", !.vehicle = arg[r].vehicle]
  <2>2. tire[t].used = FALSE /\ row.status = "STORED" /\ arg[r].vehicle \in VehicleIds
    BY <1>5, <2>1 DEF Create, IInv, TypeOK, TireRow, FreeTire, GoneTire, AllKnow, Knows
  <2> HIDE DEF row
  <2>3. tire' = [tire EXCEPT ![t] = row]
    BY <2>1 DEF row
  <2>4. KeepsUsed /\ Touches(arg[r].vehicle)
    BY <2>1, <2>2, <2>3, WriteEffect DEF Live
  <2> QED
    BY <2>2, <2>4
<1>6. CASE Update(r) /\ Live(arg[r].tire)
  <2> DEFINE t == arg[r].tire
             row == [tire[t] EXCEPT !.status = arg[r].status]
  <2>1. t \in TireIds /\ arg[r].status # "MOUNTED"
    BY <1>6 DEF Update, IInv, AllKnow, Knows
  <2>2. row.status # "MOUNTED" /\ row.used = tire[t].used
    BY <1>4, <1>6, <2>1 DEF TireRow
  <2> HIDE DEF row
  <2>3. tire' = [tire EXCEPT ![t] = row]
    BY <1>6 DEF Update, row
  <2>4. KeepsUsed /\ Touches(tire[t].vehicle)
    BY <1>4, <1>6, <2>1, <2>2, <2>3, WriteEffect
  <2> QED
    BY <1>4, <1>6, <2>1, <2>4
<1>7. CASE Delete(r) /\ Live(arg[r].tire) /\ ~tire[arg[r].tire].used
  <2>1. arg[r].tire \in TireIds /\ tire' = [tire EXCEPT ![arg[r].tire] = GoneTire]
    BY <1>7 DEF Delete, IInv, AllKnow, Knows
  <2>2. GoneTire.st # "live"
    BY DEF GoneTire, FreeTire
  <2>3. KeepsUsed /\ Touches(tire[arg[r].tire].vehicle)
    BY <1>4, <1>7, <2>1, <2>2, WriteEffect
  <2> QED
    BY <1>4, <1>7, <2>1, <2>3
<1>8. CASE MountDemote(r) /\ tire' = [tire EXCEPT ![arg[r].at].status = "STORED"]
             /\ Live(arg[r].at)
  <2> DEFINE t == arg[r].at
             row == [tire[t] EXCEPT !.status = "STORED"]
  <2>1. t \in TireIds
    BY <1>8 DEF MountDemote, IInv, AllKnow, Knows
  <2>2. row.status # "MOUNTED" /\ row.used = tire[t].used
    BY <1>4, <1>8, <2>1 DEF TireRow
  <2> HIDE DEF row
  <2>3. tire' = [tire EXCEPT ![t] = row]
    BY <1>8 DEF row
  <2>4. KeepsUsed /\ Touches(tire[t].vehicle)
    BY <1>4, <1>8, <2>1, <2>2, <2>3, WriteEffect
  <2> QED
    BY <1>4, <1>8, <2>1, <2>4
<1>9. CASE VehicleCommit(r)
  <2>1. /\ arg[r].vehicle \in VehicleIds /\ Knows(r) /\ pc[r] = "vehicle.commit"
        /\ tire' = [t \in TireIds |-> IF t \in arg[r].held THEN GoneTire ELSE tire[t]]
    BY <1>9 DEF VehicleCommit, IInv, AllKnow, Knows
  <2>2. /\ arg[r].tire = Null /\ arg[r].held \subseteq TireIds
        /\ \A t \in arg[r].held : t # Null /\ ~tire[t].used
    BY <2>1, ConstantsAssumption DEF Knows, IInv, TypeOK, Args
  <2>3. \A t \in arg[r].held : Live(t) => tire[t].vehicle = arg[r].vehicle
    BY <2>1, <2>2 DEF Knows, Here, Met, Live
  <2>4. GoneTire.st = "gone"
    BY DEF GoneTire, FreeTire
  <2>5. KeepsUsed /\ Touches(arg[r].vehicle)
    BY <2>1, <2>2, <2>3, <2>4 DEF KeepsUsed, Touches, Same
  <2> QED
    BY <2>1, <2>5
<1>10. CASE MountTarget(r) /\ Live(arg[r].tire)
  <2>1. \A t \in TireIds : tire'[t].used = tire[t].used
    BY <1>10 DEF MountTarget, IInv, TypeOK, TireRow, FreeTire, GoneTire
  <2> QED
    BY <1>10, <2>1 DEF KeepsUsed
<1>11. CASE InsertEvent(r) /\ Live(arg[r].tire)
  <2>1. arg[r].tire \in TireIds /\ tire[arg[r].tire] \in TireRow
        /\ tire' = [tire EXCEPT ![arg[r].tire].used = TRUE]
    BY <1>4, <1>11 DEF InsertEvent, IInv, AllKnow, Knows
  <2>2. KeepsUsed /\ \A t \in TireIds : Same(t)
    BY <2>1 DEF KeepsUsed, Same, IInv, TypeOK, TireRow
  <2> QED
    BY <2>2
<1> QED
  BY <1>1, <1>2, <1>5, <1>6, <1>7, <1>8, <1>9, <1>10, <1>11
     DEF Step, Create, Update, Delete, MountDemote, MountTarget, InsertEvent, Answer,
         tables

(* No change of a tire is forgotten: nothing deletes a tire that a         *)
(* tire_changes row refers to, however requests interleave.                *)
THEOREM HistoryAlwaysKept == Spec => HistoryIsKept
<1>1. IInv /\ [Next]_vars => [KeepsUsed]_vars
  BY StepEffect DEF Next
<1>2. [KeepsUsed]_vars => [\A t \in TireIds : tire[t].used => tire'[t].used]_vars
  BY DEF KeepsUsed
<1> QED
  BY <1>1, <1>2, Inductive, PTL DEF Spec, HistoryIsKept

-----------------------------------------------------------------------------
(* The refinement *)

LEMMA MountedNext ==
  ASSUME NEW v \in VehicleIds
  PROVE  Mounted(v)' = {t \in TireIds : /\ tire'[t].st = "live" /\ tire'[t].vehicle = v
                                        /\ tire'[t].status = "MOUNTED"}
BY DEF Mounted, TiresOf, Live

(* With one request, a vehicle has one mounted set at most, and it is one  *)
(* that the request has met when it is about to write its last row.        *)
LEMMA OneMounted ==
  ASSUME OwnTires, IInv, NEW r, Requests = {r}, NEW v \in VehicleIds
  PROVE  /\ \A s, t \in Mounted(v) : s = t
         /\ pc[r] = "mount.write" /\ arg[r].vehicle = v => Mounted(v) \subseteq Met(r)
<1>1. PICK f : Blames(v, f)
  BY DEF IInv, Blamed
<1>2. \A t \in Mounted(v) : f[t] = r
  BY <1>1 DEF Blames
<1> QED
  BY <1>1, <1>2 DEF Blames

LEMMA TouchIsUnmount ==
  ASSUME OwnTires, IInv, NEW r, Requests = {r}, NEW v \in VehicleIds, Touches(v)
  PROVE  MS!Unmount(v) \/ \A w \in VehicleIds : Mounted(w)' = Mounted(w)
<1>1. \A w \in VehicleIds \ {v} : Mounted(w)' = Mounted(w)
  BY MountedNext DEF Touches, Same, Mounted, TiresOf, Live
<1>2. Mounted(v)' \subseteq Mounted(v)
  BY MountedNext DEF Touches, Same, Mounted, TiresOf, Live
<1>3. Mounted(v)' = Mounted(v) \/ Mounted(v)' = {}
  BY <1>2, OneMounted
<1> QED
  BY <1>1, <1>3 DEF MS!Unmount

LEMMA TargetIsMount ==
  ASSUME OwnTires, IInv, NEW r, Requests = {r}, MountTarget(r), Live(arg[r].tire)
  PROVE  \E v \in VehicleIds, t \in TireIds : MS!Mount(v, t)
<1>0. PICK v, t : v = arg[r].vehicle /\ t = arg[r].tire
  OBVIOUS
<1>1. /\ pc[r] = "mount.write" /\ Knows(r) /\ arg[r].at = t
      /\ v \in VehicleIds /\ t \in TireIds /\ Live(t)
  BY <1>0 DEF MountTarget, IInv, AllKnow, Knows, InMount
<1>2. tire[t].vehicle = v /\ Here(r) /\ Met(r) = arg[r].held \cup {t}
  BY <1>0, <1>1 DEF Knows, InMount, Met
<1>3. \A s \in arg[r].held \ {t} : /\ s \in TireIds
                                   /\ Live(s) => tire[s].vehicle = v
  BY <1>0, <1>1, <1>2, ConstantsAssumption DEF Here, Live, IInv, TypeOK, Args
<1>4. Mounted(v) \subseteq arg[r].held \cup {t}
  BY <1>0, <1>1, <1>2, OneMounted
<1>5. \A s \in TireIds : /\ tire'[s].st = tire[s].st /\ tire'[s].vehicle = tire[s].vehicle
                         /\ tire'[s].status = IF s = t THEN "MOUNTED"
                                              ELSE IF s \in arg[r].held THEN "STORED"
                                              ELSE tire[s].status
  BY <1>0 DEF MountTarget, IInv, TypeOK, TireRow, FreeTire, GoneTire
<1>6. Mounted(v)' = {t}
  BY <1>1, <1>2, <1>4, <1>5, MountedNext DEF Mounted, TiresOf, Live
<1>7. \A w \in VehicleIds \ {v} : Mounted(w)' = Mounted(w) /\ t \notin Mounted(w)
  BY <1>1, <1>2, <1>3, <1>5, MountedNext DEF Mounted, TiresOf, Live
<1> QED
  BY <1>1, <1>6, <1>7 DEF MS!Mount

(* A server that serves one request at a time keeps "one mounted set at a  *)
(* time" through every step, those of an install without a transaction     *)
(* included, if events name tires of their own vehicle.                    *)
THEOREM Refinement ==
  OwnTires /\ (\E r : Requests = {r}) => (Spec => ImplementsMountedSet)
<1> SUFFICES ASSUME OwnTires, NEW r, Requests = {r}
             PROVE  Spec => ImplementsMountedSet
  OBVIOUS
<1>1. Init => MS!Init
  BY DEF Init, MS!Init, Mounted, TiresOf, Live, FreeTire
<1>2. IInv /\ [Next]_vars => [MS!Next]_([v \in VehicleIds |-> Mounted(v)])
  <2> SUFFICES ASSUME IInv, [Next]_vars
               PROVE  MS!Next \/ \A v \in VehicleIds : Mounted(v)' = Mounted(v)
    OBVIOUS
  <2>1. CASE UNCHANGED vars
    BY <2>1 DEF vars, Mounted, TiresOf, Live
  <2>2. CASE \E v \in VehicleIds : Touches(v)
    BY <2>2, TouchIsUnmount DEF MS!Next
  <2>3. CASE \A t \in TireIds : Same(t)
    BY <2>3, MountedNext DEF Same, Mounted, TiresOf, Live
  <2>4. CASE MountTarget(r) /\ Live(arg[r].tire)
    BY <2>4, TargetIsMount DEF MS!Next
  <2> QED
    BY <2>1, <2>2, <2>3, <2>4, StepEffect DEF Next
<1> QED
  BY <1>1, <1>2, Inductive, PTL DEF Spec, ImplementsMountedSet, MS!Spec

=============================================================================
