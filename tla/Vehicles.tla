------------------------------ MODULE Vehicles ------------------------------
(***************************************************************************)
(* Vehicles, as src/modules/vehicles changes them, and the tables that a   *)
(* vehicle's deletion empties.  Other handlers add rows to those tables    *)
(* after VehicleAccessGuard has found the vehicle, and a soft delete gives *)
(* no foreign key a reason to stop them.  The deletion is one transaction  *)
(* (READ COMMITTED): a statement sees what is committed when it starts,    *)
(* waits for rows another transaction holds, and shows when it commits.    *)
(***************************************************************************)
EXTENDS Integers, Sequences, FiniteSets

CONSTANTS
  VehicleIds,  \* ids of vehicles rows
  Workspaces,  \* the workspaces they are in
  Rows,        \* ids of rows in the tables of a vehicle
  Specs,       \* values of vehicles.specs
  Requests,    \* HTTP requests that can be in flight together
  Null         \* no value

(* What the module asks of its constants. *)
ConstantsAssumption ==
  Null \notin VehicleIds \cup Workspaces \cup Rows \cup Specs

VARIABLES
  vehicle,  \* table vehicles
  row,      \* the rows of its tables: which vehicle's, and of which table
  late,     \* rows that came while their vehicle was being deleted: history
  pc, arg

vars == <<vehicle, row, late, pc, arg>>

DeletionOrderShort ==  \* mutant: the mileage logs are forgotten
  <<"reminders", "intervals", "tires", "events", "milestones">>

(* The statements of the transaction in delete, before softDelete. *)
DeletionOrder ==
  <<"reminders", "intervals", "tires", "events", "logs", "milestones">>

Tables == {"reminders", "intervals", "tires", "events", "logs", "milestones"}

FreeVehicle == [st |-> "free", ws |-> Null, specs |-> Null]
FreeRow == [st |-> "free", of |-> Null, table |-> Null]
NoArgs == [op |-> Null, vehicle |-> Null, table |-> Null, specs |-> Null,
           done |-> 0, taken |-> {}]

TypeOK ==
  /\ vehicle \in [VehicleIds -> {FreeVehicle} \cup
       [st : {"live", "gone", "closed"}, ws : Workspaces, specs : Specs \cup {Null}]]
  /\ row \in [Rows -> {FreeRow} \cup [st : {"live", "gone"}, of : VehicleIds, table : Tables]]
  /\ late \subseteq Rows
  /\ pc \in [Requests -> {"idle", "write", "ask", "add", "delete"}]
  /\ \A r \in Requests : arg[r].done \in 0..6 /\ arg[r].taken \subseteq Rows

(* "closed" is a vehicle that its workspace took along. *)
Live(v) == vehicle[v].st = "live"
RowsOf(v) == {i \in Rows : row[i].st = "live" /\ row[i].of = v}
Held(r) == UNION {arg[q].taken : q \in Requests \ {r}}
BeingDeleted(v) == \E r \in Requests : pc[r] = "delete" /\ arg[r].vehicle = v

Init ==
  /\ vehicle = [v \in VehicleIds |-> FreeVehicle]
  /\ row = [i \in Rows |-> FreeRow] /\ late = {}
  /\ pc = [r \in Requests |-> "idle"] /\ arg = [r \in Requests |-> NoArgs]

Goto(r, step, a) ==
  /\ pc' = [pc EXCEPT ![r] = step]
  /\ arg' = [arg EXCEPT ![r] = a]
Finish(r) == Goto(r, "idle", NoArgs)

Create(v, w) ==
  /\ vehicle[v].st = "free"
  /\ vehicle' = [vehicle EXCEPT ![v] = [FreeVehicle EXCEPT !.st = "live", !.ws = w]]
  /\ UNCHANGED <<row, late, pc, arg>>

(* The guard, and the reads of the handler, find the vehicle in the        *)
(* workspace of the path.                                                  *)
Open(r, v, w, step, a) ==
  /\ pc[r] = "idle"
  /\ Live(v) /\ vehicle[v].ws = w
  /\ Goto(r, step, [a EXCEPT !.vehicle = v])
  /\ UNCHANGED <<vehicle, row, late>>

-----------------------------------------------------------------------------
(* update leaves the specs as they are, updateSpecs replaces them. *)
OpenUpdate(r, v, w) == Open(r, v, w, "write", [NoArgs EXCEPT !.op = "update"])
OpenSpecs(r, v, w, specs) ==
  Open(r, v, w, "write", [NoArgs EXCEPT !.op = "specs", !.specs = specs])
OpenFill(r, v, w) == Open(r, v, w, "ask", [NoArgs EXCEPT !.op = "specs"])

(* The provider's answer: the specs in it, or {} when it is no JSON. *)
Ask(r, specs) ==
  /\ pc[r] = "ask"
  /\ Goto(r, "write", [arg[r] EXCEPT !.specs = specs])
  /\ UNCHANGED <<vehicle, row, late>>

(* By id: a vehicle that was deleted in the meantime is written to. *)
Write(r) ==
  LET v == arg[r].vehicle IN
  /\ pc[r] = "write"
  /\ vehicle' = IF arg[r].op = "specs" THEN [vehicle EXCEPT ![v].specs = arg[r].specs]
                ELSE vehicle
  /\ Finish(r)
  /\ UNCHANGED <<row, late>>

-----------------------------------------------------------------------------
(* A handler of another module adds a row to a table of the vehicle. *)
OpenAdd(r, v, w, table) == Open(r, v, w, "add", [NoArgs EXCEPT !.table = table])

Add(r) ==
  LET v == arg[r].vehicle IN
  /\ pc[r] = "add"
  /\ \E i \in Rows :
       /\ row[i].st = "free"
       /\ row' = [row EXCEPT ![i] = [st |-> "live", of |-> v, table |-> arg[r].table]]
       /\ late' = IF Live(v) /\ ~BeingDeleted(v) THEN late ELSE late \cup {i}
  /\ Finish(r)
  /\ UNCHANGED vehicle

-----------------------------------------------------------------------------
(* delete *)
OpenDelete(r, v, w) == Open(r, v, w, "delete", NoArgs)

DeleteRows(r) ==
  LET n == arg[r].done + 1
      found == {i \in RowsOf(arg[r].vehicle) : row[i].table = DeletionOrder[n]}
  IN
  /\ pc[r] = "delete" /\ n <= Len(DeletionOrder)
  /\ found \cap Held(r) = {}
  /\ Goto(r, "delete", [arg[r] EXCEPT !.done = n, !.taken = @ \cup found])
  /\ UNCHANGED <<vehicle, row, late>>

(* softDelete, and the commit. *)
SoftDelete(r) ==
  /\ pc[r] = "delete" /\ arg[r].done = Len(DeletionOrder)
  /\ vehicle' = [vehicle EXCEPT ![arg[r].vehicle].st = "gone"]
  /\ row' = [i \in Rows |-> IF i \in arg[r].taken THEN [row[i] EXCEPT !.st = "gone"]
                                                  ELSE row[i]]
  /\ Finish(r)
  /\ UNCHANGED late

(* softDeleteAllByWorkspaceId, in the transaction that deletes a workspace: *)
(* the vehicles only.                                                      *)
CloseWorkspace(w) ==
  /\ \E v \in VehicleIds : Live(v) /\ vehicle[v].ws = w
  /\ vehicle' = [v \in VehicleIds |-> IF Live(v) /\ vehicle[v].ws = w
                                      THEN [vehicle[v] EXCEPT !.st = "closed"]
                                      ELSE vehicle[v]]
  /\ UNCHANGED <<row, late, pc, arg>>

(* An await throws, or the transaction is rolled back. *)
Fail(r) ==
  /\ pc[r] # "idle"
  /\ Finish(r)
  /\ UNCHANGED <<vehicle, row, late>>

(* The routes of the controller *)
Route(v, w) ==
  \/ Create(v, w)
  \/ \E r \in Requests : \/ OpenUpdate(r, v, w) \/ OpenFill(r, v, w) \/ OpenDelete(r, v, w)
                         \/ \E specs \in Specs : OpenSpecs(r, v, w, specs)

Next ==
  \/ \E w \in Workspaces : CloseWorkspace(w)
  \/ \E v \in VehicleIds, w \in Workspaces : Route(v, w)
  \/ \E r \in Requests :
       \/ \E v \in VehicleIds, w \in Workspaces, table \in Tables : OpenAdd(r, v, w, table)
       \/ \E specs \in Specs : Ask(r, specs)
       \/ Write(r) \/ Add(r) \/ DeleteRows(r) \/ SoftDelete(r) \/ Fail(r)

Spec == Init /\ [][Next]_vars

-----------------------------------------------------------------------------
(* A vehicle that was deleted leaves nothing behind, in none of its six    *)
(* tables, except what was added to it while its deletion was under way.   *)
DeletionTakesAll ==
  \A v \in VehicleIds : vehicle[v].st = "gone" => RowsOf(v) \subseteq late

=============================================================================
