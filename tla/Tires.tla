-------------------------------- MODULE Tires --------------------------------
(***************************************************************************)
(* The tire sets of vehicles, as src/modules/tires, the TIRE_CHANGE events *)
(* of src/modules/timeline and the deletion of a vehicle change them.  A   *)
(* mount finds the mounted sets of the vehicle, demotes them one by one    *)
(* and mounts its own: in a transaction when a tire is patched by hand,    *)
(* without one when the timeline installs it.                              *)
(*                                                                         *)
(* A request stands at its next await, as in Maintenance.  The writes of a *)
(* transaction reach the table when it commits; held are the rows it has   *)
(* locked so far.  What assertWorkspaceAccess reads never changes here, so *)
(* it is part of the first read; fields other than the status are data.    *)
(***************************************************************************)
EXTENDS Integers, FiniteSets

CONSTANTS
  VehicleIds,  \* ids of vehicles rows
  TireIds,     \* ids of tires rows: bounds how many are created
  Requests,    \* HTTP requests that can be in flight together
  Users,       \* members of the workspace
  Privileged,  \* those of them that are OWNER or ADMIN
  OwnTires,    \* whether events only name tires of their own vehicle
  Null         \* no value

ASSUME ConstantsAssumption ==
  /\ Null \notin VehicleIds \cup TireIds \cup Users
  /\ Privileged \subseteq Users
  /\ OwnTires \in BOOLEAN
  /\ IsFiniteSet(Requests) /\ IsFiniteSet(TireIds)

VARIABLES
  vehicle,  \* table vehicles: "live" or, softly deleted, "gone"
  tire,     \* table tires
  pc,       \* where each request stands
  arg       \* what each request carries

tables == <<vehicle, tire>>
vars == <<vehicle, tire, pc, arg>>

-----------------------------------------------------------------------------
(* Tables.  used says that a tire_changes row refers to the tire: its      *)
(* event may be deleted softly, the row never is.                          *)

TireStatus == {"MOUNTED", "STORED", "RETIRED"}

FreeTire == [st |-> "free", vehicle |-> Null, status |-> "STORED",
             createdBy |-> Null, used |-> FALSE]
GoneTire == [FreeTire EXCEPT !.st = "gone"]

TireRow == [st : {"live"}, vehicle : VehicleIds, status : TireStatus,
            createdBy : Users \cup {Null}, used : BOOLEAN]

Steps == {"idle", "create", "update", "mount.find", "mount.write", "delete",
          "event", "vehicle.tires", "vehicle.commit"}

NoArgs == [tire |-> Null, vehicle |-> Null, user |-> Null, status |-> "STORED",
           tx |-> FALSE, at |-> Null, rest |-> {}, held |-> {}]
Args == [tire : TireIds \cup {Null}, vehicle : VehicleIds \cup {Null},
         user : Users \cup {Null}, status : TireStatus, tx : BOOLEAN, at : TireIds \cup {Null},
         rest : SUBSET TireIds, held : SUBSET TireIds]

TypeOK ==
  /\ vehicle \in [VehicleIds -> {"live", "gone"}]
  /\ tire \in [TireIds -> TireRow \cup {FreeTire, GoneTire}]
  /\ pc \in [Requests -> Steps]
  /\ arg \in [Requests -> Args]

-----------------------------------------------------------------------------
Live(t) == tire[t].st = "live"

TiresOf(v) == {t \in TireIds : Live(t) /\ tire[t].vehicle = v}

(* findMountedByVehicleId *)
Mounted(v) == {t \in TiresOf(v) : tire[t].status = "MOUNTED"}

(* Row locks of the other open transactions.  A reference to a row (the    *)
(* foreign key of an insert) waits for its deletion only.                  *)
RowLocked(t, r) == \E q \in Requests \ {r} : t \in arg[q].held

KeyLocked(t, r) ==
  \E q \in Requests \ {r} : pc[q] = "vehicle.commit" /\ t \in arg[q].held

assertCanDeleteOwnedResource(u, row) == u \in Privileged \/ row.createdBy = u

-----------------------------------------------------------------------------
(* Control of a request *)

Goto(r, step, a) ==
  /\ pc' = [pc EXCEPT ![r] = step]
  /\ arg' = [arg EXCEPT ![r] = a]

Finish(r) == Goto(r, "idle", NoArgs)

(* The answer is sent, or an exception is: an open transaction rolls back. *)
Answer(r) == Finish(r) /\ UNCHANGED tables

Continue(r, step, a) == Goto(r, step, a) /\ UNCHANGED tables

(* A request arrives: what it reads first lets it go on, or refuses it. *)
Opened(r, allowed, step, a) ==
  /\ pc[r] = "idle"
  /\ IF allowed THEN Continue(r, step, a) ELSE UNCHANGED vars

Init ==
  /\ vehicle = [v \in VehicleIds |-> "live"]
  /\ tire = [t \in TireIds |-> FreeTire]
  /\ pc = [r \in Requests |-> "idle"]
  /\ arg = [r \in Requests |-> NoArgs]

-----------------------------------------------------------------------------
(* POST .../vehicles/:vehicleId/tires: VehicleAccessGuard, then the insert *)
(* of a stored tire, which the repository does without the createdBy (the  *)
(* user) that the service gives it.  When TireIds, a bound, is used up, it *)
(* fails.                                                                  *)

OpenCreate(r, v, u) ==
  Opened(r, vehicle[v] = "live", "create", [NoArgs EXCEPT !.vehicle = v, !.user = u])

Create(r) ==
  /\ pc[r] = "create"
  /\ \/ \E t \in TireIds :
          /\ tire[t].st = "free"
          /\ tire' = [tire EXCEPT ![t] = [FreeTire EXCEPT !.st = "live",
                                                          !.vehicle = arg[r].vehicle]]
          /\ Finish(r)
          /\ UNCHANGED vehicle
     \/ (\A t \in TireIds : tire[t].st # "free") /\ Answer(r)

-----------------------------------------------------------------------------
(* PATCH /tires/:id.  A status other than MOUNTED is written as it is,     *)
(* MOUNTED goes to manualMount.                                            *)

OpenUpdateDirect(r, t, status) ==  \* mutant: MOUNTED is written like the others
  Opened(r, Live(t) /\ ~(tire[t].status = status /\ status # "STORED"), "update",
         [NoArgs EXCEPT !.tire = t, !.vehicle = tire[t].vehicle, !.status = status])

OpenUpdate(r, t, status) ==
  LET a == [NoArgs EXCEPT !.tire = t, !.vehicle = tire[t].vehicle,
                          !.status = status, !.tx = (status = "MOUNTED")]
  IN
  Opened(r, Live(t) /\ ~(tire[t].status = status /\ status # "STORED"),
         IF status = "MOUNTED" THEN "mount.find" ELSE "update", a)

(* The update by id, of a patch and of unmount. *)
Update(r) ==
  LET t == arg[r].tire IN
  /\ pc[r] = "update"
  /\ ~RowLocked(t, r)
  /\ IF Live(t)
     THEN /\ tire' = [tire EXCEPT ![t].status = arg[r].status]
          /\ Finish(r)
          /\ UNCHANGED vehicle
     ELSE Answer(r)

-----------------------------------------------------------------------------
(* mount: the loop over the mounted sets that were found, in the order the *)
(* database happened to return them.  at is the row to be written next.    *)

WriteNext(r, left, held) ==
  \E next \in IF left = {} THEN {arg[r].tire} ELSE left :
    Goto(r, "mount.write", [arg[r] EXCEPT !.at = next, !.rest = left \ {next},
                                          !.held = held])

MountFindNone(r) ==  \* mutant: nothing else is demoted
  /\ pc[r] = "mount.find"
  /\ WriteNext(r, {}, {})
  /\ UNCHANGED tables

MountFind(r) ==
  /\ pc[r] = "mount.find"
  /\ WriteNext(r, Mounted(arg[r].vehicle) \ {arg[r].tire}, {})
  /\ UNCHANGED tables

(* An update of a row that is gone throws: the transaction, if there is    *)
(* one, rolls back.                                                        *)
MountDemote(r) ==
  LET t == arg[r].at IN
  /\ pc[r] = "mount.write"
  /\ t # arg[r].tire
  /\ ~RowLocked(t, r)
  /\ \/ ~Live(t) /\ Answer(r)
     \/ /\ Live(t) /\ arg[r].tx
        /\ WriteNext(r, arg[r].rest, arg[r].held \cup {t})
        /\ UNCHANGED tables
     \/ /\ Live(t) /\ ~arg[r].tx
        /\ WriteNext(r, arg[r].rest, {})
        /\ tire' = [tire EXCEPT ![t].status = "STORED"]
        /\ UNCHANGED vehicle

(* The last update, with which a transaction commits. *)
MountTarget(r) ==
  LET t == arg[r].tire IN
  /\ pc[r] = "mount.write"
  /\ arg[r].at = t
  /\ ~RowLocked(t, r)
  /\ IF Live(t)
     THEN /\ tire' = [s \in TireIds |->
                       IF s = t THEN [tire[s] EXCEPT !.status = "MOUNTED"]
                       ELSE IF s \in arg[r].held
                            THEN [tire[s] EXCEPT !.status = "STORED"]
                       ELSE tire[s]]
          /\ Finish(r)
          /\ UNCHANGED vehicle
     ELSE Answer(r)

-----------------------------------------------------------------------------
(* DELETE /tires/:id.  The foreign key of tire_changes restricts it.       *)

OpenDelete(r, t, u) ==
  Opened(r, /\ Live(t) /\ tire[t].status # "MOUNTED"
            /\ assertCanDeleteOwnedResource(u, tire[t]),
         "delete", [NoArgs EXCEPT !.tire = t])

DeleteCascading(r) ==  \* mutant: the change rows of the tire go with it
  LET t == arg[r].tire IN
  /\ pc[r] = "delete"
  /\ ~RowLocked(t, r)
  /\ IF Live(t)
     THEN /\ tire' = [tire EXCEPT ![t] = GoneTire]
          /\ Finish(r)
          /\ UNCHANGED vehicle
     ELSE Answer(r)

Delete(r) ==
  LET t == arg[r].tire IN
  /\ pc[r] = "delete"
  /\ ~RowLocked(t, r)
  /\ IF Live(t) /\ ~tire[t].used
     THEN /\ tire' = [tire EXCEPT ![t] = GoneTire]
          /\ Finish(r)
          /\ UNCHANGED vehicle
     ELSE Answer(r)

-----------------------------------------------------------------------------
(* A TIRE_CHANGE event of the timeline: VehicleAccessGuard for the vehicle *)
(* of the path, the insert that refers to the tire the body names, then,   *)
(* with no transaction around them, mount or unmount.                      *)

OpenChange(r, v, t, status) ==
  Opened(r, /\ vehicle[v] = "live"
            /\ OwnTires => tire[t].vehicle = v,
         "event", [NoArgs EXCEPT !.tire = t, !.vehicle = v, !.status = status])

InsertEvent(r) ==
  LET t == arg[r].tire IN
  /\ pc[r] = "event"
  /\ ~KeyLocked(t, r)
  /\ IF Live(t)
     THEN /\ tire' = [tire EXCEPT ![t].used = TRUE]
          /\ Goto(r, IF arg[r].status = "MOUNTED" THEN "mount.find" ELSE "update",
                  arg[r])
          /\ UNCHANGED vehicle
     ELSE Answer(r)

-----------------------------------------------------------------------------
(* DELETE .../vehicles/:vehicleId, as far as it concerns tires: one        *)
(* transaction that deletes them all and then the vehicle, softly.         *)

OpenDeleteVehicle(r, v) ==
  Opened(r, vehicle[v] = "live", "vehicle.tires", [NoArgs EXCEPT !.vehicle = v])

(* deleteAllByVehicleId *)
VehicleTires(r) ==
  LET mine == TiresOf(arg[r].vehicle) IN
  /\ pc[r] = "vehicle.tires"
  /\ \A t \in mine : ~RowLocked(t, r)
  /\ IF \E t \in mine : tire[t].used
     THEN Answer(r)
     ELSE Continue(r, "vehicle.commit", [arg[r] EXCEPT !.held = mine])

VehicleCommit(r) ==
  /\ pc[r] = "vehicle.commit"
  /\ tire' = [t \in TireIds |-> IF t \in arg[r].held THEN GoneTire ELSE tire[t]]
  /\ vehicle' = [vehicle EXCEPT ![arg[r].vehicle] = "gone"]
  /\ Finish(r)

-----------------------------------------------------------------------------
(* Two mounts that demote each other's tires wait for each other. *)
Deadlocked(q, r) ==
  /\ pc[q] = "mount.write" /\ pc[r] = "mount.write"
  /\ arg[q].at \in arg[r].held
  /\ arg[r].at \in arg[q].held

(* PostgreSQL ends such a wait by aborting one of the two transactions. *)
DeadlockVictim(r) ==
  /\ \E q \in Requests \ {r} : Deadlocked(q, r)
  /\ Answer(r)

(* Any await may throw: the request ends there. *)
Fail(r) == pc[r] # "idle" /\ Answer(r)

Step(r) ==
  \/ Create(r) \/ Update(r) \/ Delete(r)
  \/ MountFind(r) \/ MountDemote(r) \/ MountTarget(r)
  \/ InsertEvent(r)
  \/ VehicleTires(r) \/ VehicleCommit(r)

Open(r) ==
  \/ \E v \in VehicleIds : OpenDeleteVehicle(r, v)
  \/ \E v \in VehicleIds, u \in Users : OpenCreate(r, v, u)
  \/ \E t \in TireIds, status \in TireStatus : OpenUpdate(r, t, status)
  \/ \E t \in TireIds, u \in Users : OpenDelete(r, t, u)
  \/ \E v \in VehicleIds, t \in TireIds, status \in {"MOUNTED", "STORED"} :
       OpenChange(r, v, t, status)

Next == \E r \in Requests : Open(r) \/ Step(r) \/ DeadlockVictim(r) \/ Fail(r)

Spec == Init /\ [][Next]_vars

-----------------------------------------------------------------------------
(* What holds, whatever the interleaving *)

(* When events name tires of their own vehicle, a vehicle has no more      *)
(* mounted sets than requests were ever in flight together: a mount leaves *)
(* none that it found, so each request can be blamed for one at most.  A   *)
(* server that serves one request at a time has one mounted set.           *)
OneSetPerRequest ==
  \A v \in VehicleIds : Cardinality(Mounted(v)) <= Cardinality(Requests)

(* A tire that was ever changed is never deleted, although delete and the  *)
(* deletion of the vehicle only look at the status, or at nothing: the     *)
(* mileage history of a tire is not lost.                                  *)
HistoryIsKept == [][\A t \in TireIds : tire[t].used => tire'[t].used]_vars

-----------------------------------------------------------------------------
(* What holds for one request at a time *)

(* The tires implement "only one mounted set at a time", also in the       *)
(* middle of an install that the timeline does without a transaction.      *)
MS == INSTANCE MountedSet WITH
        Vehicles <- VehicleIds, Tires <- TireIds,
        mounted <- [v \in VehicleIds |-> Mounted(v)]

ImplementsMountedSet == MS!Spec

-----------------------------------------------------------------------------
(* What comments and tests say, and the code does not keep *)

(* "a vehicle can only have one mounted set at a time" *)
OneMountedSet == \A v \in VehicleIds : Cardinality(Mounted(v)) <= 1

(* "should allow a MEMBER to delete their own tire": whoever creates a     *)
(* tire may delete it.                                                     *)
CreatorMayDelete ==
  [][\A r \in Requests, t \in TireIds :
       pc[r] = "create" /\ pc'[r] = "idle" /\ tire[t].st = "free" /\ tire'[t].st = "live"
         => assertCanDeleteOwnedResource(arg[r].user, tire'[t])]_vars

=============================================================================
