------------------------------- MODULE Garage --------------------------------
(***************************************************************************)
(* Tires, and components that share no tables with them or each other,     *)
(* one after the other: `part` is the one a behaviour is about.  The       *)
(* variables of the others are Null, or as Init has them where a property  *)
(* is about steps.                                                         *)
(***************************************************************************)
EXTENDS Tires

CONSTANTS
  MediaIds, Entities, Vehicles, Profiles, Uploaders, Members, Admins,  \* of Media
  ChangeIds, Dates, Mileages,                                          \* of TireHistory
  Levels, MinTotal, MaxTotal, MaxRows,                                 \* of Milestones
  Homes, RowIds, Specs,                                                \* of Vehicles
  People, WorkspaceIds, MemberIds, InviteIds, GivenRoles, Closers,     \* of Workspaces
  Caller   \* the one request of Workspaces

VARIABLES
  part,
  media, image, photo, lostEntities, torn, half, mediaPc, mediaArg,
  change, odometer, historyPc, read,
  group, total, awards, milestonePc, milestoneArg, highest, lowest, granted,
  vehicles, row, late, vehiclePc, vehicleArg,
  workspace, member, invite, deletedUsers, workspacePc, workspaceArg

mediaVars == <<media, image, photo, lostEntities, torn, half, mediaPc, mediaArg>>
historyVars == <<change, odometer, historyPc, read>>
milestoneVars == <<group, total, awards, milestonePc, milestoneArg, highest, lowest, granted>>
vehicleVars == <<vehicles, row, late, vehiclePc, vehicleArg>>
workspaceVars == <<workspace, member, invite, deletedUsers, workspacePc, workspaceArg>>

-----------------------------------------------------------------------------
(* The parts *)

Me == INSTANCE Media WITH
  Users <- Uploaders, Privileged <- Admins, gone <- lostEntities, pc <- mediaPc, arg <- mediaArg

Hi == INSTANCE TireHistory WITH odo <- odometer, pc <- historyPc

Mi == INSTANCE Milestones WITH pc <- milestonePc, arg <- milestoneArg

Ve == INSTANCE Vehicles WITH
  Workspaces <- Homes, Rows <- RowIds, vehicle <- vehicles, pc <- vehiclePc, arg <- vehicleArg

(* One request at a time on the workspaces *)
Wo == INSTANCE Workspaces WITH
  Users <- People, Requests <- {Caller}, pc <- workspacePc, arg <- workspaceArg

ASSUME GarageAssumption ==
  /\ Me!ConstantsAssumption /\ Hi!ConstantsAssumption /\ Mi!ConstantsAssumption
  /\ Ve!ConstantsAssumption /\ Wo!ConstantsAssumption

-----------------------------------------------------------------------------
Parts == {"tires", "history", "media", "milestones", "vehicles", "workspaces"}

GarageInit ==
  /\ part \in Parts
  /\ Init /\ Wo!Init
  /\ IF part = "media" THEN Me!Init
     ELSE media = Null /\ image = Null /\ photo = Null /\ lostEntities = Null
          /\ torn = Null /\ half = Null /\ mediaPc = Null /\ mediaArg = Null
  /\ IF part = "history" THEN Hi!Init
     ELSE change = Null /\ odometer = Null /\ historyPc = Null /\ read = Null
  /\ IF part = "milestones" THEN Mi!Init
     ELSE group = Null /\ total = Null /\ awards = Null /\ milestonePc = Null
          /\ milestoneArg = Null /\ highest = Null /\ lowest = Null /\ granted = Null
  /\ IF part = "vehicles" THEN Ve!Init
     ELSE vehicles = Null /\ row = Null /\ late = Null /\ vehiclePc = Null
          /\ vehicleArg = Null

(* The other parts stand still. *)
Others(own) ==
  /\ UNCHANGED part
  /\ own # "tires" => UNCHANGED vars
  /\ own # "media" => UNCHANGED mediaVars
  /\ own # "history" => UNCHANGED historyVars
  /\ own # "milestones" => UNCHANGED milestoneVars
  /\ own # "vehicles" => UNCHANGED vehicleVars
  /\ own # "workspaces" => UNCHANGED workspaceVars

GarageNext ==
  \/ part = "tires" /\ Next /\ Others(part)
  \/ part = "media" /\ Me!Next /\ Others(part)
  \/ part = "history" /\ Hi!Next /\ Others(part)
  \/ part = "milestones" /\ Mi!Next /\ Others(part)
  \/ part = "vehicles" /\ Ve!Next /\ Others(part)
  \/ part = "workspaces" /\ Wo!Next /\ Others(part)

garageVars ==
  <<part, vars, mediaVars, historyVars, milestoneVars, vehicleVars, workspaceVars>>

GarageSpec == GarageInit /\ [][GarageNext]_garageVars

-----------------------------------------------------------------------------
(* The properties of the parts.  OneSetPerRequest and HistoryIsKept are in Tires. *)

(* Each states with it that the tables and requests of its part are well   *)
(* typed.                                                                  *)

(* The kilometres of a tire's history are those driven with it, once each. *)
DrivenOnce == part = "history" => Hi!TypeOK /\ Hi!DrivenOnce

(* Where no two requests met and none failed, an entity has one primary    *)
(* photo, which the vehicle or the avatar names; and it never has more of  *)
(* them than requests were in flight together.                             *)
PhotosInStep ==
  part = "media" => Me!TypeOK /\ Me!OnePrimaryPerRequest /\ Me!PrimaryInStep
(* No row shows an image that is gone, but for a deletion under way or broken off. *)
RowHasImage == part = "media" => Me!RowHasImage

(* No level is awarded more often than there are requests; a check that    *)
(* came to its end has left no level open that the total stayed above      *)
(* meanwhile, and none is awarded that was never reached; and the levels   *)
(* shown are a current one that was reached and a next one not granted.    *)
AwardsInStep ==
  part = "milestones" => Mi!TypeOK /\ Mi!AwardsBounded /\ Mi!LevelsReached /\ Mi!LevelsShown

(* A deleted vehicle keeps only rows that were added while it was deleted. *)
DeletionTakesAll == part = "vehicles" => Ve!TypeOK /\ Ve!DeletionTakesAll

(* One request at a time: accepting an invite finds the workspace. *)
AcceptFindsWorkspace == Wo!TypeOK /\ Wo!AcceptFindsWorkspace

(* A request writes rows of the workspace its guard looked at, and no other. *)
StaysInWorkspace == Wo!StaysInWorkspace

=============================================================================
