------------------------------- MODULE Media -------------------------------
(***************************************************************************)
(* Photos and videos, as src/modules/media stores them: the row, its usage *)
(* (which entity it shows, and whether it is the primary one there), the   *)
(* image at the external service, and vehicles.primaryPhotoId, which no    *)
(* foreign key ties to a row.  Nothing here runs in a transaction.         *)
(*                                                                         *)
(* An entity stands for the user (a profile), the vehicle, the tire or the *)
(* timeline record of an upload.  Other handlers delete it at any time,    *)
(* and its media stay.  Its workspace, and who is a member of it, do not   *)
(* change here.                                                            *)
(***************************************************************************)
EXTENDS Integers, FiniteSets

CONSTANTS
  MediaIds,    \* ids of media rows, and of the images they refer to
  Entities,    \* what media belong to
  Vehicles,    \* those entities that have a primaryPhotoId
  Profiles,    \* those that are users, and in no workspace
  Users,       \* who is logged in
  Members,     \* members of the workspace of the other entities
  Privileged,  \* the OWNERs and ADMINs among them
  Requests,    \* HTTP requests that can be in flight together
  Null         \* no value

(* What the module asks of its constants. *)
ConstantsAssumption ==
  /\ Vehicles \subseteq Entities /\ Profiles \subseteq Entities \ Vehicles
  /\ Privileged \subseteq Members /\ Members \subseteq Users
  /\ Null \notin MediaIds \cup Entities \cup Users
  /\ IsFiniteSet(Requests) /\ IsFiniteSet(MediaIds)

VARIABLES
  media,  \* tables media and media_usages
  image,  \* what the image service holds
  photo,  \* vehicles.primaryPhotoId; users.avatarUrl, as the image it names
  gone,   \* entities that were deleted, vehicles softly
  torn,   \* entities at which two requests met, or one failed: history
  half,   \* media whose deletion destroyed the image and went no further
  pc, arg

tables == <<media, image, photo, gone>>
vars == <<tables, torn, half, pc, arg>>

(* The entities that say themselves which of their photos is the primary one *)
Shown == Vehicles \cup Profiles

FreeMedia == [st |-> "free", of |-> Null, by |-> Null, primary |-> FALSE]
MediaRow == [st : {"live"}, of : Entities, by : Users, primary : BOOLEAN]

Steps == {"idle", "store", "clear", "insert", "flag", "sync", "destroy", "delete"}
NoArgs == [op |-> Null, of |-> Null, by |-> Null, primary |-> FALSE, med |-> Null,
           alone |-> FALSE]
Args == [op : {"upload", "set", "delete", Null}, of : Entities \cup {Null},
         by : Users \cup {Null}, primary : BOOLEAN, med : MediaIds \cup {Null},
         alone : BOOLEAN]

TypeOK ==
  /\ media \in [MediaIds -> MediaRow \cup {FreeMedia}]
  /\ image \in [MediaIds -> {"none", "stored", "destroyed"}]
  /\ photo \in [Shown -> MediaIds \cup {Null}] /\ gone \subseteq Entities \ Profiles
  /\ torn \subseteq Entities /\ half \subseteq MediaIds
  /\ pc \in [Requests -> Steps] /\ arg \in [Requests -> Args]

Live(m) == media[m].st = "live"
Primaries(x) == {m \in MediaIds : Live(m) /\ media[m].of = x /\ media[m].primary}

(* resolveEntityContext: it takes any id for that of a user. *)
Resolves(x) == x \notin gone

(* A profile is anyone's to upload to; the rest takes a member. *)
assertAccess(u, x) == x \in Profiles \/ u \in Members
hasWorkspaceRole(u, x) == x \notin Profiles /\ u \in Privileged

(* The requests that are changing what is primary at x *)
Changing(x) == {r \in Requests : pc[r] # "idle" /\ arg[r].of = x /\ arg[r].primary}

Init ==
  /\ media = [m \in MediaIds |-> FreeMedia]
  /\ image = [m \in MediaIds |-> "none"]
  /\ photo = [x \in Shown |-> Null] /\ gone = {}
  /\ torn = {} /\ half = {}
  /\ pc = [r \in Requests |-> "idle"] /\ arg = [r \in Requests |-> NoArgs]

Goto(r, step, a) ==
  /\ pc' = [pc EXCEPT ![r] = step]
  /\ arg' = [arg EXCEPT ![r] = a]

Finish(r) == Goto(r, "idle", NoArgs)

(* A request that will change what is primary at x meets those that do. *)
Meets(r, step, a) ==
  LET others == Changing(a.of) IN
  /\ pc[r] = "idle"
  /\ pc' = [pc EXCEPT ![r] = step]
  /\ arg' = [q \in Requests |->
              IF q = r THEN [a EXCEPT !.alone = a.primary /\ others = {}]
              ELSE IF q \in others /\ a.primary THEN [arg[q] EXCEPT !.alone = FALSE]
              ELSE arg[q]]
  /\ torn' = IF a.primary /\ others # {} THEN torn \cup {a.of} ELSE torn
  /\ UNCHANGED <<tables, half>>

-----------------------------------------------------------------------------
(* POST /media: validated, resolved and allowed, then stored by the image  *)
(* service before anything is written here.                                *)
OpenUpload(r, u, x, primary) ==
  /\ Resolves(x) /\ assertAccess(u, x)
  /\ Meets(r, "store", [NoArgs EXCEPT !.op = "upload", !.of = x, !.by = u,
                                      !.primary = primary])

StoreUnawaited(r) ==  \* mutant: does not wait for the image service
  /\ pc[r] = "store"
  /\ \E m \in MediaIds :
       /\ image[m] = "none"
       /\ Goto(r, IF arg[r].primary THEN "clear" ELSE "insert",
               [arg[r] EXCEPT !.med = m])
  /\ UNCHANGED <<tables, torn, half>>

Store(r) ==
  /\ pc[r] = "store"
  /\ \E m \in MediaIds :
       /\ image[m] = "none"
       /\ image' = [image EXCEPT ![m] = "stored"]
       /\ Goto(r, IF arg[r].primary THEN "clear" ELSE "insert",
               [arg[r] EXCEPT !.med = m])
  /\ UNCHANGED <<media, photo, gone, torn, half>>

(* PATCH /media/:id/primary, for the media of a vehicle *)
OpenSetPrimary(r, u, m) ==
  /\ Live(m) /\ media[m].of \in Vehicles
  /\ Resolves(media[m].of) /\ assertAccess(u, media[m].of)
  /\ Meets(r, "clear", [NoArgs EXCEPT !.op = "set", !.of = media[m].of,
                                      !.primary = TRUE, !.med = m])

ClearNothing(r) ==  \* mutant: the old primary one is left as it is
  /\ pc[r] = "clear"
  /\ Goto(r, IF arg[r].op = "upload" THEN "insert" ELSE "flag", arg[r])
  /\ UNCHANGED <<tables, torn, half>>

(* clearPrimaryForEntity *)
Clear(r) ==
  /\ pc[r] = "clear"
  /\ media' = [m \in MediaIds |-> IF m \in Primaries(arg[r].of)
                                  THEN [media[m] EXCEPT !.primary = FALSE] ELSE media[m]]
  /\ Goto(r, IF arg[r].op = "upload" THEN "insert" ELSE "flag", arg[r])
  /\ UNCHANGED <<image, photo, gone, torn, half>>

Insert(r) ==
  /\ pc[r] = "insert"
  /\ media' = [media EXCEPT ![arg[r].med] =
                [st |-> "live", of |-> arg[r].of, by |-> arg[r].by,
                 primary |-> arg[r].primary]]
  /\ IF arg[r].primary THEN Goto(r, "sync", arg[r]) ELSE Finish(r)
  /\ UNCHANGED <<image, photo, gone, torn, half>>

(* setUsagePrimary: an updateMany, of no row when the media is gone *)
Flag(r) ==
  /\ pc[r] = "flag"
  /\ media' = [media EXCEPT ![arg[r].med] =
                IF @.st = "live" THEN [@ EXCEPT !.primary = TRUE] ELSE @]
  /\ Goto(r, "sync", arg[r])
  /\ UNCHANGED <<image, photo, gone, torn, half>>

(* syncPrimary: primaryPhotoId, or the avatar of a profile.  A request that *)
(* met no other has set all of it right.                                    *)
Sync(r) ==
  LET x == arg[r].of IN
  /\ pc[r] = "sync"
  /\ photo' = IF x \in Shown THEN [photo EXCEPT ![x] = arg[r].med] ELSE photo
  /\ torn' = IF arg[r].alone THEN torn \ {x} ELSE torn
  /\ Finish(r)
  /\ UNCHANGED <<media, image, gone, half>>

-----------------------------------------------------------------------------
(* DELETE /media/:id *)

OpenDelete(r, u, m) ==
  /\ pc[r] = "idle"
  /\ Live(m)
  /\ \/ media[m].by = u
     \/ Resolves(media[m].of) /\ hasWorkspaceRole(u, media[m].of)
  /\ Goto(r, "destroy", [NoArgs EXCEPT !.op = "delete", !.med = m])
  /\ UNCHANGED <<tables, torn, half>>

(* CloudinaryService.destroy, which swallows its errors *)
Destroy(r) ==
  LET m == arg[r].med IN
  /\ pc[r] = "destroy"
  /\ \/ image' = [image EXCEPT ![m] = "destroyed"] /\ half' = half \cup {m}
     \/ UNCHANGED <<image, half>>
  /\ Goto(r, "delete", arg[r])
  /\ UNCHANGED <<media, photo, gone, torn>>

DeleteRow(r) ==
  LET m == arg[r].med IN
  /\ pc[r] = "delete" /\ Live(m)
  /\ media' = [media EXCEPT ![m] = FreeMedia]
  /\ half' = half \ {m}
  /\ Finish(r)
  /\ UNCHANGED <<image, photo, gone, torn>>

(* Any await may throw. *)
Fail(r) ==
  /\ pc[r] # "idle"
  /\ torn' = IF arg[r].primary THEN torn \cup {arg[r].of} ELSE torn
  /\ Finish(r)
  /\ UNCHANGED <<tables, half>>

(* Another module deletes the entity, and knows nothing of its media. *)
EntityGoes(x) ==
  /\ x \in Entities \ (Profiles \cup gone)
  /\ gone' = gone \cup {x}
  /\ UNCHANGED <<media, image, photo, torn, half, pc, arg>>

(* The routes of the controller *)
Open(r) ==
  \E u \in Users :
    \/ \E x \in Entities, primary \in BOOLEAN : OpenUpload(r, u, x, primary)
    \/ \E m \in MediaIds : OpenSetPrimary(r, u, m) \/ OpenDelete(r, u, m)

Step(r) ==
  \/ Store(r) \/ Clear(r) \/ Insert(r) \/ Flag(r) \/ Sync(r)
  \/ Destroy(r) \/ DeleteRow(r) \/ Fail(r)

Next ==
  \/ \E x \in Entities : EntityGoes(x)
  \/ \E r \in Requests : Open(r) \/ Step(r)

Spec == Init /\ [][Next]_vars

-----------------------------------------------------------------------------
(* Clearing the old primary photo and setting the new one are two writes,  *)
(* and nothing keeps two uploads apart.  Where none met and none failed,   *)
(* an entity has one primary photo at most; and as each clears what it     *)
(* finds, it never has more of them than there are requests in flight.     *)
OnePrimaryPerRequest ==
  \A x \in Entities :
    /\ x \notin torn => Cardinality(Primaries(x)) <= 1
    /\ Cardinality(Primaries(x)) <= Cardinality(Requests)

(* The usage that is flagged and the vehicle's primaryPhotoId, or a user's  *)
(* avatar, agree once the requests that set them are done, unless two met   *)
(* or one failed; the next one that meets none mends what they left.        *)
PrimaryInStep ==
  \A x \in Shown :
    x \notin torn /\ Changing(x) = {} => Primaries(x) \subseteq {photo[x]}

(* No row shows an image that is gone, except while its deletion is under  *)
(* way or after it failed between the two.                                 *)
RowHasImage == \A m \in MediaIds \ half : Live(m) => image[m] = "stored"

=============================================================================
