---------------------------- MODULE Garage_proofs -----------------------------
(***************************************************************************)
(* What the parts of module Garage keep, for any values of their           *)
(* constants.  That a step of one part leaves the others alone makes the   *)
(* invariant of each one of GarageSpec, at the end.                        *)
(***************************************************************************)
EXTENDS Garage, Sequences, FiniteSetTheorems, WellFoundedInduction, TLAPS

-----------------------------------------------------------------------------
(* Workspaces: what Workspaces_proofs shows, for one request.  Its         *)
(* instance of Workspaces says what that of Garage says.                   *)
WP == INSTANCE Workspaces_proofs WITH
  Users <- People, Requests <- {Caller}, pc <- workspacePc, arg <- workspaceArg

LEMMA WorkspaceReads ==
  /\ \A w : Wo!LiveWorkspace(w) <=> WP!LiveWorkspace(w)
  /\ \A i : Wo!InviteExists(i) <=> WP!InviteExists(i)
  /\ \A m, w, u : Wo!IsMemberRow(m, w, u) <=> WP!IsMemberRow(m, w, u)
  /\ \A w, u : Wo!HasMember(w, u) <=> WP!HasMember(w, u)
  /\ \A w : Wo!MembersOf(w) = WP!MembersOf(w)
  /\ \A i, w : Wo!PendingInvite(i, w) <=> WP!PendingInvite(i, w)
  /\ \A i, r : Wo!LockedByOther(i, r) <=> WP!LockedByOther(i, r)
  /\ \A w, u, r : Wo!InsertedByOther(w, u, r) <=> WP!InsertedByOther(w, u, r)
BY DEF Wo!LiveWorkspace, WP!LiveWorkspace, Wo!InviteExists, WP!InviteExists,
       Wo!IsMemberRow, WP!IsMemberRow, Wo!HasMember, WP!HasMember, Wo!MembersOf,
       WP!MembersOf, Wo!PendingInvite, WP!PendingInvite, Wo!LockedByOther,
       WP!LockedByOther, Wo!InsertedByOther, WP!InsertedByOther, Wo!InAcceptTx,
       WP!InAcceptTx

LEMMA WorkspaceCounts == \A S : Wo!Cardinality(S) = WP!Cardinality(S)
BY DEF Wo!Cardinality, WP!Cardinality

LEMMA WorkspaceStarts ==
  ASSUME NEW r, Wo!Start(r)
  PROVE  WP!Start(r)
<1> USE WorkspaceReads, WorkspaceCounts
    DEF Wo!Continue, WP!Continue, Wo!Finish, WP!Finish, Wo!Answer, WP!Answer, Wo!Goto,
        WP!Goto, Wo!tables, WP!tables, Wo!NoArgs, WP!NoArgs
<1>1. \A u \in People, w \in WorkspaceIds, op \in Wo!Routes :
       Wo!Arrive(r, u, w, op) <=> WP!Arrive(r, u, w, op)
  BY DEF Wo!Arrive, WP!Arrive, Wo!vars, WP!vars
<1>2. \A u \in People, i \in InviteIds, step \in {"accept", "reject"} :
       Wo!OpenInvite(r, u, i, step) <=> WP!OpenInvite(r, u, i, step)
  BY DEF Wo!OpenInvite, WP!OpenInvite
<1>3. \A u \in Closers : Wo!DeleteAccountCheck(r, u) <=> WP!DeleteAccountCheck(r, u)
  BY DEF Wo!DeleteAccountCheck, WP!DeleteAccountCheck, Wo!vars, WP!vars,
         Wo!hasBlockingOwnership, WP!hasBlockingOwnership
<1> QED
  BY <1>1, <1>2, <1>3 DEF Wo!Start, WP!Start, Wo!Routes, WP!Routes

LEMMA WorkspaceHandlers ==
  ASSUME NEW r, Wo!Handler(r)
  PROVE  WP!Handler(r)
<1> USE WorkspaceReads, WorkspaceCounts
    DEF Wo!Continue, WP!Continue, Wo!Finish, WP!Finish, Wo!Answer, WP!Answer, Wo!Goto,
        WP!Goto, Wo!tables, WP!tables, Wo!NoArgs, WP!NoArgs
<1>1. Wo!Guard(r) <=> WP!Guard(r)
  BY DEF Wo!Guard, WP!Guard, Wo!RolesFor, WP!RolesFor, Wo!Roles, WP!Roles
<1>2. Wo!DeleteCheckOwner(r) <=> WP!DeleteCheckOwner(r)
  BY DEF Wo!DeleteCheckOwner, WP!DeleteCheckOwner
<1>3. Wo!DeleteCount(r) <=> WP!DeleteCount(r)
  BY DEF Wo!DeleteCount, WP!DeleteCount
<1>4. Wo!DeleteInvites(r) <=> WP!DeleteInvites(r)
  BY DEF Wo!DeleteInvites, WP!DeleteInvites
<1>5. Wo!DeleteCommit(r) <=> WP!DeleteCommit(r)
  BY DEF Wo!DeleteCommit, WP!DeleteCommit, Wo!GoneInvite, WP!GoneInvite, Wo!FreeInvite,
         WP!FreeInvite
<1>6. Wo!UpdateRoleWrite(r) <=> WP!UpdateRoleWrite(r)
  BY DEF Wo!UpdateRoleWrite, WP!UpdateRoleWrite
<1>7. Wo!RemoveCheckRecords(r) <=> WP!RemoveCheckRecords(r)
  BY DEF Wo!RemoveCheckRecords, WP!RemoveCheckRecords
<1>8. Wo!LeaveFind(r) <=> WP!LeaveFind(r)
  BY DEF Wo!LeaveFind, WP!LeaveFind
<1>9. Wo!DeleteMember(r) <=> WP!DeleteMember(r)
  BY DEF Wo!DeleteMember, WP!DeleteMember, Wo!GoneMember, WP!GoneMember, Wo!FreeMember,
         WP!FreeMember
<1>10. Wo!InviteGetWorkspace(r) <=> WP!InviteGetWorkspace(r)
  BY DEF Wo!InviteGetWorkspace, WP!InviteGetWorkspace
<1>11. Wo!CancelDelete(r) <=> WP!CancelDelete(r)
  BY DEF Wo!CancelDelete, WP!CancelDelete, Wo!WriteInvite, WP!WriteInvite, Wo!GoneInvite,
         WP!GoneInvite, Wo!FreeInvite, WP!FreeInvite
<1>12. Wo!validateInvite(r) <=> WP!validateInvite(r)
  BY DEF Wo!validateInvite, WP!validateInvite
<1>13. Wo!ExpireWrite(r) <=> WP!ExpireWrite(r)
  BY DEF Wo!ExpireWrite, WP!ExpireWrite, Wo!WriteInvite, WP!WriteInvite, Wo!WithStatus,
         WP!WithStatus
<1>14. Wo!RejectWrite(r) <=> WP!RejectWrite(r)
  BY DEF Wo!RejectWrite, WP!RejectWrite, Wo!WriteInvite, WP!WriteInvite, Wo!WithStatus,
         WP!WithStatus
<1>15. Wo!AcceptCheckMember(r) <=> WP!AcceptCheckMember(r)
  BY DEF Wo!AcceptCheckMember, WP!AcceptCheckMember
<1>16. Wo!AcceptUpdate(r) <=> WP!AcceptUpdate(r)
  BY DEF Wo!AcceptUpdate, WP!AcceptUpdate
<1>17. Wo!AcceptInsert(r) <=> WP!AcceptInsert(r)
  BY DEF Wo!AcceptInsert, WP!AcceptInsert
<1>18. Wo!AcceptFind(r) <=> WP!AcceptFind(r)
  BY DEF Wo!AcceptFind, WP!AcceptFind
<1>19. Wo!DeleteAccountWrite(r) <=> WP!DeleteAccountWrite(r)
  BY DEF Wo!DeleteAccountWrite, WP!DeleteAccountWrite
<1>20. Wo!Fail(r) <=> WP!Fail(r)
  BY DEF Wo!Fail, WP!Fail
<1>21. \A m \in MemberIds, role \in GivenRoles :
       Wo!UpdateRoleCheck(r, m, role) <=> WP!UpdateRoleCheck(r, m, role)
  BY DEF Wo!UpdateRoleCheck, WP!UpdateRoleCheck
<1>22. \A m \in MemberIds : Wo!RemoveCheckTarget(r, m) <=> WP!RemoveCheckTarget(r, m)
  BY DEF Wo!RemoveCheckTarget, WP!RemoveCheckTarget
<1>23. \A email \in People :
       Wo!InviteFindPending(r, email) <=> WP!InviteFindPending(r, email)
  BY DEF Wo!InviteFindPending, WP!InviteFindPending
<1>24. \A i \in InviteIds, role \in GivenRoles :
       Wo!InviteCreate(r, i, role) <=> WP!InviteCreate(r, i, role)
  BY DEF Wo!InviteCreate, WP!InviteCreate
<1>25. \A i \in InviteIds : Wo!CancelFind(r, i) <=> WP!CancelFind(r, i)
  BY DEF Wo!CancelFind, WP!CancelFind
<1>26. \A m \in MemberIds : Wo!AcceptCommit(r, m) <=> WP!AcceptCommit(r, m)
  BY DEF Wo!AcceptCommit, WP!AcceptCommit
<1> QED
  BY <1>1, <1>2, <1>3, <1>4, <1>5, <1>6, <1>7, <1>8, <1>9, <1>10, <1>11, <1>12, <1>13,
     <1>14, <1>15, <1>16, <1>17, <1>18, <1>19, <1>20, <1>21, <1>22, <1>23, <1>24,
     <1>25, <1>26
     DEF Wo!Handler, WP!Handler

LEMMA WorkspaceSteps ==
  /\ Wo!Init => WP!Init
  /\ [Wo!Next]_(Wo!vars) => [WP!Next]_(WP!vars)
<1>1. Wo!Init => WP!Init
  BY DEF Wo!Init, WP!Init, Wo!FreeWorkspace, WP!FreeWorkspace, Wo!FreeMember, WP!FreeMember,
         Wo!FreeInvite, WP!FreeInvite, Wo!NoArgs, WP!NoArgs
<1>2. \A u \in People, w \in WorkspaceIds, m \in MemberIds :
       Wo!Create(u, w, m) => WP!Create(u, w, m)
  BY DEF Wo!Create, WP!Create
<1>3. \A i \in InviteIds : Wo!Lapse(i) => WP!Lapse(i)
  BY DEF Wo!Lapse, WP!Lapse
<1>4. Wo!Next => WP!Next
  BY <1>2, <1>3, WorkspaceStarts, WorkspaceHandlers DEF Wo!Next, WP!Next
<1>5. UNCHANGED Wo!vars => UNCHANGED WP!vars
  BY DEF Wo!vars, WP!vars
<1> QED
  BY <1>1, <1>4, <1>5

-----------------------------------------------------------------------------
(* Media.  What the deep steps need to hold: each request carries what it  *)
(* took at its last await, the image of an upload is its own, and of the   *)
(* requests that change the primary photo of one entity each is alone, or  *)
(* the entity is torn.                                                     *)
PhotoSetting == {"store", "clear", "insert", "flag", "sync"}
PhotoDeleting == {"destroy", "delete"}

(* What a request carries at each of its awaits. *)
PhotoShape(r) ==
  /\ mediaPc[r] = "idle" => mediaArg[r] = Me!NoArgs
  /\ mediaPc[r] \in PhotoSetting => mediaArg[r].of \in Entities
  /\ mediaPc[r] \in {"store", "insert"} => mediaArg[r].op = "upload"
  /\ mediaPc[r] = "clear" => mediaArg[r].op \in {"upload", "set"}
  /\ mediaPc[r] = "flag" => mediaArg[r].op = "set"
  /\ mediaPc[r] \in PhotoSetting /\ mediaArg[r].op = "upload" => mediaArg[r].by \in Uploaders
  /\ mediaPc[r] \in {"clear", "flag", "sync"} => mediaArg[r].primary
  /\ mediaPc[r] \in {"clear", "insert", "flag", "sync"} \cup PhotoDeleting
       => mediaArg[r].med \in MediaIds
  /\ mediaPc[r] \in PhotoDeleting => ~mediaArg[r].primary
  /\ mediaArg[r].med # Null => image[mediaArg[r].med] # "none"

(* The image of an upload is in no row yet, and no other request knows it. *)
PhotoReserves(r) == mediaPc[r] \in {"clear", "insert"} /\ mediaArg[r].op = "upload"

PhotoHolds(r) ==
  /\ PhotoReserves(r) => /\ image[mediaArg[r].med] = "stored" /\ ~Me!Live(mediaArg[r].med)
                    /\ \A q \in Requests \ {r} : mediaArg[q].med # mediaArg[r].med
  /\ mediaPc[r] \in {"clear", "flag"} /\ mediaArg[r].op = "set" /\ Me!Live(mediaArg[r].med)
       => media[mediaArg[r].med].of = mediaArg[r].of

PhotoRowsShow ==
  \A m \in MediaIds : Me!Live(m) => image[m] # "none" /\ (m \notin half => image[m] = "stored")

(* The requests that cleared what was primary at x, and are to set theirs *)
PhotoWriting(x) == {r \in Me!Changing(x) : mediaPc[r] \in {"insert", "flag"}}
PhotoCounted(x) ==
  Cardinality(Me!Primaries(x)) + Cardinality(PhotoWriting(x)) <= Cardinality(Requests)

(* One photo is primary at x at most, and it is the one that x names. *)
PhotoSingle(x) == \E p : Me!Primaries(x) \subseteq {p} /\ (x \in Me!Shown => p = photo[x])

PhotoPhase(r, x) ==
  /\ mediaPc[r] \in {"store", "clear"} /\ x \notin torn => PhotoSingle(x)
  /\ mediaPc[r] \in {"insert", "flag"} => Me!Primaries(x) = {}
  /\ mediaPc[r] = "sync" => Me!Primaries(x) \subseteq {mediaArg[r].med}

PhotoInOrder(x) ==
  /\ \A r \in Me!Changing(x) : mediaArg[r].alone => Me!Changing(x) = {r} /\ PhotoPhase(r, x)
  /\ x \notin torn => \A r \in Me!Changing(x) : mediaArg[r].alone
  /\ x \notin torn /\ Me!Changing(x) = {} => PhotoSingle(x)

PhotoInv ==
  /\ Me!TypeOK
  /\ \A r \in Requests : PhotoShape(r) /\ PhotoHolds(r)
  /\ PhotoRowsShow
  /\ \A x \in Entities : PhotoCounted(x) /\ PhotoInOrder(x)

-----------------------------------------------------------------------------
LEMMA PhotoFinite == IsFiniteSet(Requests) /\ IsFiniteSet(MediaIds)
BY GarageAssumption DEF Me!ConstantsAssumption, IsFiniteSet, Me!IsFiniteSet

LEMMA PhotoCardinality == \A S : Me!Cardinality(S) = Cardinality(S)
BY DEF Cardinality, Me!Cardinality

LEMMA PhotoInitInv == Me!Init => PhotoInv
<1> SUFFICES ASSUME Me!Init PROVE PhotoInv
  OBVIOUS
<1>1. Me!NoArgs \in Me!Args /\ Me!NoArgs.med = Null
  BY DEF Me!NoArgs, Me!Args
<1>2. Me!TypeOK
  BY <1>1 DEF Me!Init, Me!TypeOK, Me!Steps
<1>3. \A m : m \in MediaIds => ~Me!Live(m)
  BY DEF Me!Init, Me!Live, Me!FreeMedia
<1>4. \A r \in Requests : PhotoShape(r) /\ PhotoHolds(r)
  BY <1>1 DEF Me!Init, PhotoShape, PhotoHolds, PhotoReserves, PhotoSetting, PhotoDeleting
<1>5. \A x : Me!Primaries(x) = {} /\ Me!Changing(x) = {} /\ PhotoWriting(x) = {}
  BY <1>3 DEF Me!Init, Me!Primaries, Me!Changing, PhotoWriting
<1>6. \A x : PhotoCounted(x)
  <2>1. Cardinality({}) = 0 /\ Cardinality(Requests) \in Nat
    BY PhotoFinite, FS_EmptySet, FS_CardinalityType
  <2> QED
    BY <1>5, <2>1 DEF PhotoCounted
<1>7. \A x : PhotoInOrder(x)
  BY <1>5 DEF PhotoInOrder, PhotoSingle
<1> QED
  BY <1>2, <1>3, <1>4, <1>6, <1>7 DEF PhotoInv, PhotoRowsShow

(* Steps of a request *)
LEMMA PhotoGotoEffect ==
  ASSUME Me!TypeOK, NEW r \in Requests, NEW step \in Me!Steps, NEW a \in Me!Args,
         Me!Goto(r, step, a)
  PROVE  /\ mediaPc' \in [Requests -> Me!Steps] /\ mediaArg' \in [Requests -> Me!Args]
         /\ mediaPc'[r] = step /\ mediaArg'[r] = a
         /\ \A q \in Requests \ {r} : mediaPc'[q] = mediaPc[q] /\ mediaArg'[q] = mediaArg[q]
BY DEF Me!Goto, Me!TypeOK

LEMMA PhotoFinishEffect ==
  ASSUME Me!TypeOK, NEW r \in Requests, Me!Finish(r)
  PROVE  /\ mediaPc' \in [Requests -> Me!Steps] /\ mediaArg' \in [Requests -> Me!Args]
         /\ mediaPc'[r] = "idle" /\ mediaArg'[r] = Me!NoArgs
         /\ \A q \in Requests \ {r} : mediaPc'[q] = mediaPc[q] /\ mediaArg'[q] = mediaArg[q]
<1>1. Me!NoArgs \in Me!Args /\ "idle" \in Me!Steps
  BY DEF Me!NoArgs, Me!Args, Me!Steps
<1> QED
  BY <1>1, PhotoGotoEffect DEF Me!Finish

(* What the steps of r leave to the others *)
PhotoLeaves(r) ==
  /\ \A m \in MediaIds : image[m] # "none" => image'[m] # "none"
  /\ \A m \in MediaIds : m # mediaArg[r].med /\ image[m] = "stored" => image'[m] = "stored"
  /\ \A m \in MediaIds : m # mediaArg[r].med /\ ~Me!Live(m) => ~Me!Live(m)'
  /\ \A m \in MediaIds : Me!Live(m)' /\ ~PhotoReserves(r) => Me!Live(m)
  /\ \A m \in MediaIds : Me!Live(m) /\ Me!Live(m)' => media'[m].of = media[m].of
  /\ \/ mediaArg'[r].med \in {mediaArg[r].med, Null}
     \/ Me!Live(mediaArg'[r].med)
     \/ image[mediaArg'[r].med] = "none"

PhotoSameButAlone(b, a) ==
  b.op = a.op /\ b.of = a.of /\ b.by = a.by /\ b.primary = a.primary /\ b.med = a.med

LEMMA PhotoOthersKeep ==
  ASSUME PhotoInv, NEW r \in Requests, PhotoLeaves(r), NEW q \in Requests \ {r},
         mediaPc'[q] = mediaPc[q], PhotoSameButAlone(mediaArg'[q], mediaArg[q]),
         mediaPc[q] = "idle" => mediaArg'[q] = mediaArg[q],
         \A p \in Requests \ {r, q} : mediaArg'[p].med = mediaArg[p].med
  PROVE  PhotoShape(q)' /\ PhotoHolds(q)'
<1>1. PhotoShape(q) /\ PhotoHolds(q) /\ PhotoShape(r) /\ PhotoHolds(r)
        /\ mediaArg[q] \in Me!Args /\ mediaArg[r] \in Me!Args
  BY DEF PhotoInv, Me!TypeOK
<1>2. mediaArg[q].med \in MediaIds \cup {Null}
  BY <1>1 DEF Me!Args
<1>3. PhotoShape(q)'
  BY <1>1, <1>2 DEF PhotoShape, PhotoSameButAlone, PhotoLeaves
<1>4. PhotoReserves(q)' = PhotoReserves(q)
  BY DEF PhotoReserves, PhotoSameButAlone
<1>5. ASSUME PhotoReserves(q)
      PROVE  /\ image'[mediaArg'[q].med] = "stored" /\ media'[mediaArg'[q].med].st # "live"
             /\ \A p \in Requests \ {q} : mediaArg'[p].med # mediaArg'[q].med
  <2>1. PICK m \in MediaIds : m = mediaArg[q].med
    BY <1>1, <1>5 DEF PhotoReserves, PhotoShape
  <2>2. /\ image[m] = "stored" /\ ~Me!Live(m)
        /\ \A p \in Requests \ {q} : mediaArg[p].med # m
    BY <1>1, <1>5, <2>1 DEF PhotoHolds
  <2>3. mediaArg'[q].med = m
    BY <2>1 DEF PhotoSameButAlone
  <2>4. mediaArg[r].med # m /\ mediaArg'[r].med # m
    BY <2>2, GarageAssumption DEF PhotoLeaves, Me!ConstantsAssumption
  <2>5. image'[m] = "stored" /\ ~Me!Live(m)'
    BY <2>2, <2>4 DEF PhotoLeaves
  <2> QED
    BY <2>2, <2>3, <2>4, <2>5 DEF Me!Live
<1>6. ASSUME mediaPc[q] \in {"clear", "flag"}, mediaArg[q].op = "set",
             media'[mediaArg'[q].med].st = "live"
      PROVE  media'[mediaArg'[q].med].of = mediaArg'[q].of
  <2>1. PICK m \in MediaIds : m = mediaArg[q].med
    BY <1>1, <1>6 DEF PhotoShape
  <2>2. mediaArg'[q].med = m /\ mediaArg'[q].of = mediaArg[q].of
    BY <2>1 DEF PhotoSameButAlone
  <2>3. Me!Live(m)'
    BY <1>6, <2>2 DEF Me!Live
  <2>4. Me!Live(m)
    <3>1. CASE PhotoReserves(r)
      <4>1. mediaArg[r].med # m
        BY <1>1, <2>1, <3>1 DEF PhotoHolds
      <4> QED
        BY <2>3, <4>1 DEF PhotoLeaves
    <3>2. CASE ~PhotoReserves(r)
      BY <2>3, <3>2 DEF PhotoLeaves
    <3> QED
      BY <3>1, <3>2
  <2>5. media[m].of = mediaArg[q].of
    BY <1>1, <1>6, <2>1, <2>4 DEF PhotoHolds
  <2> QED
    BY <2>2, <2>3, <2>4, <2>5 DEF PhotoLeaves
<1>7. mediaPc'[q] \in {"clear", "flag"} /\ mediaArg'[q].op = "set"
        <=> mediaPc[q] \in {"clear", "flag"} /\ mediaArg[q].op = "set"
  BY DEF PhotoSameButAlone
<1>8. PhotoHolds(q)'
  BY <1>4, <1>5, <1>6, <1>7 DEF PhotoHolds, Me!Live
<1> QED
  BY <1>3, <1>8

(* How many are primary *)
LEMMA PhotoPrimariesFinite ==
  \A x : /\ IsFiniteSet(Me!Primaries(x)) /\ Cardinality(Me!Primaries(x)) \in Nat
         /\ IsFiniteSet(PhotoWriting(x)) /\ Cardinality(PhotoWriting(x)) \in Nat
         /\ Cardinality(PhotoWriting(x)) <= Cardinality(Requests)
         /\ Cardinality(Requests) \in Nat
<1> TAKE x
<1>1. Me!Primaries(x) \in SUBSET MediaIds /\ PhotoWriting(x) \in SUBSET Requests
  BY DEF Me!Primaries, PhotoWriting, Me!Changing
<1>2. IsFiniteSet(Me!Primaries(x)) /\ IsFiniteSet(PhotoWriting(x))
      /\ Cardinality(PhotoWriting(x)) <= Cardinality(Requests)
  BY <1>1, PhotoFinite, FS_Subset
<1> QED
  BY <1>2, PhotoFinite, FS_CardinalityType

LEMMA PhotoCountedKept ==
  ASSUME NEW x, PhotoCounted(x), Me!Primaries(x)' \subseteq Me!Primaries(x),
         PhotoWriting(x)' \subseteq PhotoWriting(x)
  PROVE  PhotoCounted(x)'
<1> DEFINE P == Me!Primaries(x)
           Q == Me!Primaries(x)'
           V == PhotoWriting(x)
           W == PhotoWriting(x)'
<1>1. IsFiniteSet(P) /\ IsFiniteSet(V) /\ Cardinality(P) \in Nat /\ Cardinality(V) \in Nat
      /\ Cardinality(Requests) \in Nat
      /\ Cardinality(P) + Cardinality(V) <= Cardinality(Requests)
  BY PhotoPrimariesFinite DEF PhotoCounted
<1>2. Q \in SUBSET P /\ W \in SUBSET V
  OBVIOUS
<1> HIDE DEF P, Q, V, W
<1>3. /\ Cardinality(Q) <= Cardinality(P) /\ Cardinality(W) <= Cardinality(V)
      /\ IsFiniteSet(Q) /\ IsFiniteSet(W)
  BY <1>1, <1>2, FS_Subset
<1>4. Cardinality(Q) \in Nat /\ Cardinality(W) \in Nat
  BY <1>3, FS_CardinalityType
<1>5. Cardinality(Q) + Cardinality(W) <= Cardinality(Requests)
  BY <1>1, <1>3, <1>4
<1> QED
  BY <1>5 DEF PhotoCounted, Q, W

(* One that cleared sets its own. *)
LEMMA PhotoCountedMoved ==
  ASSUME NEW x, NEW r, NEW m, PhotoCounted(x), r \in PhotoWriting(x),
         Me!Primaries(x)' \subseteq Me!Primaries(x) \cup {m},
         PhotoWriting(x)' \subseteq PhotoWriting(x) \ {r}
  PROVE  PhotoCounted(x)'
<1> DEFINE P == Me!Primaries(x)
           Q == Me!Primaries(x)'
           V == PhotoWriting(x)
           W == PhotoWriting(x)'
<1>1. IsFiniteSet(P) /\ IsFiniteSet(V) /\ Cardinality(P) \in Nat /\ Cardinality(V) \in Nat
      /\ Cardinality(Requests) \in Nat
      /\ Cardinality(P) + Cardinality(V) <= Cardinality(Requests)
  BY PhotoPrimariesFinite DEF PhotoCounted
<1>2. Q \in SUBSET (P \cup {m}) /\ W \in SUBSET (V \ {r}) /\ r \in V
  OBVIOUS
<1> HIDE DEF P, Q, V, W
<1>3. IsFiniteSet(P \cup {m}) /\ Cardinality(P \cup {m}) <= Cardinality(P) + 1
  <2>1. /\ IsFiniteSet(P \cup {m})
        /\ Cardinality(P \cup {m}) = IF m \in P THEN Cardinality(P) ELSE Cardinality(P) + 1
    BY <1>1, FS_AddElement
  <2> QED
    BY <1>1, <2>1
<1>4. IsFiniteSet(V \ {r}) /\ Cardinality(V \ {r}) = Cardinality(V) - 1
  BY <1>1, <1>2, FS_RemoveElement
<1>5. Cardinality(P \cup {m}) \in Nat /\ Cardinality(V \ {r}) \in Nat
  BY <1>3, <1>4, FS_CardinalityType
<1>6. /\ Cardinality(Q) <= Cardinality(P \cup {m}) /\ Cardinality(W) <= Cardinality(V \ {r})
      /\ IsFiniteSet(Q) /\ IsFiniteSet(W)
  BY <1>2, <1>3, <1>4, FS_Subset
<1>7. Cardinality(Q) \in Nat /\ Cardinality(W) \in Nat
  BY <1>6, FS_CardinalityType
<1>8. Cardinality(Q) + Cardinality(W) <= Cardinality(Requests)
  BY <1>1, <1>3, <1>4, <1>5, <1>6, <1>7
<1> QED
  BY <1>8 DEF PhotoCounted, Q, W

LEMMA PhotoCountedCleared ==
  ASSUME NEW x, Me!Primaries(x)' = {}
  PROVE  PhotoCounted(x)'
<1>1. PhotoWriting(x)' \in SUBSET Requests
  BY DEF PhotoWriting, Me!Changing
<1> DEFINE W == PhotoWriting(x)'
<1> HIDE DEF W
<1>2. W \in SUBSET Requests
  BY <1>1 DEF W
<1>3. IsFiniteSet(W) /\ Cardinality(W) <= Cardinality(Requests)
  BY <1>2, PhotoFinite, FS_Subset
<1>4. Cardinality(W) \in Nat /\ Cardinality({}) = 0
  BY <1>3, FS_CardinalityType, FS_EmptySet
<1>5. Cardinality({}) + Cardinality(W) <= Cardinality(Requests)
  BY <1>3, <1>4
<1> QED
  BY <1>5 DEF PhotoCounted, W

(* Which one is primary *)
PhotoOthersStand(r) ==
  \A q \in Requests \ {r} : mediaPc'[q] = mediaPc[q] /\ mediaArg'[q] = mediaArg[q]

LEMMA PhotoInOrderKept ==
  ASSUME NEW x, NEW r, PhotoOthersStand(r), r \notin Me!Changing(x), r \notin Me!Changing(x)',
         Me!Primaries(x)' \subseteq Me!Primaries(x), x \in torn' <=> x \in torn,
         x \in Me!Shown => photo'[x] = photo[x], PhotoInOrder(x)
  PROVE  PhotoInOrder(x)'
<1>1. Me!Changing(x)' = Me!Changing(x)
  BY DEF Me!Changing, PhotoOthersStand
<1>2. \A q \in Me!Changing(x) : mediaPc'[q] = mediaPc[q] /\ mediaArg'[q] = mediaArg[q]
  BY DEF Me!Changing, PhotoOthersStand
<1>3. PhotoSingle(x) => PhotoSingle(x)'
  BY DEF PhotoSingle, Me!Shown
<1>4. \A q \in Me!Changing(x) : PhotoPhase(q, x) => PhotoPhase(q, x)'
  BY <1>2, <1>3 DEF PhotoPhase
<1> QED
  BY <1>1, <1>2, <1>3, <1>4 DEF PhotoInOrder

LEMMA PhotoInOrderOwn ==
  ASSUME NEW x, NEW r, PhotoOthersStand(r), r \in Me!Changing(x), r \in Me!Changing(x)',
         mediaArg'[r].alone = mediaArg[r].alone, x \in torn' <=> x \in torn,
         mediaArg[r].alone => PhotoPhase(r, x)', PhotoInOrder(x)
  PROVE  PhotoInOrder(x)'
<1>1. Me!Changing(x)' = Me!Changing(x)
  BY DEF Me!Changing, PhotoOthersStand
<1>2. ASSUME NEW q \in Me!Changing(x), mediaArg'[q].alone
      PROVE Me!Changing(x)' = {q} /\ PhotoPhase(q, x)'
  <2>1. mediaArg[q].alone
    BY <1>2 DEF Me!Changing, PhotoOthersStand
  <2>2. Me!Changing(x) = {q} /\ q = r
    BY <1>2, <2>1 DEF PhotoInOrder
  <2> QED
    BY <1>1, <2>1, <2>2
<1>3. \A q \in Me!Changing(x) : mediaArg[q].alone => mediaArg'[q].alone
  BY DEF Me!Changing, PhotoOthersStand
<1> QED
  BY <1>1, <1>2, <1>3 DEF PhotoInOrder

LEMMA PhotoInOrderLeft ==
  ASSUME NEW x, NEW r, PhotoOthersStand(r), r \in Me!Changing(x), r \notin Me!Changing(x)',
         x \in torn' \/ (mediaArg[r].alone /\ PhotoSingle(x)'), PhotoInOrder(x)
  PROVE  PhotoInOrder(x)'
<1>1. Me!Changing(x)' = Me!Changing(x) \ {r}
  BY DEF Me!Changing, PhotoOthersStand
<1>2. ASSUME NEW q \in Me!Changing(x), q # r, mediaArg'[q].alone PROVE FALSE
  <2>1. mediaArg[q].alone
    BY <1>2 DEF Me!Changing, PhotoOthersStand
  <2> QED
    BY <1>2, <2>1 DEF PhotoInOrder
<1>3. CASE x \in torn'
  BY <1>1, <1>2, <1>3 DEF PhotoInOrder
<1>4. CASE mediaArg[r].alone /\ PhotoSingle(x)'
  <2>1. Me!Changing(x)' = {}
    BY <1>1, <1>4 DEF PhotoInOrder
  <2> QED
    BY <1>4, <2>1 DEF PhotoInOrder
<1> QED
  BY <1>3, <1>4

-----------------------------------------------------------------------------
PhotoMet(r, step, a) ==
  /\ mediaPc[r] = "idle" /\ mediaPc' \in [Requests -> Me!Steps]
  /\ mediaArg' \in [Requests -> Me!Args]
  /\ mediaPc'[r] = step /\ PhotoSameButAlone(mediaArg'[r], a)
  /\ mediaArg'[r].alone = (a.primary /\ Me!Changing(a.of) = {})
  /\ \A q \in Requests \ {r} :
       /\ mediaPc'[q] = mediaPc[q] /\ PhotoSameButAlone(mediaArg'[q], mediaArg[q])
       /\ IF q \in Me!Changing(a.of) /\ a.primary THEN mediaArg'[q].alone = FALSE
                                               ELSE mediaArg'[q] = mediaArg[q]
  /\ torn' = IF a.primary /\ Me!Changing(a.of) # {} THEN torn \cup {a.of} ELSE torn
  /\ UNCHANGED <<media, image, photo, lostEntities, half>>

LEMMA PhotoMeetsEffect ==
  ASSUME Me!TypeOK, NEW r \in Requests, NEW step \in Me!Steps, NEW a \in Me!Args,
         Me!Meets(r, step, a)
  PROVE  PhotoMet(r, step, a)
<1> DEFINE others == Me!Changing(a.of)
           own == [a EXCEPT !.alone = a.primary /\ others = {}]
           met(q) == [mediaArg[q] EXCEPT !.alone = FALSE]
<1>1. /\ mediaPc[r] = "idle" /\ mediaPc' = [mediaPc EXCEPT ![r] = step]
      /\ mediaArg' = [q \in Requests |-> IF q = r THEN own
                                    ELSE IF q \in others /\ a.primary THEN met(q)
                                      ELSE mediaArg[q]]
      /\ torn' = IF a.primary /\ others # {} THEN torn \cup {a.of} ELSE torn
      /\ UNCHANGED <<media, image, photo, lostEntities, half>>
  BY DEF Me!Meets, Me!tables
<1>2. own \in Me!Args /\ PhotoSameButAlone(own, a) /\ own.alone = (a.primary /\ others = {})
  <2> DEFINE b == (a.primary /\ others = {})
  <2>1. b \in BOOLEAN
    BY DEF Me!Args
  <2> HIDE DEF b, others
  <2>2. own = [a EXCEPT !.alone = b]
    BY DEF b
  <2> HIDE DEF own
  <2>3. own \in Me!Args /\ PhotoSameButAlone(own, a) /\ own.alone = b
    BY <2>1, <2>2 DEF Me!Args, PhotoSameButAlone
  <2> QED
    BY <2>3 DEF b
<1>3. \A q \in Requests : met(q) \in Me!Args /\ PhotoSameButAlone(met(q), mediaArg[q])
        /\ met(q).alone = FALSE
  BY DEF Me!TypeOK, Me!Args, PhotoSameButAlone
<1>4. \A q : PhotoSameButAlone(mediaArg[q], mediaArg[q])
  BY DEF PhotoSameButAlone
<1>5. \A q \in Requests : mediaArg[q] \in Me!Args
  BY DEF Me!TypeOK
<1> HIDE DEF own, met, others
<1>6. mediaArg' \in [Requests -> Me!Args]
  BY <1>1, <1>2, <1>3, <1>5
<1>7. mediaArg'[r] = own /\ \A q \in Requests \ {r} :
        mediaArg'[q] = IF q \in others /\ a.primary THEN met(q) ELSE mediaArg[q]
  BY <1>1
<1>8. mediaPc' \in [Requests -> Me!Steps] /\ mediaPc'[r] = step /\ \A q \in Requests \ {r} :
        mediaPc'[q] = mediaPc[q]
  BY <1>1 DEF Me!TypeOK
<1>9. \A q \in Requests \ {r} : PhotoSameButAlone(mediaArg'[q], mediaArg[q])
  BY <1>3, <1>4, <1>7
<1>10. \A q \in Requests \ {r} : IF q \in others /\ a.primary THEN mediaArg'[q].alone = FALSE
                                                           ELSE mediaArg'[q] = mediaArg[q]
  BY <1>3, <1>7
<1>11. PhotoSameButAlone(mediaArg'[r], a) /\ mediaArg'[r].alone = (a.primary /\ others = {})
  BY <1>2, <1>7
<1> QED
  BY <1>1, <1>6, <1>8, <1>9, <1>10, <1>11 DEF others, PhotoMet

LEMMA PhotoMeetsInv ==
  ASSUME PhotoInv, NEW r \in Requests, NEW step \in {"store", "clear"}, NEW a \in Me!Args,
         Me!Meets(r, step, a), a.of \in Entities,
         \/ step = "store" /\ a.op = "upload" /\ a.by \in Uploaders /\ a.med = Null
         \/ /\ step = "clear" /\ a.op = "set" /\ a.primary
            /\ a.med \in MediaIds /\ Me!Live(a.med) /\ media[a.med].of = a.of
  PROVE  PhotoInv'
<1>e. PhotoMet(r, step, a)
  <2>1. Me!TypeOK /\ step \in Me!Steps
    BY DEF PhotoInv, Me!Steps
  <2> QED
    BY <2>1, PhotoMeetsEffect
<1> USE DEF PhotoMet
<1>s. PhotoShape(r)
  BY DEF PhotoInv
<1>0. Me!TypeOK /\ PhotoRowsShow /\ mediaArg[r] = Me!NoArgs /\ mediaArg[r].med = Null
      /\ \A x \in Entities : PhotoCounted(x) /\ PhotoInOrder(x)
  BY <1>e, <1>s DEF PhotoInv, PhotoShape, Me!NoArgs
<1>1. Me!TypeOK'
  BY <1>e, <1>0 DEF Me!TypeOK, Me!Shown
<1>2. /\ PhotoShape(r)' /\ PhotoHolds(r)'
  <2>1. /\ mediaArg'[r].op = a.op /\ mediaArg'[r].of = a.of /\ mediaArg'[r].by = a.by
        /\ mediaArg'[r].primary = a.primary /\ mediaArg'[r].med = a.med
    BY <1>e DEF PhotoSameButAlone
  <2>2. step = "clear" => image[a.med] # "none"
    BY <1>0 DEF PhotoRowsShow
  <2>3. PhotoShape(r)'
    BY <1>e, <2>1, <2>2 DEF PhotoShape, PhotoSetting, PhotoDeleting
  <2>4. PhotoHolds(r)'
    BY <1>e, <2>1 DEF PhotoHolds, PhotoReserves, Me!Live
  <2> QED
    BY <2>3, <2>4
<1>3. ASSUME NEW q \in Requests \ {r} PROVE PhotoShape(q)' /\ PhotoHolds(q)'
  <2>1. mediaArg'[r].med = a.med
    BY <1>e DEF PhotoSameButAlone
  <2>2. PhotoLeaves(r)
    BY <1>e, <1>0, <2>1 DEF PhotoLeaves, Me!Live
  <2>3. mediaPc[q] = "idle" => q \notin Me!Changing(a.of)
    BY DEF Me!Changing
  <2>4. \A p \in Requests \ {r, q} : mediaArg'[p].med = mediaArg[p].med
    BY <1>e DEF PhotoSameButAlone
  <2> QED
    BY <1>e, <2>2, <2>3, <2>4, PhotoOthersKeep
<1>4. PhotoRowsShow'
  BY <1>e, <1>0 DEF PhotoRowsShow, Me!Live
<1>5. \A x : Me!Primaries(x)' = Me!Primaries(x)
  BY <1>e DEF Me!Primaries, Me!Live
<1>6. \A x : PhotoWriting(x)' = PhotoWriting(x)
  BY <1>e DEF PhotoWriting, Me!Changing, PhotoSameButAlone
<1>7. \A x \in Entities : PhotoCounted(x)'
  BY <1>0, <1>5, <1>6, PhotoCountedKept
<1>8. ASSUME NEW x \in Entities PROVE PhotoInOrder(x)'
  <2>1. CASE ~(a.primary /\ x = a.of)
    <3>1. Me!Changing(x)' = Me!Changing(x)
      BY <1>e, <2>1 DEF Me!Changing, PhotoSameButAlone
    <3>2. \A q \in Me!Changing(x) : q # r /\ mediaArg'[q] = mediaArg[q]
            /\ mediaPc'[q] = mediaPc[q]
      BY <1>e, <2>1 DEF Me!Changing
    <3>3. x \in torn' <=> x \in torn
      BY <1>e, <2>1
    <3>4. PhotoSingle(x)' = PhotoSingle(x)
      BY <1>e, <1>5 DEF PhotoSingle, Me!Shown
    <3>5. \A q \in Me!Changing(x) : PhotoPhase(q, x) => PhotoPhase(q, x)'
      BY <1>5, <3>2, <3>3, <3>4 DEF PhotoPhase
    <3> QED
      BY <1>0, <3>1, <3>2, <3>3, <3>4, <3>5 DEF PhotoInOrder
  <2>2. CASE a.primary /\ x = a.of
    <3>1. Me!Changing(x)' = Me!Changing(x) \cup {r}
      BY <1>e, <2>2 DEF Me!Changing, PhotoSameButAlone
    <3>2. r \notin Me!Changing(x)
      BY <1>e DEF Me!Changing
    <3>3. CASE Me!Changing(x) = {}
      <4>1. torn' = torn /\ mediaArg'[r].alone
        BY <1>e, <2>2, <3>3
      <4>2. x \notin torn => PhotoSingle(x)'
        BY <1>e, <1>0, <1>5, <3>3 DEF PhotoInOrder, PhotoSingle, Me!Shown
      <4>3. PhotoPhase(r, x)'
        BY <1>e, <4>1, <4>2 DEF PhotoPhase
      <4> QED
        BY <3>1, <3>3, <4>1, <4>3 DEF PhotoInOrder
    <3>4. CASE Me!Changing(x) # {}
      <4>1. x \in torn'
        BY <1>e, <2>2, <3>4
      <4>2. \A q \in Me!Changing(x)' : ~mediaArg'[q].alone
        <5>1. ~mediaArg'[r].alone
          BY <1>e, <2>2, <3>4
        <5>2. \A q \in Me!Changing(x) : ~mediaArg'[q].alone
          BY <1>e, <2>2, <3>2 DEF Me!Changing
        <5> QED
          BY <3>1, <5>1, <5>2
      <4> QED
        BY <3>1, <4>1, <4>2 DEF PhotoInOrder
    <3> QED
      BY <3>3, <3>4
  <2> QED
    BY <2>1, <2>2
<1> QED
  BY <1>1, <1>2, <1>3, <1>4, <1>7, <1>8 DEF PhotoInv

-----------------------------------------------------------------------------
LEMMA PhotoAssembled ==
  ASSUME PhotoInv, NEW r \in Requests, Me!TypeOK', PhotoOthersStand(r), PhotoLeaves(r),
         PhotoShape(r)', PhotoHolds(r)',
         PhotoRowsShow', \A x \in Entities : PhotoCounted(x)' /\ PhotoInOrder(x)'
  PROVE  PhotoInv'
<1>1. ASSUME NEW q \in Requests \ {r} PROVE PhotoShape(q)' /\ PhotoHolds(q)'
  <2>1. mediaPc'[q] = mediaPc[q] /\ mediaArg'[q] = mediaArg[q]
          /\ PhotoSameButAlone(mediaArg'[q], mediaArg[q])
        /\ \A p \in Requests \ {r, q} : mediaArg'[p].med = mediaArg[p].med
    BY DEF PhotoOthersStand, PhotoSameButAlone
  <2> QED
    BY <2>1, PhotoOthersKeep
<1> QED
  BY <1>1 DEF PhotoInv

(* A request that changes nothing of what is primary *)
LEMMA PhotoBeside ==
  ASSUME PhotoInv, NEW r \in Requests, PhotoOthersStand(r), ~mediaArg[r].primary,
         ~mediaArg'[r].primary,
         UNCHANGED <<photo, torn>>,
         \A x \in Entities : Me!Primaries(x)' \subseteq Me!Primaries(x)
  PROVE  \A x \in Entities : PhotoCounted(x)' /\ PhotoInOrder(x)'
<1> TAKE x \in Entities
<1>1. r \notin Me!Changing(x) /\ r \notin Me!Changing(x)'
  BY DEF Me!Changing
<1>2. PhotoWriting(x)' = PhotoWriting(x)
  BY DEF PhotoWriting, Me!Changing, PhotoOthersStand
<1>3. PhotoCounted(x)'
  BY <1>2, PhotoCountedKept DEF PhotoInv
<1>4. PhotoInOrder(x)'
  BY <1>1, PhotoInOrderKept DEF PhotoInv
<1> QED
  BY <1>3, <1>4

LEMMA PhotoOpenDeleteInv ==
  ASSUME PhotoInv, NEW r \in Requests, NEW u \in Uploaders, NEW m \in MediaIds,
         Me!OpenDelete(r, u, m)
  PROVE  PhotoInv'
<1> DEFINE a == [Me!NoArgs EXCEPT !.op = "delete", !.med = m]
<1>1. /\ mediaPc[r] = "idle" /\ Me!Live(m) /\ Me!Goto(r, "destroy", a)
      /\ UNCHANGED <<media, image, photo, lostEntities, torn, half>>
  BY DEF Me!OpenDelete, Me!tables
<1>2. a \in Me!Args /\ a.med = m /\ a.primary = FALSE
  BY DEF Me!NoArgs, Me!Args
<1> HIDE DEF a
<1>3. Me!TypeOK /\ PhotoRowsShow /\ PhotoShape(r)
  BY DEF PhotoInv
<1>4. /\ mediaPc' \in [Requests -> Me!Steps] /\ mediaArg' \in [Requests -> Me!Args]
      /\ mediaPc'[r] = "destroy" /\ mediaArg'[r] = a /\ PhotoOthersStand(r)
  <2>1. "destroy" \in Me!Steps
    BY DEF Me!Steps
  <2> QED
    BY <1>1, <1>2, <1>3, <2>1, PhotoGotoEffect DEF PhotoOthersStand
<1>5. ~mediaArg[r].primary
  BY <1>1, <1>3 DEF PhotoShape, Me!NoArgs
<1>6. Me!TypeOK'
  BY <1>1, <1>3, <1>4 DEF Me!TypeOK, Me!Shown
<1>7. PhotoShape(r)'
  BY <1>1, <1>2, <1>3, <1>4 DEF PhotoShape, PhotoSetting, PhotoDeleting, PhotoRowsShow
<1>8. PhotoHolds(r)'
  BY <1>4 DEF PhotoHolds, PhotoReserves
<1>9. PhotoLeaves(r)
  BY <1>1, <1>2, <1>4 DEF PhotoLeaves, Me!Live
<1>10. PhotoRowsShow'
  BY <1>1, <1>3 DEF PhotoRowsShow, Me!Live
<1>11. \A x \in Entities : PhotoCounted(x)' /\ PhotoInOrder(x)'
  <2>1. \A x \in Entities : Me!Primaries(x)' \subseteq Me!Primaries(x)
    BY <1>1 DEF Me!Primaries, Me!Live
  <2> QED
    BY <1>1, <1>2, <1>4, <1>5, <2>1, PhotoBeside
<1> QED
  BY <1>4, <1>6, <1>7, <1>8, <1>9, <1>10, <1>11, PhotoAssembled

LEMMA PhotoStoreInv ==
  ASSUME PhotoInv, NEW r \in Requests, Me!Store(r)
  PROVE  PhotoInv'
<1>1. PICK m \in MediaIds :
        /\ mediaPc[r] = "store" /\ image[m] = "none" /\ image' = [image EXCEPT ![m] = "stored"]
        /\ Me!Goto(r, IF mediaArg[r].primary THEN "clear" ELSE "insert",
                   [mediaArg[r] EXCEPT !.med = m])
        /\ UNCHANGED <<media, photo, lostEntities, torn, half>>
  BY DEF Me!Store
<1>3. Me!TypeOK /\ PhotoRowsShow /\ PhotoShape(r) /\ mediaArg[r] \in Me!Args
  BY DEF PhotoInv, Me!TypeOK
<1> DEFINE a == [mediaArg[r] EXCEPT !.med = m]
<1>2. /\ a \in Me!Args /\ a.med = m /\ a.primary = mediaArg[r].primary /\ a.of = mediaArg[r].of
      /\ a.op = mediaArg[r].op /\ a.by = mediaArg[r].by /\ a.alone = mediaArg[r].alone
  BY <1>3 DEF Me!Args
<1>g. Me!Goto(r, IF mediaArg[r].primary THEN "clear" ELSE "insert", a)
  BY <1>1
<1> HIDE DEF a
<1>4. /\ mediaPc' \in [Requests -> Me!Steps] /\ mediaArg' \in [Requests -> Me!Args]
      /\ mediaPc'[r] = (IF mediaArg[r].primary THEN "clear" ELSE "insert") /\ mediaArg'[r] = a
      /\ PhotoOthersStand(r)
  <2>1. (IF mediaArg[r].primary THEN "clear" ELSE "insert") \in Me!Steps
    BY DEF Me!Steps
  <2> QED
    BY <1>g, <1>2, <1>3, <2>1, PhotoGotoEffect DEF PhotoOthersStand
<1>i. image'[m] = "stored" /\ \A n \in MediaIds \ {m} : image'[n] = image[n]
  BY <1>1, <1>3 DEF Me!TypeOK
<1>6. Me!TypeOK'
  BY <1>1, <1>3, <1>4 DEF Me!TypeOK, Me!Shown
<1>7. PhotoShape(r)'
  BY <1>1, <1>2, <1>3, <1>4, <1>i DEF PhotoShape, PhotoSetting, PhotoDeleting
<1>8. PhotoHolds(r)'
  <2>1. ~Me!Live(m)
    BY <1>1, <1>3 DEF PhotoRowsShow
  <2>2. mediaArg'[r].op = "upload" /\ mediaArg'[r].med = m /\ media' = media
    BY <1>1, <1>2, <1>3, <1>4 DEF PhotoShape
  <2>3. \A q \in Requests \ {r} : mediaArg'[q].med # m
    <3> TAKE q \in Requests \ {r}
    <3>1. mediaArg'[q] = mediaArg[q] /\ PhotoShape(q)
      BY <1>4 DEF PhotoOthersStand, PhotoInv
    <3> QED
      BY <1>1, <3>1, GarageAssumption DEF PhotoShape, Me!ConstantsAssumption
  <2> QED
    BY <1>i, <2>1, <2>2, <2>3 DEF PhotoHolds, Me!Live
<1>9. PhotoLeaves(r)
  <2>1. \A n \in MediaIds : image[n] # "none" => image'[n] = image[n]
    BY <1>1, <1>i
  <2>2. mediaArg'[r].med = m
    BY <1>2, <1>4
  <2> QED
    BY <1>1, <2>1, <2>2 DEF PhotoLeaves, Me!Live
<1>10. PhotoRowsShow'
  BY <1>1, <1>3, <1>i DEF PhotoRowsShow, Me!Live
<1>11. ASSUME NEW x \in Entities PROVE PhotoCounted(x)' /\ PhotoInOrder(x)'
  <2>1. Me!Primaries(x)' = Me!Primaries(x) /\ PhotoCounted(x) /\ PhotoInOrder(x)
    BY <1>1 DEF Me!Primaries, Me!Live, PhotoInv
  <2>2. PhotoWriting(x)' = PhotoWriting(x)
    BY <1>1, <1>2, <1>4 DEF PhotoWriting, Me!Changing, PhotoOthersStand
  <2>3. PhotoCounted(x)'
    BY <2>1, <2>2, PhotoCountedKept
  <2>4. CASE r \in Me!Changing(x)
    <3>1. r \in Me!Changing(x)'
      BY <1>2, <1>4, <2>4 DEF Me!Changing
    <3>2. mediaArg[r].alone => PhotoPhase(r, x)'
      <4>1. ASSUME mediaArg[r].alone, x \notin torn PROVE PhotoSingle(x)'
        <5>1. PhotoPhase(r, x)
          BY <2>1, <2>4, <4>1 DEF PhotoInOrder
        <5> QED
          BY <1>1, <2>1, <4>1, <5>1 DEF PhotoPhase, PhotoSingle, Me!Shown
      <4> QED
        BY <1>1, <1>4, <2>4, <4>1 DEF PhotoPhase, Me!Changing
    <3> QED
      BY <1>1, <1>2, <1>4, <2>1, <2>3, <2>4, <3>1, <3>2, PhotoInOrderOwn
  <2>5. CASE r \notin Me!Changing(x)
    <3>1. r \notin Me!Changing(x)'
      BY <1>1, <1>2, <1>4, <2>5 DEF Me!Changing
    <3> QED
      BY <1>1, <1>4, <2>1, <2>3, <2>5, <3>1, PhotoInOrderKept
  <2> QED
    BY <2>4, <2>5
<1> QED
  BY <1>4, <1>6, <1>7, <1>8, <1>9, <1>10, <1>11, PhotoAssembled

LEMMA PhotoClearInv ==
  ASSUME PhotoInv, NEW r \in Requests, Me!Clear(r)
  PROVE  PhotoInv'
<1>1. /\ mediaPc[r] = "clear"
      /\ media' = [m \in MediaIds |-> IF m \in Me!Primaries(mediaArg[r].of)
                                      THEN [media[m] EXCEPT !.primary = FALSE] ELSE media[m]]
      /\ Me!Goto(r, IF mediaArg[r].op = "upload" THEN "insert" ELSE "flag", mediaArg[r])
      /\ UNCHANGED <<image, photo, lostEntities, torn, half>>
  BY DEF Me!Clear
<1>3. Me!TypeOK /\ PhotoRowsShow /\ PhotoShape(r) /\ PhotoHolds(r)
        /\ mediaArg[r] \in Me!Args /\ mediaArg[r].primary
  BY <1>1 DEF PhotoInv, Me!TypeOK, PhotoShape
<1>4. /\ mediaPc' \in [Requests -> Me!Steps] /\ mediaArg' \in [Requests -> Me!Args]
      /\ mediaPc'[r] = (IF mediaArg[r].op = "upload" THEN "insert" ELSE "flag")
           /\ mediaArg'[r] = mediaArg[r]
      /\ PhotoOthersStand(r)
  <2>1. (IF mediaArg[r].op = "upload" THEN "insert" ELSE "flag") \in Me!Steps
    BY DEF Me!Steps
  <2> QED
    BY <1>1, <1>3, <2>1, PhotoGotoEffect DEF PhotoOthersStand
<1>m. /\ \A m \in MediaIds : /\ media'[m] \in Me!MediaRow \cup {Me!FreeMedia}
                             /\ media'[m].st = media[m].st /\ media'[m].of = media[m].of
      /\ \A m \in Me!Primaries(mediaArg[r].of) : media'[m].primary = FALSE
      /\ \A m \in MediaIds \ Me!Primaries(mediaArg[r].of) : media'[m] = media[m]
  <2>1. \A m \in Me!Primaries(mediaArg[r].of) : m \in MediaIds /\ media[m] \in Me!MediaRow
    BY <1>3 DEF Me!Primaries, Me!Live, Me!TypeOK, Me!FreeMedia
  <2>2. ASSUME NEW m \in Me!Primaries(mediaArg[r].of)
        PROVE  /\ media'[m] \in Me!MediaRow /\ media'[m].st = media[m].st
               /\ media'[m].of = media[m].of /\ media'[m].primary = FALSE
    <3>1. media'[m] = [media[m] EXCEPT !.primary = FALSE] /\ media[m] \in Me!MediaRow
      BY <1>1, <2>1
    <3> QED
      BY <3>1 DEF Me!MediaRow
  <2>3. \A m \in MediaIds \ Me!Primaries(mediaArg[r].of) : media'[m] = media[m]
    BY <1>1
  <2> QED
    BY <1>3, <2>1, <2>2, <2>3 DEF Me!TypeOK
<1>6. Me!TypeOK'
  <2>1. media' \in [MediaIds -> Me!MediaRow \cup {Me!FreeMedia}]
    BY <1>1, <1>m
  <2> QED
    BY <1>1, <1>3, <1>4, <2>1 DEF Me!TypeOK, Me!Shown
<1>7. PhotoShape(r)'
  BY <1>1, <1>3, <1>4 DEF PhotoShape, PhotoSetting, PhotoDeleting
<1>l. \A m \in MediaIds : Me!Live(m)' = Me!Live(m)
  BY <1>m DEF Me!Live
<1>8. PhotoHolds(r)'
  <2>1. PICK m \in MediaIds : m = mediaArg[r].med
    BY <1>1, <1>3 DEF PhotoShape
  <2>2. mediaArg[r].op # "upload" => mediaArg[r].op = "set"
    BY <1>1, <1>3 DEF PhotoShape
  <2>3. ASSUME mediaArg[r].op = "upload" PROVE PhotoHolds(r)'
    <3>1. image[m] = "stored" /\ ~Me!Live(m)' /\ \A q \in Requests \ {r} : mediaArg[q].med # m
      BY <1>1, <1>3, <1>l, <2>1, <2>3 DEF PhotoHolds, PhotoReserves
    <3> QED
      BY <1>1, <1>4, <2>1, <2>3, <3>1 DEF PhotoHolds, Me!Live, PhotoOthersStand
  <2>4. ASSUME mediaArg[r].op = "set" PROVE PhotoHolds(r)'
    <3>1. media'[m].st = "live" => media'[m].of = mediaArg[r].of
      BY <1>1, <1>3, <1>m, <2>1, <2>4 DEF PhotoHolds, Me!Live
    <3> QED
      BY <1>4, <2>1, <2>4, <3>1 DEF PhotoHolds, Me!Live, PhotoReserves
  <2> QED
    BY <2>2, <2>3, <2>4
<1>9. PhotoLeaves(r)
  BY <1>1, <1>4, <1>l, <1>m DEF PhotoLeaves
<1>10. PhotoRowsShow'
  BY <1>1, <1>3, <1>l DEF PhotoRowsShow
<1>p. ASSUME NEW x PROVE Me!Primaries(x)' \subseteq Me!Primaries(x)
        /\ (x = mediaArg[r].of => Me!Primaries(x)' = {})
  BY <1>l, <1>m DEF Me!Primaries, Me!Live
<1>11. ASSUME NEW x \in Entities PROVE PhotoCounted(x)' /\ PhotoInOrder(x)'
  <2>1. PhotoCounted(x) /\ PhotoInOrder(x)
    BY DEF PhotoInv
  <2>2. CASE x = mediaArg[r].of
    <3>1. r \in Me!Changing(x) /\ r \in Me!Changing(x)'
      BY <1>1, <1>3, <1>4, <2>2 DEF Me!Changing
    <3>2. PhotoPhase(r, x)'
      BY <1>4, <1>p, <2>2 DEF PhotoPhase
    <3>3. PhotoCounted(x)'
      BY <1>p, <2>2, PhotoCountedCleared
    <3> QED
      BY <1>1, <1>4, <2>1, <3>1, <3>2, <3>3, PhotoInOrderOwn
  <2>3. CASE x # mediaArg[r].of
    <3>1. r \notin Me!Changing(x) /\ r \notin Me!Changing(x)'
      BY <1>4, <2>3 DEF Me!Changing
    <3>2. PhotoWriting(x)' = PhotoWriting(x)
      BY <1>4, <3>1 DEF PhotoWriting, Me!Changing, PhotoOthersStand
    <3>3. PhotoCounted(x)'
      BY <1>p, <2>1, <3>2, PhotoCountedKept
    <3> QED
      BY <1>1, <1>4, <1>p, <2>1, <3>1, <3>3, PhotoInOrderKept
  <2> QED
    BY <2>2, <2>3
<1> QED
  BY <1>4, <1>6, <1>7, <1>8, <1>9, <1>10, <1>11, PhotoAssembled

LEMMA PhotoInsertInv ==
  ASSUME PhotoInv, NEW r \in Requests, Me!Insert(r)
  PROVE  PhotoInv'
<1>0. PICK m \in MediaIds : m = mediaArg[r].med
  BY DEF Me!Insert, PhotoInv, PhotoShape
<1> DEFINE put == [st |-> "live", of |-> mediaArg[r].of, by |-> mediaArg[r].by,
                   primary |-> mediaArg[r].primary]
<1>1. /\ mediaPc[r] = "insert" /\ media' = [media EXCEPT ![m] = put]
      /\ IF mediaArg[r].primary THEN Me!Goto(r, "sync", mediaArg[r]) ELSE Me!Finish(r)
      /\ UNCHANGED <<image, photo, lostEntities, torn, half>>
  BY <1>0 DEF Me!Insert
<1>3. Me!TypeOK /\ PhotoRowsShow /\ PhotoShape(r) /\ PhotoHolds(r) /\ mediaArg[r] \in Me!Args
  BY DEF PhotoInv, Me!TypeOK
<1>2. put \in Me!MediaRow /\ put.st = "live" /\ put.of = mediaArg[r].of
        /\ put.primary = mediaArg[r].primary
  <2>1. mediaArg[r].of \in Entities /\ mediaArg[r].by \in Uploaders
          /\ mediaArg[r].primary \in BOOLEAN
    BY <1>1, <1>3 DEF PhotoShape, PhotoSetting, Me!Args
  <2> QED
    BY <2>1 DEF Me!MediaRow
<1> HIDE DEF put
<1>4. /\ mediaPc' \in [Requests -> Me!Steps] /\ mediaArg' \in [Requests -> Me!Args]
      /\ PhotoOthersStand(r)
      /\ mediaArg[r].primary => mediaPc'[r] = "sync" /\ mediaArg'[r] = mediaArg[r]
      /\ ~mediaArg[r].primary => mediaPc'[r] = "idle" /\ mediaArg'[r] = Me!NoArgs
  <2>1. "sync" \in Me!Steps
    BY DEF Me!Steps
  <2> QED
    BY <1>1, <1>3, <2>1, PhotoGotoEffect, PhotoFinishEffect DEF PhotoOthersStand
<1>n. Me!NoArgs.med = Null /\ ~Me!NoArgs.primary
  BY DEF Me!NoArgs
<1>m. media'[m] = put /\ \A n \in MediaIds \ {m} : media'[n] = media[n]
  BY <1>1, <1>3 DEF Me!TypeOK
<1>h. /\ image[m] = "stored" /\ ~Me!Live(m) /\ PhotoReserves(r)
      /\ \A q \in Requests \ {r} : mediaArg[q].med # m
  BY <1>0, <1>1, <1>3 DEF PhotoHolds, PhotoReserves, PhotoShape
<1>6. Me!TypeOK'
  <2>1. media' \in [MediaIds -> Me!MediaRow \cup {Me!FreeMedia}]
    BY <1>1, <1>2, <1>3 DEF Me!TypeOK
  <2> QED
    BY <1>1, <1>3, <1>4, <2>1 DEF Me!TypeOK, Me!Shown
<1>7. PhotoShape(r)'
  BY <1>1, <1>3, <1>4, <1>n DEF PhotoShape, PhotoSetting, PhotoDeleting
<1>8. PhotoHolds(r)'
  BY <1>4 DEF PhotoHolds, PhotoReserves
<1>9. PhotoLeaves(r)
  <2>1. \A n \in MediaIds : n # m => (Me!Live(n)' = Me!Live(n))
    BY <1>m DEF Me!Live
  <2>2. mediaArg'[r].med \in {mediaArg[r].med, Null}
    BY <1>4, <1>n
  <2> QED
    BY <1>0, <1>1, <1>h, <1>m, <2>1, <2>2 DEF PhotoLeaves, Me!Live
<1>10. PhotoRowsShow'
  BY <1>1, <1>3, <1>h, <1>m DEF PhotoRowsShow, Me!Live
<1>p. ASSUME NEW x
      PROVE  Me!Primaries(x)' = IF mediaArg[r].primary /\ x = mediaArg[r].of
        THEN Me!Primaries(x) \cup {m}
                                                                ELSE Me!Primaries(x)
  BY <1>2, <1>h, <1>m DEF Me!Primaries, Me!Live
<1>11. ASSUME NEW x \in Entities PROVE PhotoCounted(x)' /\ PhotoInOrder(x)'
  <2>1. PhotoCounted(x) /\ PhotoInOrder(x)
    BY DEF PhotoInv
  <2>2. CASE mediaArg[r].primary /\ x = mediaArg[r].of
    <3>1. r \in Me!Changing(x) /\ r \in Me!Changing(x)'
      BY <1>1, <1>4, <2>2 DEF Me!Changing
    <3>2. mediaArg[r].alone => PhotoPhase(r, x)'
      <4>1. ASSUME mediaArg[r].alone PROVE Me!Primaries(x)' \subseteq {m}
        <5>1. PhotoPhase(r, x)
          BY <2>1, <3>1, <4>1 DEF PhotoInOrder
        <5>2. Me!Primaries(x) = {}
          BY <1>1, <5>1 DEF PhotoPhase
        <5> QED
          BY <1>p, <5>2
      <4> QED
        BY <1>0, <1>4, <2>2, <4>1 DEF PhotoPhase
    <3>3. PhotoCounted(x)'
      <4>1. r \in PhotoWriting(x)
        BY <1>1, <3>1 DEF PhotoWriting
      <4>2. PhotoWriting(x)' \subseteq PhotoWriting(x) \ {r}
        BY <1>4, <2>2 DEF PhotoWriting, Me!Changing, PhotoOthersStand
      <4>3. Me!Primaries(x)' \subseteq Me!Primaries(x) \cup {m}
        BY <1>p
      <4> QED
        BY <2>1, <4>1, <4>2, <4>3, PhotoCountedMoved
    <3> QED
      BY <1>1, <1>4, <2>1, <2>2, <3>1, <3>2, <3>3, PhotoInOrderOwn
  <2>3. CASE ~(mediaArg[r].primary /\ x = mediaArg[r].of)
    <3>1. r \notin Me!Changing(x) /\ r \notin Me!Changing(x)'
      BY <1>4, <2>3 DEF Me!Changing
    <3>2. PhotoWriting(x)' = PhotoWriting(x) /\ Me!Primaries(x)' = Me!Primaries(x)
      BY <1>4, <1>p, <2>3, <3>1 DEF PhotoWriting, Me!Changing, PhotoOthersStand
    <3>3. PhotoCounted(x)'
      BY <2>1, <3>2, PhotoCountedKept
    <3> QED
      BY <1>1, <1>4, <2>1, <3>1, <3>2, <3>3, PhotoInOrderKept
  <2> QED
    BY <2>2, <2>3
<1> QED
  BY <1>4, <1>6, <1>7, <1>8, <1>9, <1>10, <1>11, PhotoAssembled

LEMMA PhotoFlagInv ==
  ASSUME PhotoInv, NEW r \in Requests, Me!Flag(r)
  PROVE  PhotoInv'
<1>0. PICK m \in MediaIds : m = mediaArg[r].med
  BY DEF Me!Flag, PhotoInv, PhotoShape
<1> DEFINE flagged == IF media[m].st = "live" THEN [media[m] EXCEPT !.primary = TRUE]
      ELSE media[m]
<1>1. /\ mediaPc[r] = "flag" /\ media' = [media EXCEPT ![m] = flagged]
      /\ Me!Goto(r, "sync", mediaArg[r]) /\ UNCHANGED <<image, photo, lostEntities, torn, half>>
  BY <1>0 DEF Me!Flag
<1>3. Me!TypeOK /\ PhotoRowsShow /\ PhotoShape(r) /\ PhotoHolds(r)
        /\ mediaArg[r] \in Me!Args /\ mediaArg[r].primary
      /\ mediaArg[r].op = "set"
  BY <1>1 DEF PhotoInv, Me!TypeOK, PhotoShape
<1>2. /\ flagged \in Me!MediaRow \cup {Me!FreeMedia} /\ flagged.st = media[m].st
      /\ flagged.of = media[m].of
  <2>1. CASE media[m].st = "live"
    <3>1. media[m] \in Me!MediaRow /\ flagged = [media[m] EXCEPT !.primary = TRUE]
      BY <1>3, <2>1 DEF Me!TypeOK, Me!FreeMedia
    <3> HIDE DEF flagged
    <3> QED
      BY <3>1 DEF Me!MediaRow
  <2>2. CASE media[m].st # "live"
    BY <1>3, <2>2 DEF Me!TypeOK
  <2> QED
    BY <2>1, <2>2
<1> HIDE DEF flagged
<1>4. /\ mediaPc' \in [Requests -> Me!Steps] /\ mediaArg' \in [Requests -> Me!Args]
      /\ PhotoOthersStand(r)
      /\ mediaPc'[r] = "sync" /\ mediaArg'[r] = mediaArg[r]
  <2>1. "sync" \in Me!Steps
    BY DEF Me!Steps
  <2> QED
    BY <1>1, <1>3, <2>1, PhotoGotoEffect DEF PhotoOthersStand
<1>m. media'[m] = flagged /\ \A n \in MediaIds \ {m} : media'[n] = media[n]
  BY <1>1, <1>3 DEF Me!TypeOK
<1>l. \A n \in MediaIds : Me!Live(n)' = Me!Live(n) /\ media'[n].of = media[n].of
  BY <1>2, <1>m DEF Me!Live
<1>o. Me!Live(m) => media[m].of = mediaArg[r].of
  BY <1>0, <1>1, <1>3 DEF PhotoHolds
<1>6. Me!TypeOK'
  <2>1. media' \in [MediaIds -> Me!MediaRow \cup {Me!FreeMedia}]
    BY <1>1, <1>2, <1>3 DEF Me!TypeOK
  <2> QED
    BY <1>1, <1>3, <1>4, <2>1 DEF Me!TypeOK, Me!Shown
<1>7. PhotoShape(r)'
  BY <1>1, <1>3, <1>4 DEF PhotoShape, PhotoSetting, PhotoDeleting
<1>8. PhotoHolds(r)'
  BY <1>4 DEF PhotoHolds, PhotoReserves
<1>9. PhotoLeaves(r)
  BY <1>1, <1>4, <1>l DEF PhotoLeaves
<1>10. PhotoRowsShow'
  BY <1>1, <1>3, <1>l DEF PhotoRowsShow
<1>p. ASSUME NEW x
      PROVE  /\ Me!Primaries(x)' \subseteq Me!Primaries(x) \cup {m}
             /\ x # mediaArg[r].of => Me!Primaries(x)' \subseteq Me!Primaries(x)
  <2>1. \A n \in MediaIds \ {m} : n \in Me!Primaries(x)' => n \in Me!Primaries(x)
    BY <1>m, <1>l DEF Me!Primaries
  <2>2. m \in Me!Primaries(x)' => x = mediaArg[r].of
    BY <1>l, <1>o DEF Me!Primaries
  <2>3. Me!Primaries(x)' \subseteq MediaIds
    BY DEF Me!Primaries
  <2> QED
    BY <2>1, <2>2, <2>3
<1>11. ASSUME NEW x \in Entities PROVE PhotoCounted(x)' /\ PhotoInOrder(x)'
  <2>1. PhotoCounted(x) /\ PhotoInOrder(x)
    BY DEF PhotoInv
  <2>2. CASE x = mediaArg[r].of
    <3>1. r \in Me!Changing(x) /\ r \in Me!Changing(x)'
      BY <1>1, <1>3, <1>4, <2>2 DEF Me!Changing
    <3>2. mediaArg[r].alone => PhotoPhase(r, x)'
      <4>1. ASSUME mediaArg[r].alone PROVE Me!Primaries(x)' \subseteq {m}
        <5>1. PhotoPhase(r, x)
          BY <2>1, <3>1, <4>1 DEF PhotoInOrder
        <5>2. Me!Primaries(x) = {}
          BY <1>1, <5>1 DEF PhotoPhase
        <5> QED
          BY <1>p, <5>2
      <4> QED
        BY <1>0, <1>4, <4>1 DEF PhotoPhase
    <3>3. PhotoCounted(x)'
      <4>1. r \in PhotoWriting(x)
        BY <1>1, <3>1 DEF PhotoWriting
      <4>2. PhotoWriting(x)' \subseteq PhotoWriting(x) \ {r}
        BY <1>4 DEF PhotoWriting, Me!Changing, PhotoOthersStand
      <4> QED
        BY <1>p, <2>1, <4>1, <4>2, PhotoCountedMoved
    <3> QED
      BY <1>1, <1>4, <2>1, <3>1, <3>2, <3>3, PhotoInOrderOwn
  <2>3. CASE x # mediaArg[r].of
    <3>1. r \notin Me!Changing(x) /\ r \notin Me!Changing(x)'
      BY <1>4, <2>3 DEF Me!Changing
    <3>2. PhotoWriting(x)' = PhotoWriting(x)
      BY <1>4, <3>1 DEF PhotoWriting, Me!Changing, PhotoOthersStand
    <3>3. PhotoCounted(x)'
      BY <1>p, <2>1, <2>3, <3>2, PhotoCountedKept
    <3> QED
      BY <1>1, <1>4, <1>p, <2>1, <2>3, <3>1, <3>3, PhotoInOrderKept
  <2> QED
    BY <2>2, <2>3
<1> QED
  BY <1>4, <1>6, <1>7, <1>8, <1>9, <1>10, <1>11, PhotoAssembled

(* A request ends, and the tables stay but for the photo that x names. *)
LEMMA PhotoEndInv ==
  ASSUME PhotoInv, NEW r \in Requests, Me!Finish(r), mediaPc[r] # "idle",
         UNCHANGED <<media, image, lostEntities, half>>, torn' \subseteq Entities,
         photo' \in [Me!Shown -> MediaIds \cup {Null}],
         \A x : ~(mediaArg[r].primary /\ x = mediaArg[r].of)
                  => (x \in torn' <=> x \in torn) /\ (x \in Me!Shown => photo'[x] = photo[x]),
         \A x : mediaArg[r].primary /\ x = mediaArg[r].of
                  => x \in torn' \/ (mediaArg[r].alone /\ PhotoSingle(x)')
  PROVE  PhotoInv'
<1>3. Me!TypeOK /\ PhotoRowsShow
  BY DEF PhotoInv, Me!TypeOK
<1>4. /\ mediaPc' \in [Requests -> Me!Steps] /\ mediaArg' \in [Requests -> Me!Args]
      /\ PhotoOthersStand(r)
      /\ mediaPc'[r] = "idle" /\ mediaArg'[r] = Me!NoArgs
  BY <1>3, PhotoFinishEffect DEF PhotoOthersStand
<1>6. Me!TypeOK'
  BY <1>3, <1>4 DEF Me!TypeOK
<1>7. PhotoShape(r)' /\ PhotoHolds(r)'
  BY <1>4 DEF PhotoShape, PhotoHolds, PhotoReserves, PhotoSetting, PhotoDeleting, Me!NoArgs
<1>9. PhotoLeaves(r)
  BY <1>4 DEF PhotoLeaves, Me!Live, Me!NoArgs
<1>10. PhotoRowsShow'
  BY <1>3 DEF PhotoRowsShow, Me!Live
<1>11. ASSUME NEW x \in Entities PROVE PhotoCounted(x)' /\ PhotoInOrder(x)'
  <2>1. PhotoCounted(x) /\ PhotoInOrder(x) /\ Me!Primaries(x)' = Me!Primaries(x)
    BY DEF PhotoInv, Me!Primaries, Me!Live
  <2>2. r \notin Me!Changing(x)'
    BY <1>4 DEF Me!Changing
  <2>3. PhotoWriting(x)' \subseteq PhotoWriting(x)
    BY <1>4 DEF PhotoWriting, Me!Changing, PhotoOthersStand
  <2>4. PhotoCounted(x)'
    BY <2>1, <2>3, PhotoCountedKept
  <2>5. CASE mediaArg[r].primary /\ x = mediaArg[r].of
    <3>1. r \in Me!Changing(x)
      BY <2>5 DEF Me!Changing
    <3>2. x \in torn' \/ (mediaArg[r].alone /\ PhotoSingle(x)')
      BY <2>5
    <3> QED
      BY <1>4, <2>1, <2>2, <2>4, <3>1, <3>2, PhotoInOrderLeft
  <2>6. CASE ~(mediaArg[r].primary /\ x = mediaArg[r].of)
    <3>1. r \notin Me!Changing(x)
      BY <2>6 DEF Me!Changing
    <3>2. (x \in torn' <=> x \in torn) /\ (x \in Me!Shown => photo'[x] = photo[x])
      BY <2>6
    <3> QED
      BY <1>4, <2>1, <2>2, <2>4, <3>1, <3>2, PhotoInOrderKept
  <2> QED
    BY <2>5, <2>6
<1> QED
  BY <1>4, <1>6, <1>7, <1>9, <1>10, <1>11, PhotoAssembled

LEMMA PhotoSyncInv ==
  ASSUME PhotoInv, NEW r \in Requests, Me!Sync(r)
  PROVE  PhotoInv'
<1>0. PICK x \in Entities : x = mediaArg[r].of
  BY DEF Me!Sync, PhotoInv, PhotoShape, PhotoSetting
<1>1. /\ mediaPc[r] = "sync"
      /\ photo' = IF x \in Me!Shown THEN [photo EXCEPT ![x] = mediaArg[r].med] ELSE photo
      /\ torn' = IF mediaArg[r].alone THEN torn \ {x} ELSE torn
      /\ Me!Finish(r) /\ UNCHANGED <<media, image, lostEntities, half>>
  BY <1>0 DEF Me!Sync
<1>2. Me!TypeOK /\ mediaArg[r].primary /\ mediaArg[r].med \in MediaIds /\ PhotoInOrder(x)
        /\ r \in Me!Changing(x)
  BY <1>0, <1>1 DEF PhotoInv, PhotoShape, Me!Changing
<1>3. torn' \subseteq Entities /\ photo' \in [Me!Shown -> MediaIds \cup {Null}]
  BY <1>1, <1>2 DEF Me!TypeOK
<1>4. \A y : y # x => (y \in torn' <=> y \in torn) /\ (y \in Me!Shown => photo'[y] = photo[y])
  BY <1>1, <1>2 DEF Me!TypeOK
<1>5. x \in torn' \/ (mediaArg[r].alone /\ PhotoSingle(x)')
  <2>1. CASE mediaArg[r].alone
    <3>1. Me!Primaries(x) \subseteq {mediaArg[r].med}
      BY <1>1, <1>2, <2>1 DEF PhotoInOrder, PhotoPhase
    <3>2. Me!Primaries(x)' = Me!Primaries(x)
      BY <1>1 DEF Me!Primaries, Me!Live
    <3>3. x \in Me!Shown => photo'[x] = mediaArg[r].med
      BY <1>1, <1>2 DEF Me!TypeOK
    <3>4. \E p : Me!Primaries(x)' \subseteq {p} /\ (x \in Me!Shown => p = photo'[x])
      BY <3>1, <3>2, <3>3
    <3> QED
      BY <2>1, <3>4 DEF PhotoSingle, Me!Shown
  <2>2. CASE ~mediaArg[r].alone
    BY <1>1, <1>2, <2>2 DEF PhotoInOrder
  <2> QED
    BY <2>1, <2>2
<1>6. \A y : ~(mediaArg[r].primary /\ y = mediaArg[r].of)
               => (y \in torn' <=> y \in torn) /\ (y \in Me!Shown => photo'[y] = photo[y])
  BY <1>0, <1>2, <1>4
<1>7. \A y : mediaArg[r].primary /\ y = mediaArg[r].of
        => y \in torn' \/ (mediaArg[r].alone /\ PhotoSingle(y)')
  BY <1>0, <1>5
<1>8. mediaPc[r] # "idle"
  BY <1>1
<1> QED
  BY <1>1, <1>3, <1>6, <1>7, <1>8, PhotoEndInv

LEMMA PhotoFailInv ==
  ASSUME PhotoInv, NEW r \in Requests, Me!Fail(r)
  PROVE  PhotoInv'
<1>1. /\ mediaPc[r] # "idle" /\ Me!Finish(r)
      /\ UNCHANGED <<media, image, photo, lostEntities, half>>
      /\ torn' = IF mediaArg[r].primary THEN torn \cup {mediaArg[r].of} ELSE torn
  BY DEF Me!Fail, Me!tables
<1>2. Me!TypeOK /\ PhotoShape(r) /\ mediaPc[r] \in Me!Steps
  BY DEF PhotoInv, Me!TypeOK
<1>3. mediaArg[r].primary => mediaArg[r].of \in Entities
  BY <1>1, <1>2 DEF PhotoShape, PhotoSetting, PhotoDeleting, Me!Steps
<1>4. torn' \subseteq Entities /\ photo' \in [Me!Shown -> MediaIds \cup {Null}]
  BY <1>1, <1>2, <1>3 DEF Me!TypeOK
<1>5. \A x : ~(mediaArg[r].primary /\ x = mediaArg[r].of)
               => (x \in torn' <=> x \in torn) /\ (x \in Me!Shown => photo'[x] = photo[x])
  BY <1>1
<1>6. \A x : mediaArg[r].primary /\ x = mediaArg[r].of => x \in torn'
  BY <1>1
<1> QED
  BY <1>1, <1>4, <1>5, <1>6, PhotoEndInv

LEMMA PhotoDestroyInv ==
  ASSUME PhotoInv, NEW r \in Requests, Me!Destroy(r)
  PROVE  PhotoInv'
<1>0. PICK m \in MediaIds : m = mediaArg[r].med
  BY DEF Me!Destroy, PhotoInv, PhotoShape, PhotoDeleting
<1>1. /\ mediaPc[r] = "destroy" /\ Me!Goto(r, "delete", mediaArg[r])
      /\ UNCHANGED <<media, photo, lostEntities, torn>>
      /\ \/ image' = [image EXCEPT ![m] = "destroyed"] /\ half' = half \cup {m}
         \/ UNCHANGED <<image, half>>
  BY <1>0 DEF Me!Destroy
<1>3. Me!TypeOK /\ PhotoRowsShow /\ PhotoShape(r) /\ mediaArg[r] \in Me!Args
        /\ ~mediaArg[r].primary
  BY <1>1 DEF PhotoInv, Me!TypeOK, PhotoShape, PhotoDeleting
<1>4. /\ mediaPc' \in [Requests -> Me!Steps] /\ mediaArg' \in [Requests -> Me!Args]
      /\ PhotoOthersStand(r)
      /\ mediaPc'[r] = "delete" /\ mediaArg'[r] = mediaArg[r]
  <2>1. "delete" \in Me!Steps
    BY DEF Me!Steps
  <2> QED
    BY <1>1, <1>3, <2>1, PhotoGotoEffect DEF PhotoOthersStand
<1>i. /\ \A n \in MediaIds \ {m} : image'[n] = image[n]
      /\ image'[m] = image[m] \/ (image'[m] = "destroyed" /\ m \in half')
      /\ half \subseteq half' /\ half' \subseteq half \cup {m}
  BY <1>1, <1>3 DEF Me!TypeOK
<1>6. Me!TypeOK'
  <2>1. half' \subseteq MediaIds /\ image' \in [MediaIds -> {"none", "stored", "destroyed"}]
    BY <1>1, <1>3 DEF Me!TypeOK
  <2> QED
    BY <1>1, <1>3, <1>4, <2>1 DEF Me!TypeOK, Me!Shown
<1>7. PhotoShape(r)'
  BY <1>0, <1>1, <1>3, <1>4, <1>i DEF PhotoShape, PhotoSetting, PhotoDeleting
<1>8. PhotoHolds(r)'
  BY <1>4 DEF PhotoHolds, PhotoReserves
<1>9. PhotoLeaves(r)
  BY <1>0, <1>1, <1>4, <1>i DEF PhotoLeaves, Me!Live
<1>10. PhotoRowsShow'
  BY <1>1, <1>3, <1>i DEF PhotoRowsShow, Me!Live
<1>11. \A x \in Entities : PhotoCounted(x)' /\ PhotoInOrder(x)'
  <2>1. \A x \in Entities : Me!Primaries(x)' \subseteq Me!Primaries(x)
    BY <1>1 DEF Me!Primaries, Me!Live
  <2> QED
    BY <1>1, <1>3, <1>4, <2>1, PhotoBeside
<1> QED
  BY <1>4, <1>6, <1>7, <1>8, <1>9, <1>10, <1>11, PhotoAssembled

LEMMA PhotoDeleteRowInv ==
  ASSUME PhotoInv, NEW r \in Requests, Me!DeleteRow(r)
  PROVE  PhotoInv'
<1>0. PICK m \in MediaIds : m = mediaArg[r].med
  BY DEF Me!DeleteRow, PhotoInv, PhotoShape, PhotoDeleting
<1>1. /\ mediaPc[r] = "delete" /\ media' = [media EXCEPT ![m] = Me!FreeMedia]
      /\ half' = half \ {m}
      /\ Me!Finish(r) /\ UNCHANGED <<image, photo, lostEntities, torn>>
  BY <1>0 DEF Me!DeleteRow
<1>3. Me!TypeOK /\ PhotoRowsShow /\ PhotoShape(r) /\ ~mediaArg[r].primary
  BY <1>1 DEF PhotoInv, Me!TypeOK, PhotoShape, PhotoDeleting
<1>n. Me!NoArgs.med = Null /\ ~Me!NoArgs.primary
  BY DEF Me!NoArgs
<1>4. /\ mediaPc' \in [Requests -> Me!Steps] /\ mediaArg' \in [Requests -> Me!Args]
      /\ PhotoOthersStand(r)
      /\ mediaPc'[r] = "idle" /\ mediaArg'[r] = Me!NoArgs
  BY <1>1, <1>3, PhotoFinishEffect DEF PhotoOthersStand
<1>m. ~Me!Live(m)' /\ \A n \in MediaIds \ {m} : media'[n] = media[n]
  BY <1>1, <1>3 DEF Me!TypeOK, Me!Live, Me!FreeMedia
<1>6. Me!TypeOK'
  <2>1. media' \in [MediaIds -> Me!MediaRow \cup {Me!FreeMedia}] /\ half' \subseteq MediaIds
    BY <1>1, <1>3 DEF Me!TypeOK
  <2> QED
    BY <1>1, <1>3, <1>4, <2>1 DEF Me!TypeOK, Me!Shown
<1>7. PhotoShape(r)' /\ PhotoHolds(r)'
  BY <1>4, <1>n DEF PhotoShape, PhotoHolds, PhotoReserves, PhotoSetting, PhotoDeleting
<1>9. PhotoLeaves(r)
  BY <1>0, <1>1, <1>4, <1>m, <1>n DEF PhotoLeaves, Me!Live
<1>10. PhotoRowsShow'
  BY <1>1, <1>3, <1>m DEF PhotoRowsShow, Me!Live
<1>11. \A x \in Entities : PhotoCounted(x)' /\ PhotoInOrder(x)'
  <2>1. \A x \in Entities : Me!Primaries(x)' \subseteq Me!Primaries(x)
    BY <1>m DEF Me!Primaries, Me!Live
  <2> QED
    BY <1>1, <1>3, <1>4, <1>n, <2>1, PhotoBeside
<1> QED
  BY <1>4, <1>6, <1>7, <1>9, <1>10, <1>11, PhotoAssembled

LEMMA PhotoStandInv ==
  ASSUME PhotoInv, UNCHANGED <<media, image, photo, torn, half, mediaPc, mediaArg>>,
         lostEntities' \subseteq Entities \ Profiles
  PROVE  PhotoInv'
<1>1. Me!TypeOK'
  BY DEF PhotoInv, Me!TypeOK, Me!Shown
<1>2. \A r \in Requests : PhotoShape(r)' /\ PhotoHolds(r)'
  BY DEF PhotoInv, PhotoShape, PhotoHolds, PhotoReserves, Me!Live, PhotoSetting,
         PhotoDeleting, Me!NoArgs
<1>3. PhotoRowsShow'
  BY DEF PhotoInv, PhotoRowsShow, Me!Live
<1>4. \A x : Me!Primaries(x)' = Me!Primaries(x) /\ Me!Changing(x)' = Me!Changing(x)
        /\ PhotoWriting(x)' = PhotoWriting(x)
  BY DEF Me!Primaries, Me!Live, Me!Changing, PhotoWriting
<1>5. \A x : PhotoSingle(x)' = PhotoSingle(x)
  BY <1>4 DEF PhotoSingle, Me!Shown
<1>6. \A x \in Entities : PhotoCounted(x)'
  BY <1>4 DEF PhotoCounted, PhotoInv
<1>7. \A r, x : PhotoPhase(r, x)' = PhotoPhase(r, x)
  BY <1>4, <1>5 DEF PhotoPhase
<1>8. \A x \in Entities : PhotoInOrder(x)'
  BY <1>4, <1>5, <1>7 DEF PhotoInOrder, PhotoInv
<1> QED
  BY <1>1, <1>2, <1>3, <1>6, <1>8 DEF PhotoInv

LEMMA PhotoNextInv == PhotoInv /\ [Me!Next]_(Me!vars) => PhotoInv'
<1> SUFFICES ASSUME PhotoInv, [Me!Next]_(Me!vars) PROVE PhotoInv'
  OBVIOUS
<1>t. lostEntities \subseteq Entities \ Profiles
  BY DEF PhotoInv, Me!TypeOK
<1>1. ASSUME NEW x \in Entities, Me!EntityGoes(x) PROVE PhotoInv'
  BY <1>1, <1>t, PhotoStandInv DEF Me!EntityGoes
<1>2. ASSUME NEW r \in Requests, NEW u \in Uploaders, NEW x \in Entities,
        NEW primary \in BOOLEAN,
             Me!OpenUpload(r, u, x, primary)
      PROVE  PhotoInv'
  <2> DEFINE a == [Me!NoArgs EXCEPT !.op = "upload", !.of = x, !.by = u, !.primary = primary]
  <2>1. a \in Me!Args /\ a.of = x /\ a.op = "upload" /\ a.by = u /\ a.med = Null
    BY DEF Me!NoArgs, Me!Args
  <2>2. Me!Meets(r, "store", a)
    BY <1>2 DEF Me!OpenUpload
  <2> HIDE DEF a
  <2> QED
    BY <2>1, <2>2, PhotoMeetsInv
<1>3. ASSUME NEW r \in Requests, NEW u \in Uploaders, NEW m \in MediaIds,
             Me!OpenSetPrimary(r, u, m)
      PROVE  PhotoInv'
  <2> DEFINE a == [Me!NoArgs EXCEPT !.op = "set", !.of = media[m].of, !.primary = TRUE,
                   !.med = m]
  <2>1. media[m].of \in Entities /\ Me!Live(m)
    BY <1>3, GarageAssumption DEF Me!OpenSetPrimary, Me!ConstantsAssumption
  <2>2. a \in Me!Args /\ a.of = media[m].of /\ a.op = "set" /\ a.primary = TRUE /\ a.med = m
    BY <2>1 DEF Me!NoArgs, Me!Args
  <2>3. Me!Meets(r, "clear", a)
    BY <1>3 DEF Me!OpenSetPrimary
  <2> HIDE DEF a
  <2> QED
    BY <2>1, <2>2, <2>3, PhotoMeetsInv
<1>4. CASE UNCHANGED Me!vars
  BY <1>4, <1>t, PhotoStandInv DEF Me!vars, Me!tables
<1> QED
  BY <1>1, <1>2, <1>3, <1>4, PhotoOpenDeleteInv, PhotoStoreInv, PhotoClearInv,
     PhotoInsertInv, PhotoFlagInv, PhotoSyncInv,
     PhotoFailInv, PhotoDestroyInv, PhotoDeleteRowInv DEF Me!Next, Me!Open, Me!Step

LEMMA PhotoPromises ==
  PhotoInv => Me!TypeOK /\ Me!OnePrimaryPerRequest /\ Me!PrimaryInStep /\ Me!RowHasImage
<1> SUFFICES ASSUME PhotoInv PROVE Me!OnePrimaryPerRequest /\ Me!PrimaryInStep /\ Me!RowHasImage
  BY DEF PhotoInv
<1>1. ASSUME NEW x \in Entities, x \notin torn PROVE \E p : Me!Primaries(x) \subseteq {p}
  <2>0. PhotoInOrder(x)
    BY DEF PhotoInv
  <2>1. CASE Me!Changing(x) = {}
    BY <1>1, <2>0, <2>1 DEF PhotoInOrder, PhotoSingle
  <2>2. CASE Me!Changing(x) # {}
    <3>1. PICK r \in Me!Changing(x) : TRUE
      BY <2>2
    <3>2. mediaArg[r].alone /\ PhotoPhase(r, x) /\ mediaPc[r] \in Me!Steps
            /\ mediaPc[r] # "idle" /\ r \in Requests
          /\ mediaArg[r].primary /\ PhotoShape(r)
      BY <1>1, <2>0, <3>1 DEF PhotoInOrder, Me!Changing, PhotoInv, Me!TypeOK
    <3>3. mediaPc[r] \in PhotoSetting
      BY <3>2 DEF PhotoShape, Me!Steps, PhotoSetting, PhotoDeleting
    <3> QED
      BY <1>1, <3>2, <3>3 DEF PhotoPhase, PhotoSingle, PhotoSetting
  <2> QED
    BY <2>1, <2>2
<1>2. ASSUME NEW x \in Entities, x \notin torn PROVE Cardinality(Me!Primaries(x)) <= 1
  <2>1. PICK p : Me!Primaries(x) \subseteq {p}
    BY <1>1, <1>2
  <2> DEFINE P == Me!Primaries(x)
  <2>2. P = {} \/ P = {p}
    BY <2>1
  <2>3. Cardinality({}) = 0 /\ Cardinality({p}) = 1
    BY FS_EmptySet, FS_Singleton
  <2> HIDE DEF P
  <2>4. Cardinality(P) <= 1
    BY <2>2, <2>3
  <2> QED
    BY <2>4 DEF P
<1>3. ASSUME NEW x \in Entities PROVE Cardinality(Me!Primaries(x)) <= Cardinality(Requests)
  <2>1. Cardinality(Me!Primaries(x)) + Cardinality(PhotoWriting(x)) <= Cardinality(Requests)
    BY DEF PhotoInv, PhotoCounted
  <2>2. Cardinality(Me!Primaries(x)) \in Nat /\ Cardinality(PhotoWriting(x)) \in Nat
        /\ Cardinality(Requests) \in Nat
    BY PhotoPrimariesFinite
  <2> QED
    BY <2>1, <2>2
<1>4. Me!OnePrimaryPerRequest
  BY <1>2, <1>3, PhotoCardinality DEF Me!OnePrimaryPerRequest
<1>5. Me!PrimaryInStep
  BY GarageAssumption DEF Me!PrimaryInStep, PhotoInv, PhotoInOrder, PhotoSingle, Me!Shown,
         Me!ConstantsAssumption
<1>6. Me!RowHasImage
  BY DEF Me!RowHasImage, PhotoInv, PhotoRowsShow
<1> QED
  BY <1>4, <1>5, <1>6

-----------------------------------------------------------------------------
(* Vehicles.  A deletion covers the tables it has been through: what they  *)
(* hold now it has taken, or came while it ran.                            *)
DeletionArgs == [op : {"update", "specs", Null}, vehicle : VehicleIds \cup {Null},
         table : Ve!Tables \cup {Null}, specs : Specs \cup {Null}, done : 0..6,
         taken : SUBSET RowIds]

DeletionVehicleRows == [st : {"live", "gone", "closed"}, ws : Homes, specs : Specs \cup {Null}]
DeletionTableRows == [st : {"live", "gone"}, of : VehicleIds, table : Ve!Tables]

(* What a request carries at each of its awaits. *)
DeletionShape(r) ==
  /\ vehicleArg[r] \in DeletionArgs
  /\ vehiclePc[r] = "idle" => vehicleArg[r] = Ve!NoArgs
  /\ vehiclePc[r] # "idle" => vehicleArg[r].vehicle \in VehicleIds
       /\ vehicles[vehicleArg[r].vehicle].st # "free"
  /\ vehiclePc[r] = "add" => vehicleArg[r].table \in Ve!Tables
  /\ \A i \in vehicleArg[r].taken : row[i].st # "free"

(* The tables that a deletion has been through hold nothing else. *)
DeletionCovered(r) ==
  vehiclePc[r] = "delete" =>
    \A i \in Ve!RowsOf(vehicleArg[r].vehicle) :
      (\E k \in 1..vehicleArg[r].done : row[i].table = Ve!DeletionOrder[k])
        => i \in vehicleArg[r].taken \cup late

DeletionInv ==
  /\ vehicles \in [VehicleIds -> {Ve!FreeVehicle} \cup DeletionVehicleRows]
  /\ row \in [RowIds -> {Ve!FreeRow} \cup DeletionTableRows]
  /\ late \subseteq RowIds
  /\ vehiclePc \in [Requests -> {"idle", "write", "ask", "add", "delete"}]
  /\ vehicleArg \in [Requests -> DeletionArgs]
  /\ \A r \in Requests : DeletionShape(r) /\ DeletionCovered(r)
  /\ Ve!DeletionTakesAll

LEMMA DeletionNoArgsType ==
  /\ Ve!NoArgs \in DeletionArgs /\ Ve!NoArgs.vehicle = Null /\ Ve!NoArgs.table = Null
  /\ Ve!NoArgs.specs = Null
  /\ Ve!NoArgs.done = 0 /\ Ve!NoArgs.taken = {} /\ Ve!NoArgs.op = Null
BY DEF Ve!NoArgs, DeletionArgs

LEMMA DeletionInitInv == Ve!Init => DeletionInv
<1> SUFFICES ASSUME Ve!Init PROVE DeletionInv
  OBVIOUS
<1>1. \A r \in Requests : DeletionShape(r) /\ DeletionCovered(r)
  BY DeletionNoArgsType DEF Ve!Init, DeletionShape, DeletionCovered
<1>2. Ve!DeletionTakesAll
  BY DEF Ve!Init, Ve!DeletionTakesAll, Ve!FreeVehicle
<1> QED
  BY <1>1, <1>2, DeletionNoArgsType DEF Ve!Init, DeletionInv

(* Steps of a request *)
LEMMA DeletionGotoEffect ==
  ASSUME DeletionInv, NEW r \in Requests,
    NEW step \in {"idle", "write", "ask", "add", "delete"},
         NEW a \in DeletionArgs, Ve!Goto(r, step, a)
  PROVE  /\ vehiclePc' \in [Requests -> {"idle", "write", "ask", "add", "delete"}]
         /\ vehicleArg' \in [Requests -> DeletionArgs] /\ vehiclePc'[r] = step
         /\ vehicleArg'[r] = a
         /\ \A q \in Requests \ {r} : vehiclePc'[q] = vehiclePc[q]
              /\ vehicleArg'[q] = vehicleArg[q]
BY DEF Ve!Goto, DeletionInv

LEMMA DeletionFinishEffect ==
  ASSUME DeletionInv, NEW r \in Requests, Ve!Finish(r)
  PROVE  /\ vehiclePc' \in [Requests -> {"idle", "write", "ask", "add", "delete"}]
         /\ vehicleArg' \in [Requests -> DeletionArgs] /\ vehiclePc'[r] = "idle"
         /\ vehicleArg'[r] = Ve!NoArgs
         /\ \A q \in Requests \ {r} : vehiclePc'[q] = vehiclePc[q]
              /\ vehicleArg'[q] = vehicleArg[q]
BY DeletionGotoEffect, DeletionNoArgsType DEF Ve!Finish

(* What a step leaves of the rows: none comes back, and one that is added  *)
(* to a vehicle that is deleted, or on its way, is late.                   *)
DeletionKept ==
  /\ \A v \in VehicleIds : vehicles[v].st # "free" => vehicles'[v].st # "free"
  /\ \A i \in RowIds : row[i].st # "free" => row'[i].st # "free"
  /\ late \subseteq late'
  /\ \A i \in RowIds : row'[i].st = "live" =>
       \/ row[i].st = "live" /\ row'[i].of = row[i].of /\ row'[i].table = row[i].table
       \/ i \in late' \/ (Ve!Live(row'[i].of) /\ ~Ve!BeingDeleted(row'[i].of))

LEMMA DeletionOthersKeep ==
  ASSUME DeletionInv, NEW q \in Requests, DeletionKept, vehiclePc'[q] = vehiclePc[q],
         vehicleArg'[q] = vehicleArg[q]
  PROVE  DeletionShape(q)' /\ DeletionCovered(q)'
<1>1. DeletionShape(q) /\ DeletionCovered(q)
  BY DEF DeletionInv
<1>2. DeletionShape(q)'
  BY <1>1 DEF DeletionShape, DeletionKept, DeletionArgs
<1>3. ASSUME vehiclePc[q] = "delete", NEW v, vehicleArg[q].vehicle = v, NEW i \in RowIds,
             row'[i].st = "live", row'[i].of = v,
             NEW k \in 1..vehicleArg[q].done, row'[i].table = Ve!DeletionOrder[k]
      PROVE  i \in vehicleArg[q].taken \cup late'
  <2>1. Ve!BeingDeleted(row'[i].of)
    BY <1>3 DEF Ve!BeingDeleted
  <2>2. CASE row[i].st = "live" /\ row'[i].of = row[i].of /\ row'[i].table = row[i].table
    <3>1. i \in Ve!RowsOf(v) /\ row[i].table = Ve!DeletionOrder[k]
      BY <1>3, <2>2 DEF Ve!RowsOf
    <3> QED
      BY <1>1, <1>3, <3>1 DEF DeletionCovered, DeletionKept
  <2> QED
    BY <1>3, <2>1, <2>2 DEF DeletionKept
<1>4. DeletionCovered(q)'
  BY <1>3 DEF DeletionCovered, Ve!RowsOf
<1> QED
  BY <1>2, <1>4

LEMMA DeletionGoneKept ==
  ASSUME DeletionInv, DeletionKept, NEW v \in VehicleIds, vehicles[v].st = "gone",
         vehicles'[v].st = "gone"
  PROVE  Ve!RowsOf(v)' \subseteq late'
<1> SUFFICES ASSUME NEW i \in Ve!RowsOf(v)' PROVE i \in late'
  OBVIOUS
<1>1. i \in RowIds /\ row'[i].st = "live" /\ row'[i].of = v
  BY DEF Ve!RowsOf
<1>2. ~Ve!Live(v)
  BY DEF Ve!Live
<1>3. row[i].st = "live" /\ row[i].of = v => i \in late
  BY <1>1 DEF DeletionInv, Ve!DeletionTakesAll, Ve!RowsOf
<1> QED
  BY <1>1, <1>2, <1>3 DEF DeletionKept

(* A step that takes no vehicle away *)
LEMMA DeletionAssembled ==
  ASSUME DeletionInv, NEW r \in Requests, DeletionKept,
         vehicles' \in [VehicleIds -> {Ve!FreeVehicle} \cup DeletionVehicleRows],
         row' \in [RowIds -> {Ve!FreeRow} \cup DeletionTableRows], late' \subseteq RowIds,
         vehiclePc' \in [Requests -> {"idle", "write", "ask", "add", "delete"}],
         vehicleArg' \in [Requests -> DeletionArgs],
         \A q \in Requests \ {r} : vehiclePc'[q] = vehiclePc[q]
           /\ vehicleArg'[q] = vehicleArg[q],
         DeletionShape(r)', DeletionCovered(r)',
         \A v \in VehicleIds :
           vehicles'[v].st = "gone" => vehicles[v].st = "gone" \/ Ve!RowsOf(v)' \subseteq late'
  PROVE  DeletionInv'
<1>1. \A q \in Requests : DeletionShape(q)' /\ DeletionCovered(q)'
  BY DeletionOthersKeep
<1>2. Ve!DeletionTakesAll'
  BY DeletionGoneKept DEF Ve!DeletionTakesAll
<1> QED
  BY <1>1, <1>2 DEF DeletionInv

LEMMA DeletionUnmoved ==
  ASSUME UNCHANGED <<vehicles, row, late>>
  PROVE  /\ DeletionKept
         /\ \A v \in VehicleIds : vehicles'[v].st = "gone" => vehicles[v].st = "gone"
BY DEF DeletionKept

LEMMA DeletionOpenInv ==
  ASSUME DeletionInv, NEW r \in Requests, NEW v \in VehicleIds, NEW w \in Homes,
         NEW step \in {"write", "ask", "add", "delete"}, NEW a \in DeletionArgs,
         a.taken = {}, a.done = 0,
         step = "add" => a.table \in Ve!Tables, Ve!Open(r, v, w, step, a)
  PROVE  DeletionInv'
<1> DEFINE b == [a EXCEPT !.vehicle = v]
<1>1. Ve!Live(v) /\ Ve!Goto(r, step, b) /\ UNCHANGED <<vehicles, row, late>>
  BY DEF Ve!Open
<1>2. b \in DeletionArgs /\ b.vehicle = v /\ b.table = a.table /\ b.taken = {} /\ b.done = 0
  BY DEF DeletionArgs
<1> HIDE DEF b
<1>3. /\ vehiclePc' \in [Requests -> {"idle", "write", "ask", "add", "delete"}]
      /\ vehicleArg' \in [Requests -> DeletionArgs] /\ vehiclePc'[r] = step
      /\ vehicleArg'[r] = b
      /\ \A q \in Requests \ {r} : vehiclePc'[q] = vehiclePc[q]
           /\ vehicleArg'[q] = vehicleArg[q]
  BY <1>1, <1>2, DeletionGotoEffect
<1>4. DeletionShape(r)' /\ DeletionCovered(r)'
  BY <1>1, <1>2, <1>3 DEF DeletionShape, DeletionCovered, Ve!Live
<1> QED
  BY <1>1, <1>3, <1>4, DeletionUnmoved, DeletionAssembled DEF DeletionInv

LEMMA DeletionStandInv ==
  ASSUME DeletionInv, UNCHANGED <<row, late, vehiclePc, vehicleArg>>,
         vehicles' \in [VehicleIds -> {Ve!FreeVehicle} \cup DeletionVehicleRows],
         \A v \in VehicleIds : /\ vehicles[v].st # "free" => vehicles'[v].st # "free"
                               /\ vehicles'[v].st = "gone" => vehicles[v].st = "gone"
  PROVE  DeletionInv'
<1>1. DeletionKept
  BY DEF DeletionKept
<1>2. \A q \in Requests : DeletionShape(q)' /\ DeletionCovered(q)'
  BY <1>1, DeletionOthersKeep
<1>3. Ve!DeletionTakesAll'
  BY <1>1, DeletionGoneKept DEF Ve!DeletionTakesAll
<1> QED
  BY <1>2, <1>3 DEF DeletionInv

LEMMA DeletionCreateInv ==
  ASSUME DeletionInv, NEW v \in VehicleIds, NEW w \in Homes, Ve!Create(v, w)
  PROVE  DeletionInv'
<1> DEFINE new == [Ve!FreeVehicle EXCEPT !.st = "live", !.ws = w]
<1>1. new \in DeletionVehicleRows /\ new.st = "live"
  BY DEF Ve!FreeVehicle, DeletionVehicleRows
<1>2. vehicles[v].st = "free" /\ vehicles' = [vehicles EXCEPT ![v] = new]
        /\ UNCHANGED <<row, late, vehiclePc, vehicleArg>>
  BY DEF Ve!Create
<1> HIDE DEF new
<1>3. vehicles' \in [VehicleIds -> {Ve!FreeVehicle} \cup DeletionVehicleRows]
  BY <1>1, <1>2 DEF DeletionInv
<1>4. \A u \in VehicleIds : /\ vehicles[u].st # "free" => vehicles'[u].st # "free"
                            /\ vehicles'[u].st = "gone" => vehicles[u].st = "gone"
  BY <1>1, <1>2 DEF DeletionInv
<1> QED
  BY <1>2, <1>3, <1>4, DeletionStandInv

LEMMA DeletionCloseInv ==
  ASSUME DeletionInv, NEW w \in Homes, Ve!CloseWorkspace(w)
  PROVE  DeletionInv'
<1> DEFINE closed(v) == [vehicles[v] EXCEPT !.st = "closed"]
<1>1. \A v \in VehicleIds : Ve!Live(v)
        => closed(v) \in DeletionVehicleRows /\ closed(v).st = "closed"
  <2> TAKE v \in VehicleIds
  <2>1. Ve!Live(v) => vehicles[v] \in DeletionVehicleRows
    BY DEF DeletionInv, Ve!Live, Ve!FreeVehicle
  <2> QED
    BY <2>1 DEF DeletionVehicleRows
<1>2. /\ vehicles' = [v \in VehicleIds |-> IF Ve!Live(v) /\ vehicles[v].ws = w THEN closed(v)
                                                                       ELSE vehicles[v]]
      /\ UNCHANGED <<row, late, vehiclePc, vehicleArg>>
  BY DEF Ve!CloseWorkspace
<1> HIDE DEF closed
<1>3. vehicles' \in [VehicleIds -> {Ve!FreeVehicle} \cup DeletionVehicleRows]
  BY <1>1, <1>2 DEF DeletionInv
<1>4. \A u \in VehicleIds : /\ vehicles[u].st # "free" => vehicles'[u].st # "free"
                            /\ vehicles'[u].st = "gone" => vehicles[u].st = "gone"
  BY <1>1, <1>2
<1> QED
  BY <1>2, <1>3, <1>4, DeletionStandInv

LEMMA DeletionAskInv ==
  ASSUME DeletionInv, NEW r \in Requests, NEW specs \in Specs, Ve!Ask(r, specs)
  PROVE  DeletionInv'
<1> DEFINE b == [vehicleArg[r] EXCEPT !.specs = specs]
<1>1. vehiclePc[r] = "ask" /\ Ve!Goto(r, "write", b) /\ UNCHANGED <<vehicles, row, late>>
  BY DEF Ve!Ask
<1>0. vehicleArg[r] \in DeletionArgs /\ DeletionShape(r)
  BY DEF DeletionInv
<1>2. b \in DeletionArgs /\ b.vehicle = vehicleArg[r].vehicle /\ b.taken = vehicleArg[r].taken
  BY <1>0 DEF DeletionArgs
<1> HIDE DEF b
<1>3. /\ vehiclePc' \in [Requests -> {"idle", "write", "ask", "add", "delete"}]
      /\ vehicleArg' \in [Requests -> DeletionArgs] /\ vehiclePc'[r] = "write"
      /\ vehicleArg'[r] = b
      /\ \A q \in Requests \ {r} : vehiclePc'[q] = vehiclePc[q]
           /\ vehicleArg'[q] = vehicleArg[q]
  BY <1>1, <1>2, DeletionGotoEffect
<1>4. DeletionShape(r)' /\ DeletionCovered(r)'
  BY <1>0, <1>1, <1>2, <1>3 DEF DeletionShape, DeletionCovered
<1> QED
  BY <1>1, <1>3, <1>4, DeletionUnmoved, DeletionAssembled DEF DeletionInv

(* A request that ends *)
LEMMA DeletionEnded ==
  ASSUME DeletionInv, NEW r \in Requests, Ve!Finish(r)
  PROVE  /\ vehiclePc' \in [Requests -> {"idle", "write", "ask", "add", "delete"}]
         /\ vehicleArg' \in [Requests -> DeletionArgs]
         /\ \A q \in Requests \ {r} : vehiclePc'[q] = vehiclePc[q]
              /\ vehicleArg'[q] = vehicleArg[q]
         /\ DeletionShape(r)' /\ DeletionCovered(r)'
<1>1. /\ vehiclePc' \in [Requests -> {"idle", "write", "ask", "add", "delete"}]
      /\ vehicleArg' \in [Requests -> DeletionArgs] /\ vehiclePc'[r] = "idle"
      /\ vehicleArg'[r] = Ve!NoArgs
      /\ \A q \in Requests \ {r} : vehiclePc'[q] = vehiclePc[q]
           /\ vehicleArg'[q] = vehicleArg[q]
  BY DeletionFinishEffect
<1>2. DeletionShape(r)' /\ DeletionCovered(r)'
  BY <1>1, DeletionNoArgsType DEF DeletionShape, DeletionCovered
<1> QED
  BY <1>1, <1>2

LEMMA DeletionFailInv ==
  ASSUME DeletionInv, NEW r \in Requests, Ve!Fail(r)
  PROVE  DeletionInv'
<1>1. Ve!Finish(r) /\ UNCHANGED <<vehicles, row, late>>
  BY DEF Ve!Fail
<1> QED
  BY <1>1, DeletionEnded, DeletionUnmoved, DeletionAssembled DEF DeletionInv

LEMMA DeletionWriteInv ==
  ASSUME DeletionInv, NEW r \in Requests, Ve!Write(r)
  PROVE  DeletionInv'
<1>0. PICK v \in VehicleIds : v = vehicleArg[r].vehicle /\ vehicles[v].st # "free"
  BY DEF Ve!Write, DeletionInv, DeletionShape
<1>1. /\ vehicles' = IF vehicleArg[r].op = "specs"
           THEN [vehicles EXCEPT ![v].specs = vehicleArg[r].specs]
                    ELSE vehicles
      /\ Ve!Finish(r) /\ UNCHANGED <<row, late>>
  BY <1>0 DEF Ve!Write
<1>2. \A u \in VehicleIds : vehicles'[u] \in {Ve!FreeVehicle} \cup DeletionVehicleRows
                            /\ vehicles'[u].st = vehicles[u].st
  <2> DEFINE new == [vehicles[v] EXCEPT !.specs = vehicleArg[r].specs]
  <2>1. new \in DeletionVehicleRows /\ new.st = vehicles[v].st
    <3>1. vehicles[v] \in DeletionVehicleRows /\ vehicleArg[r].specs \in Specs \cup {Null}
      BY <1>0 DEF DeletionInv, Ve!FreeVehicle, DeletionArgs
    <3> QED
      BY <3>1 DEF DeletionVehicleRows
  <2>2. vehicles' = [vehicles EXCEPT ![v] = new] \/ vehicles' = vehicles
    BY <1>1 DEF DeletionInv
  <2> HIDE DEF new
  <2> QED
    BY <2>1, <2>2 DEF DeletionInv
<1>3. vehicles' \in [VehicleIds -> {Ve!FreeVehicle} \cup DeletionVehicleRows]
  BY <1>1, <1>2 DEF DeletionInv
<1>4. DeletionKept
  BY <1>1, <1>2 DEF DeletionKept
<1> QED
  BY <1>1, <1>2, <1>3, <1>4, DeletionEnded, DeletionAssembled DEF DeletionInv

LEMMA DeletionAddInv ==
  ASSUME DeletionInv, NEW r \in Requests, Ve!Add(r)
  PROVE  DeletionInv'
<1>0. PICK v \in VehicleIds : v = vehicleArg[r].vehicle /\ vehicleArg[r].table \in Ve!Tables
  BY DEF Ve!Add, DeletionInv, DeletionShape
<1> DEFINE new == [st |-> "live", of |-> v, table |-> vehicleArg[r].table]
<1>1. PICK i \in RowIds :
        /\ row[i].st = "free" /\ row' = [row EXCEPT ![i] = new]
        /\ late' = IF Ve!Live(v) /\ ~Ve!BeingDeleted(v) THEN late ELSE late \cup {i}
        /\ Ve!Finish(r) /\ UNCHANGED vehicles
  BY <1>0 DEF Ve!Add
<1>2. new \in DeletionTableRows /\ new.st = "live" /\ new.of = v
  BY <1>0 DEF DeletionTableRows
<1> HIDE DEF new
<1>3. row' \in [RowIds -> {Ve!FreeRow} \cup DeletionTableRows] /\ late' \subseteq RowIds
  BY <1>1, <1>2 DEF DeletionInv
<1>4. row'[i] = new /\ \A j \in RowIds \ {i} : row'[j] = row[j]
  BY <1>1 DEF DeletionInv
<1>5. DeletionKept
  <2>1. i \in late' \/ (Ve!Live(row'[i].of) /\ ~Ve!BeingDeleted(row'[i].of))
    BY <1>1, <1>2, <1>4
  <2>2. late \subseteq late'
    BY <1>1
  <2>3. \A j \in RowIds : row[j].st # "free" => row'[j].st # "free"
    BY <1>1, <1>4
  <2> QED
    BY <1>1, <1>4, <2>1, <2>2, <2>3 DEF DeletionKept
<1> QED
  BY <1>1, <1>3, <1>5, DeletionEnded, DeletionAssembled DEF DeletionInv

LEMMA DeletionDeleteRowsInv ==
  ASSUME DeletionInv, NEW r \in Requests, Ve!DeleteRows(r)
  PROVE  DeletionInv'
<1>0. vehicleArg[r] \in DeletionArgs /\ vehicleArg[r].done \in 0..6
        /\ vehicleArg[r].taken \subseteq RowIds /\ DeletionShape(r) /\ DeletionCovered(r)
  BY DEF DeletionInv, DeletionArgs
<1>d. PICK d \in 0..6 : d = vehicleArg[r].done
  BY <1>0
<1> DEFINE found == {i \in Ve!RowsOf(vehicleArg[r].vehicle) :
                     row[i].table = Ve!DeletionOrder[d + 1]}
           b == [vehicleArg[r] EXCEPT !.done = d + 1, !.taken = vehicleArg[r].taken \cup found]
<1>1. /\ vehiclePc[r] = "delete" /\ d + 1 <= 6 /\ Ve!Goto(r, "delete", b)
      /\ UNCHANGED <<vehicles, row, late>>
  <2>1. Len(Ve!DeletionOrder) = 6
    BY DEF Ve!DeletionOrder
  <2> QED
    BY <1>0, <1>d, <2>1 DEF Ve!DeleteRows, DeletionArgs
<1>f. found \subseteq RowIds /\ \A i \in found : row[i].st # "free"
  BY DEF Ve!RowsOf
<1>x. PICK taken : taken = vehicleArg[r].taken \cup found
  OBVIOUS
<1>y. PICK n \in 1..6 : n = d + 1
  BY <1>1
<1>2. b \in DeletionArgs /\ b.vehicle = vehicleArg[r].vehicle
        /\ b.table = vehicleArg[r].table /\ b.taken = taken /\ b.done = n
  <2>1. b = [vehicleArg[r] EXCEPT !.done = n, !.taken = taken] /\ taken \in SUBSET RowIds
          /\ n \in 0..6
    BY <1>0, <1>f, <1>x, <1>y
  <2> HIDE DEF b
  <2> QED
    BY <1>0, <2>1 DEF DeletionArgs
<1> HIDE DEF b
<1>3. /\ vehiclePc' \in [Requests -> {"idle", "write", "ask", "add", "delete"}]
      /\ vehicleArg' \in [Requests -> DeletionArgs] /\ vehiclePc'[r] = "delete"
      /\ vehicleArg'[r] = b
      /\ \A q \in Requests \ {r} : vehiclePc'[q] = vehiclePc[q]
           /\ vehicleArg'[q] = vehicleArg[q]
  BY <1>1, <1>2, DeletionGotoEffect
<1>4. DeletionShape(r)'
  BY <1>0, <1>1, <1>2, <1>3, <1>f, <1>x DEF DeletionShape
<1>5. ASSUME NEW i \in Ve!RowsOf(vehicleArg[r].vehicle), NEW k \in 1..n,
             row[i].table = Ve!DeletionOrder[k]
      PROVE  i \in taken \cup late
  <2>1. CASE k = n
    BY <1>5, <1>x, <1>y, <2>1
  <2>2. CASE k # n
    <3>1. k \in 1..vehicleArg[r].done
      BY <1>d, <1>y, <2>2
    <3> QED
      BY <1>0, <1>1, <1>5, <1>x, <3>1 DEF DeletionCovered
  <2> QED
    BY <2>1, <2>2
<1>6. DeletionCovered(r)'
  BY <1>1, <1>2, <1>3, <1>5 DEF DeletionCovered, Ve!RowsOf
<1> QED
  BY <1>1, <1>3, <1>4, <1>6, DeletionUnmoved, DeletionAssembled DEF DeletionInv

LEMMA DeletionSoftDeleteInv ==
  ASSUME DeletionInv, NEW r \in Requests, Ve!SoftDelete(r)
  PROVE  DeletionInv'
<1>0. PICK v \in VehicleIds : v = vehicleArg[r].vehicle /\ vehicles[v].st # "free"
  BY DEF Ve!SoftDelete, DeletionInv, DeletionShape
<1>s. DeletionShape(r) /\ DeletionCovered(r) /\ vehicleArg[r] \in DeletionArgs
  BY DEF DeletionInv
<1> DEFINE taken == vehicleArg[r].taken
           closed == [vehicles[v] EXCEPT !.st = "gone"]
           ended(i) == [row[i] EXCEPT !.st = "gone"]
<1>1. /\ vehiclePc[r] = "delete" /\ vehicleArg[r].done = 6
      /\ vehicles' = [vehicles EXCEPT ![v] = closed]
      /\ row' = [i \in RowIds |-> IF i \in taken THEN ended(i) ELSE row[i]]
      /\ Ve!Finish(r) /\ late' = late
  <2>1. Len(Ve!DeletionOrder) = 6
    BY DEF Ve!DeletionOrder
  <2> QED
    BY <1>0, <2>1 DEF Ve!SoftDelete, DeletionInv
<1>2. closed \in DeletionVehicleRows /\ closed.st = "gone"
  <2>1. vehicles[v] \in DeletionVehicleRows
    BY <1>0 DEF DeletionInv, Ve!FreeVehicle
  <2> QED
    BY <2>1 DEF DeletionVehicleRows
<1>3. \A i \in taken : i \in RowIds /\ ended(i) \in DeletionTableRows /\ ended(i).st = "gone"
  <2> TAKE i \in taken
  <2>1. i \in RowIds /\ row[i] \in DeletionTableRows
    BY <1>s DEF DeletionShape, DeletionInv, DeletionArgs, Ve!FreeRow
  <2> QED
    BY <2>1 DEF DeletionTableRows
<1>t. \A i \in RowIds : i \notin taken => row'[i] = row[i]
  BY <1>1
<1>g. \A i \in RowIds : i \in taken => row'[i].st = "gone"
  BY <1>1, <1>3
<1>4. /\ vehicles' \in [VehicleIds -> {Ve!FreeVehicle} \cup DeletionVehicleRows]
      /\ row' \in [RowIds -> {Ve!FreeRow} \cup DeletionTableRows] /\ late' \subseteq RowIds
  <2> HIDE DEF closed, ended, taken
  <2> QED
    BY <1>1, <1>2, <1>3 DEF DeletionInv
<1>5. vehicles'[v].st = "gone" /\ \A u \in VehicleIds \ {v} : vehicles'[u] = vehicles[u]
  <2> HIDE DEF closed
  <2> QED
    BY <1>1, <1>2 DEF DeletionInv
<1>6. DeletionKept
  BY <1>1, <1>5, <1>t, <1>g DEF DeletionKept
<1>7. Ve!RowsOf(v)' \subseteq late'
  <2> SUFFICES ASSUME NEW i \in Ve!RowsOf(v)' PROVE i \in late'
    OBVIOUS
  <2>1. i \in RowIds /\ row'[i].st = "live" /\ row'[i].of = v
    BY DEF Ve!RowsOf
  <2>2. i \notin taken /\ row'[i] = row[i]
    BY <1>t, <1>g, <2>1
  <2>3. i \in Ve!RowsOf(vehicleArg[r].vehicle) /\ row[i] \in DeletionTableRows
    BY <1>0, <2>1, <2>2 DEF Ve!RowsOf, DeletionInv, Ve!FreeRow
  <2>4. \E k \in 1..6 : row[i].table = Ve!DeletionOrder[k]
    <3>1. row[i].table \in Ve!Tables
      BY <2>3 DEF DeletionTableRows
    <3>2. /\ Ve!DeletionOrder[1] = "reminders" /\ Ve!DeletionOrder[2] = "intervals"
          /\ Ve!DeletionOrder[3] = "tires" /\ Ve!DeletionOrder[4] = "events"
          /\ Ve!DeletionOrder[5] = "logs" /\ Ve!DeletionOrder[6] = "milestones"
      BY DEF Ve!DeletionOrder
    <3> QED
      BY <3>1, <3>2 DEF Ve!Tables
  <2> QED
    BY <1>1, <1>s, <2>2, <2>3, <2>4 DEF DeletionCovered
<1> QED
  BY <1>1, <1>4, <1>5, <1>6, <1>7, DeletionEnded, DeletionAssembled DEF DeletionInv

LEMMA DeletionNextInv == DeletionInv /\ [Ve!Next]_(Ve!vars) => DeletionInv'
<1> SUFFICES ASSUME DeletionInv, [Ve!Next]_(Ve!vars) PROVE DeletionInv'
  OBVIOUS
<1>1. ASSUME NEW r \in Requests, NEW v \in VehicleIds, NEW w \in Homes, Ve!OpenUpdate(r, v, w)
      PROVE  DeletionInv'
  <2> DEFINE a == [Ve!NoArgs EXCEPT !.op = "update"]
  <2>1. a \in DeletionArgs /\ a.taken = {} /\ a.done = 0
    BY DEF Ve!NoArgs, DeletionArgs
  <2>2. Ve!Open(r, v, w, "write", a)
    BY <1>1 DEF Ve!OpenUpdate
  <2> HIDE DEF a
  <2> QED
    BY <2>1, <2>2, DeletionOpenInv
<1>2. ASSUME NEW r \in Requests, NEW v \in VehicleIds, NEW w \in Homes, NEW specs \in Specs,
             Ve!OpenSpecs(r, v, w, specs)
      PROVE  DeletionInv'
  <2> DEFINE a == [Ve!NoArgs EXCEPT !.op = "specs", !.specs = specs]
  <2>1. a \in DeletionArgs /\ a.taken = {} /\ a.done = 0
    <3>1. Ve!NoArgs \in DeletionArgs /\ Ve!NoArgs.taken = {} /\ Ve!NoArgs.done = 0
      BY DeletionNoArgsType
    <3>2. /\ DOMAIN a = DOMAIN Ve!NoArgs /\ a.op = "specs" /\ a.specs = specs
          /\ \A f \in {"vehicle", "table", "done", "taken"} : a[f] = Ve!NoArgs[f]
      BY <3>1 DEF DeletionArgs
    <3> QED
      BY <3>1, <3>2 DEF DeletionArgs
  <2>2. Ve!Open(r, v, w, "write", a)
    BY <1>2 DEF Ve!OpenSpecs
  <2> HIDE DEF a
  <2> QED
    BY <2>1, <2>2, DeletionOpenInv
<1>3. ASSUME NEW r \in Requests, NEW v \in VehicleIds, NEW w \in Homes, Ve!OpenFill(r, v, w)
      PROVE  DeletionInv'
  <2> DEFINE a == [Ve!NoArgs EXCEPT !.op = "specs"]
  <2>1. a \in DeletionArgs /\ a.taken = {} /\ a.done = 0
    BY DEF Ve!NoArgs, DeletionArgs
  <2>2. Ve!Open(r, v, w, "ask", a)
    BY <1>3 DEF Ve!OpenFill
  <2> HIDE DEF a
  <2> QED
    BY <2>1, <2>2, DeletionOpenInv
<1>4. ASSUME NEW r \in Requests, NEW v \in VehicleIds, NEW w \in Homes, Ve!OpenDelete(r, v, w)
      PROVE  DeletionInv'
  BY <1>4, DeletionNoArgsType, DeletionOpenInv DEF Ve!OpenDelete
<1>5. ASSUME NEW r \in Requests, NEW v \in VehicleIds, NEW w \in Homes, NEW table \in Ve!Tables,
             Ve!OpenAdd(r, v, w, table)
      PROVE  DeletionInv'
  <2> DEFINE a == [Ve!NoArgs EXCEPT !.table = table]
  <2>1. a \in DeletionArgs /\ a.taken = {} /\ a.done = 0 /\ a.table = table
    BY DEF Ve!NoArgs, DeletionArgs
  <2>2. Ve!Open(r, v, w, "add", a)
    BY <1>5 DEF Ve!OpenAdd
  <2> HIDE DEF a
  <2> QED
    BY <2>1, <2>2, DeletionOpenInv
<1>6. CASE UNCHANGED Ve!vars
  <2>1. UNCHANGED <<vehicles, row, late, vehiclePc, vehicleArg>>
    BY <1>6 DEF Ve!vars
  <2> QED
    BY <2>1, DeletionStandInv DEF DeletionInv
<1> QED
  BY <1>1, <1>2, <1>3, <1>4, <1>5, <1>6, DeletionCreateInv, DeletionCloseInv,
     DeletionAskInv, DeletionWriteInv, DeletionAddInv,
     DeletionDeleteRowsInv, DeletionSoftDeleteInv, DeletionFailInv DEF Ve!Next, Ve!Route

LEMMA DeletionPromises == DeletionInv => Ve!TypeOK /\ Ve!DeletionTakesAll
BY DEF DeletionInv, Ve!TypeOK, DeletionArgs, DeletionVehicleRows, DeletionTableRows

-----------------------------------------------------------------------------
(* Milestones.  A check under way has awarded, or still before it, every   *)
(* level that its floor reaches, which is no higher than the total; what   *)
(* it is about to create is no higher than the highest total; and a check  *)
(* that creates an award found none, which bounds the rows.                *)
AwardChecking(r) == milestonePc[r] \in {"next", "evaluate", "vehicles", "cron", "create"}

(* What a request carries at each of its awaits. *)
AwardShape(r) ==
  /\ milestonePc[r] \in {"evaluate", "create"} => milestoneArg[r].level \in Levels
  /\ milestonePc[r] = "vehicles" => milestoneArg[r].todo = Levels
  /\ group = "counted" =>
       /\ milestonePc[r] \notin {"vehicles", "cron"}
       /\ AwardChecking(r) => milestoneArg[r].days = Null /\ lowest[r] \in Mi!Totals
  /\ group = "owned" =>
       /\ milestonePc[r] \in {"idle", "vehicles", "cron", "create"}
       /\ milestonePc[r] # "idle" => milestoneArg[r].days \in Mi!Totals

AwardSound(r) ==
  /\ milestonePc[r] = "create" => milestoneArg[r].level <= highest
  /\ AwardChecking(r) => IF group = "counted" THEN lowest[r] <= total
                         ELSE milestoneArg[r].days <= highest

(* The level is awarded, or r decides on it still. *)
AwardOpen(r, l) ==
  \/ Mi!Awarded(l) \/ l \in milestoneArg[r].todo
  \/ milestonePc[r] \in {"evaluate", "create"} /\ milestoneArg[r].level = l
AwardDecides(r) == AwardChecking(r) => \A l \in Levels : l <= Mi!Floor(r) => AwardOpen(r, l)

AwardShown(r) ==
  milestonePc[r] = "levels" =>
    \A l \in Levels : /\ l \in milestoneArg[r].todo => l <= highest
                      /\ l <= milestoneArg[r].granted => l \in milestoneArg[r].todo

AwardHolding(l) ==
  {r \in Requests : milestonePc[r] \in {"evaluate", "create"} /\ milestoneArg[r].level = l}
AwardBounded(l) == awards[l] + Cardinality(AwardHolding(l)) <= Cardinality(Requests)

AwardReached(l) == (l <= granted => Mi!Awarded(l)) /\ (Mi!Awarded(l) => l <= highest)

AwardInv ==
  /\ Mi!TypeOK
  /\ total <= highest
  /\ \A r \in Requests : AwardShape(r) /\ AwardSound(r) /\ AwardDecides(r) /\ AwardShown(r)
  /\ \A l \in Levels : AwardBounded(l) /\ AwardReached(l)

-----------------------------------------------------------------------------
LEMMA AwardFinite == IsFiniteSet(Requests)
BY GarageAssumption DEF Mi!ConstantsAssumption, IsFiniteSet, Mi!IsFiniteSet

LEMMA AwardCardinality == \A S : Mi!Cardinality(S) = Cardinality(S)
BY DEF Cardinality, Mi!Cardinality

LEMMA AwardLevelsAre == \A l \in Levels : l \in Nat /\ l > 0
BY GarageAssumption DEF Mi!ConstantsAssumption

LEMMA AwardBoundsAre ==
  /\ MaxTotal \in Nat /\ MaxRows \in Nat /\ MinTotal \in Int /\ MinTotal <= 0
  /\ Null \notin Int
BY GarageAssumption DEF Mi!ConstantsAssumption

LEMMA AwardTotalsAre ==
  /\ \A t : t \in Mi!Totals <=> t \in Int /\ MinTotal <= t /\ t <= MaxTotal
  /\ Null \notin Mi!Totals
BY AwardBoundsAre DEF Mi!Totals

LEMMA AwardNoArgsType ==
  /\ Mi!NoArgs \in Mi!Args /\ Mi!NoArgs.todo = {} /\ Mi!NoArgs.level = Null
  /\ Mi!NoArgs.days = Null
  /\ Mi!NoArgs.granted = 0
BY AwardBoundsAre DEF Mi!NoArgs, Mi!Args

LEMMA AwardHoldingFinite ==
  \A l : IsFiniteSet(AwardHolding(l)) /\ Cardinality(AwardHolding(l)) \in Nat
         /\ Cardinality(AwardHolding(l)) <= Cardinality(Requests)
         /\ Cardinality(Requests) \in Nat
<1> SUFFICES ASSUME NEW l
             PROVE  IsFiniteSet(AwardHolding(l)) /\ Cardinality(AwardHolding(l)) \in Nat
                    /\ Cardinality(AwardHolding(l)) <= Cardinality(Requests)
                    /\ Cardinality(Requests) \in Nat
  OBVIOUS
<1>1. AwardHolding(l) \subseteq Requests
  BY DEF AwardHolding
<1> QED
  BY <1>1, AwardFinite, FS_Subset, FS_CardinalityType

LEMMA AwardInitInv == Mi!Init => AwardInv
<1> SUFFICES ASSUME Mi!Init PROVE AwardInv
  OBVIOUS
<1>t. Mi!TypeOK
  <2>1. total \in Mi!Totals /\ highest \in Mi!Totals /\ granted \in 0..MaxTotal
        /\ group \in {"counted", "owned"} /\ 0 \in 0..MaxRows
    BY AwardBoundsAre DEF Mi!Init
  <2>2. awards \in [Levels -> 0..MaxRows] /\ lowest \in [Requests -> Mi!Totals \cup {Null}]
    BY <2>1 DEF Mi!Init
  <2>3. milestonePc \in [Requests -> Mi!Steps] /\ milestoneArg \in [Requests -> Mi!Args]
    BY AwardNoArgsType DEF Mi!Init, Mi!Steps
  <2> QED
    BY <2>1, <2>2, <2>3 DEF Mi!TypeOK
<1>1. \A r \in Requests : AwardShape(r) /\ AwardSound(r) /\ AwardDecides(r) /\ AwardShown(r)
  BY DEF Mi!Init, AwardShape, AwardSound, AwardDecides, AwardShown, AwardChecking
<1>2. \A l \in Levels : AwardBounded(l)
  BY AwardHoldingFinite DEF Mi!Init, AwardBounded
<1>3. \A l \in Levels : AwardReached(l)
  BY AwardLevelsAre DEF Mi!Init, AwardReached, Mi!Awarded
<1>4. total <= highest
  BY <1>t, AwardTotalsAre DEF Mi!Init, Mi!TypeOK
<1> QED
  BY <1>t, <1>1, <1>2, <1>3, <1>4 DEF AwardInv

LEMMA AwardGotoEffect ==
  ASSUME AwardInv, NEW r \in Requests, NEW step \in Mi!Steps, NEW a \in Mi!Args,
         Mi!Goto(r, step, a)
  PROVE  /\ milestonePc' \in [Requests -> Mi!Steps]
         /\ milestoneArg' \in [Requests -> Mi!Args] /\ milestonePc'[r] = step
         /\ milestoneArg'[r] = a
         /\ \A q \in Requests \ {r} : milestonePc'[q] = milestonePc[q]
              /\ milestoneArg'[q] = milestoneArg[q]
BY DEF Mi!Goto, AwardInv, Mi!TypeOK

LEMMA AwardSkipEffect ==
  ASSUME AwardInv, NEW r \in Requests, NEW l \in Levels, Mi!Skip(r, l)
  PROVE  /\ milestonePc' \in [Requests -> Mi!Steps] /\ milestoneArg' \in [Requests -> Mi!Args]
         /\ milestoneArg[r].days = Null => milestonePc'[r] = "next"
         /\ milestoneArg[r].days # Null => milestonePc'[r] = "cron"
         /\ milestoneArg'[r].todo = milestoneArg[r].todo \ {l}
         /\ milestoneArg'[r].days = milestoneArg[r].days
         /\ \A q \in Requests \ {r} : milestonePc'[q] = milestonePc[q]
              /\ milestoneArg'[q] = milestoneArg[q]
<1> DEFINE a == [milestoneArg[r] EXCEPT !.todo = @ \ {l}, !.level = Null]
           step == IF milestoneArg[r].days = Null THEN "next" ELSE "cron"
<1>1. milestoneArg[r] \in Mi!Args
  BY DEF AwardInv, Mi!TypeOK
<1>2. a \in Mi!Args /\ a.todo = milestoneArg[r].todo \ {l} /\ a.days = milestoneArg[r].days
  BY <1>1 DEF Mi!Args
<1>3. Mi!Goto(r, step, a) /\ step \in Mi!Steps
  BY DEF Mi!Skip, Mi!Steps
<1> HIDE DEF a
<1> QED
  BY <1>2, <1>3, AwardGotoEffect

(* The step that takes up level l. *)
AwardTake(r, step, l) ==
  Mi!Goto(r, step, [milestoneArg[r] EXCEPT !.todo = @ \ {l}, !.level = l])

LEMMA AwardTakeEffect ==
  ASSUME AwardInv, NEW r \in Requests, NEW l \in Levels, NEW step \in {"evaluate", "create"},
         AwardTake(r, step, l)
  PROVE  /\ milestonePc' \in [Requests -> Mi!Steps]
         /\ milestoneArg' \in [Requests -> Mi!Args] /\ milestonePc'[r] = step
         /\ milestoneArg'[r].todo = milestoneArg[r].todo \ {l}
         /\ milestoneArg'[r].days = milestoneArg[r].days /\ milestoneArg'[r].level = l
         /\ \A q \in Requests \ {r} : milestonePc'[q] = milestonePc[q]
              /\ milestoneArg'[q] = milestoneArg[q]
<1> DEFINE a == [milestoneArg[r] EXCEPT !.todo = @ \ {l}, !.level = l]
<1>1. milestoneArg[r] \in Mi!Args
  BY DEF AwardInv, Mi!TypeOK
<1>2. a \in Mi!Args /\ a.todo = milestoneArg[r].todo \ {l} /\ a.days = milestoneArg[r].days
        /\ a.level = l
  BY <1>1 DEF Mi!Args
<1>3. Mi!Goto(r, step, a) /\ step \in Mi!Steps
  BY DEF Mi!Steps, AwardTake
<1> HIDE DEF a
<1> QED
  BY <1>2, <1>3, AwardGotoEffect

LEMMA AwardBoundedKept ==
  ASSUME AwardInv, NEW l \in Levels, AwardHolding(l)' \subseteq AwardHolding(l),
         awards'[l] = awards[l]
  PROVE  AwardBounded(l)'
<1>1. /\ IsFiniteSet(AwardHolding(l)) /\ Cardinality(AwardHolding(l)) \in Nat
      /\ Cardinality(Requests) \in Nat
  BY AwardHoldingFinite
<1>2. Cardinality(AwardHolding(l)') <= Cardinality(AwardHolding(l))
        /\ Cardinality(AwardHolding(l)') \in Nat
  BY <1>1, FS_Subset, FS_CardinalityType
<1>3. awards[l] + Cardinality(AwardHolding(l)) <= Cardinality(Requests) /\ awards[l] \in Nat
  BY DEF AwardInv, AwardBounded, Mi!TypeOK
<1>4. awards'[l] + Cardinality(AwardHolding(l)') <= Cardinality(Requests)
  BY <1>1, <1>2, <1>3
<1> QED
  BY <1>4 DEF AwardBounded

(* What a step leaves to a request that it does not move: the total may    *)
(* change, and what is lowest with it; no award goes.                      *)
AwardLower(q) ==
  group = "counted" /\ AwardChecking(q) =>
    lowest'[q] \in Mi!Totals /\ lowest'[q] <= total' /\ lowest'[q] <= lowest[q]
AwardMore ==
  /\ group' = group /\ highest <= highest'
  /\ \A l \in Levels : Mi!Awarded(l) => Mi!Awarded(l)'

LEMMA AwardKept ==
  ASSUME AwardInv, NEW q \in Requests, Mi!TypeOK', AwardMore, AwardLower(q),
         milestonePc'[q] = milestonePc[q], milestoneArg'[q] = milestoneArg[q]
  PROVE  AwardShape(q)' /\ AwardSound(q)' /\ AwardDecides(q)' /\ AwardShown(q)'
<1>1. /\ AwardShape(q) /\ AwardSound(q) /\ AwardDecides(q) /\ AwardShown(q)
      /\ highest \in Int /\ highest' \in Int /\ highest <= highest' /\ group' = group
      /\ group \in {"counted", "owned"} /\ (AwardChecking(q)' <=> AwardChecking(q))
  BY AwardTotalsAre DEF AwardInv, Mi!TypeOK, AwardMore, AwardChecking
<1>2. AwardShape(q)'
  BY <1>1 DEF AwardShape, AwardLower, AwardChecking, Mi!Totals
<1>3. AwardSound(q)'
  <2>1. milestonePc[q] = "create" => milestoneArg[q].level \in Int
    BY <1>1, AwardLevelsAre DEF AwardShape
  <2>2. group = "owned" /\ AwardChecking(q) => milestoneArg[q].days \in Int
    BY <1>1, AwardTotalsAre DEF AwardShape, AwardChecking
  <2>3. milestonePc'[q] = "create" => milestoneArg'[q].level <= highest'
    BY <1>1, <2>1 DEF AwardSound
  <2>4. AwardChecking(q)' => IF group' = "counted" THEN lowest'[q] <= total'
                             ELSE milestoneArg'[q].days <= highest'
    BY <1>1, <2>2 DEF AwardSound, AwardLower
  <2> QED
    BY <2>3, <2>4 DEF AwardSound
<1>4. AwardDecides(q)'
  <2> SUFFICES ASSUME AwardChecking(q), NEW l \in Levels, l <= Mi!Floor(q)'
               PROVE  AwardOpen(q, l)'
    BY <1>1 DEF AwardDecides
  <2>1. l <= Mi!Floor(q)
    <3>1. CASE group = "counted"
      <4>1. milestoneArg[q].days = Null /\ lowest[q] \in Int /\ lowest'[q] \in Int
            /\ lowest'[q] <= lowest[q] /\ l \in Int
        BY <1>1, <3>1, AwardTotalsAre, AwardLevelsAre DEF AwardShape, AwardLower
      <4> QED
        BY <4>1 DEF Mi!Floor
    <3>2. CASE group = "owned"
      <4>1. milestoneArg[q].days # Null
        BY <1>1, <3>2, AwardTotalsAre DEF AwardShape, AwardChecking
      <4> QED
        BY <4>1 DEF Mi!Floor
    <3> QED
      BY <1>1, <3>1, <3>2
  <2>2. AwardOpen(q, l)
    BY <1>1, <2>1 DEF AwardDecides
  <2> QED
    BY <2>2 DEF AwardOpen, AwardMore
<1>5. AwardShown(q)'
  BY <1>1, AwardLevelsAre DEF AwardShown
<1> QED
  BY <1>2, <1>3, <1>4, <1>5

(* A step of one request *)
LEMMA AwardAssembled ==
  ASSUME AwardInv, NEW r \in Requests, Mi!TypeOK', AwardMore, total' <= highest',
         \A q \in Requests \ {r} : milestonePc'[q] = milestonePc[q]
           /\ milestoneArg'[q] = milestoneArg[q] /\ AwardLower(q),
         AwardShape(r)', AwardSound(r)', AwardDecides(r)', AwardShown(r)',
         \A l \in Levels : AwardBounded(l)' /\ AwardReached(l)'
  PROVE  AwardInv'
<1>1. ASSUME NEW q \in Requests
      PROVE  AwardShape(q)' /\ AwardSound(q)' /\ AwardDecides(q)' /\ AwardShown(q)'
  <2>1. CASE q = r
    BY <2>1
  <2>2. CASE q # r
    BY <2>2, AwardKept
  <2> QED
    BY <2>1, <2>2
<1> QED
  BY <1>1 DEF AwardInv

(* What a request sees of its own lowest total when nothing changes. *)
LEMMA AwardSameLower ==
  ASSUME AwardInv, NEW q \in Requests, lowest'[q] = lowest[q], total' = total
  PROVE  AwardLower(q)
<1>1. AwardShape(q) /\ AwardSound(q)
  BY DEF AwardInv
<1> QED
  BY <1>1, AwardTotalsAre DEF AwardLower, AwardShape, AwardSound

(* A step that writes no rows *)
LEMMA AwardQuiet ==
  ASSUME AwardInv, NEW r \in Requests, UNCHANGED <<group, total, awards, highest, granted>>,
         milestonePc' \in [Requests -> Mi!Steps], milestoneArg' \in [Requests -> Mi!Args],
         lowest' \in [Requests -> Mi!Totals \cup {Null}],
         \A q \in Requests \ {r} : milestonePc'[q] = milestonePc[q]
           /\ milestoneArg'[q] = milestoneArg[q] /\ lowest'[q] = lowest[q],
         \A l \in Levels : milestonePc'[r] \in {"evaluate", "create"}
                           /\ milestoneArg'[r].level = l
                           => awards[l] = 0 \/ r \in AwardHolding(l),
         AwardShape(r)', AwardSound(r)', AwardDecides(r)', AwardShown(r)'
  PROVE  AwardInv'
<1>1. Mi!TypeOK'
  BY DEF AwardInv, Mi!TypeOK, Mi!Totals
<1>2. ASSUME NEW l \in Levels PROVE AwardBounded(l)'
  <2>1. CASE awards[l] = 0
    <3>1. AwardHolding(l)' \subseteq Requests /\ awards'[l] = 0
      BY <2>1 DEF AwardHolding
    <3>2. Cardinality(AwardHolding(l)') <= Cardinality(Requests)
            /\ Cardinality(AwardHolding(l)') \in Nat
      BY <3>1, AwardFinite, FS_Subset, FS_CardinalityType
    <3> QED
      BY <3>1, <3>2 DEF AwardBounded
  <2>2. CASE awards[l] # 0
    <3>1. AwardHolding(l)' \subseteq AwardHolding(l)
      BY <2>2 DEF AwardHolding
    <3> QED
      BY <3>1, AwardBoundedKept
  <2> QED
    BY <2>1, <2>2
<1>3. \A l \in Levels : AwardReached(l)' /\ (Mi!Awarded(l) => Mi!Awarded(l)')
  BY DEF AwardInv, AwardReached, Mi!Awarded
<1>4. AwardMore /\ total' <= highest'
  BY <1>3, AwardTotalsAre DEF AwardMore, AwardInv, Mi!TypeOK
<1>5. \A q \in Requests \ {r} : AwardLower(q)
  BY AwardSameLower
<1> QED
  BY <1>1, <1>2, <1>3, <1>4, <1>5, AwardAssembled

(* A change of the total *)
LEMMA AwardChangeEffect ==
  ASSUME AwardInv, NEW t \in Mi!Totals, Mi!Change(t)
  PROVE  /\ total' = t /\ total' \in Mi!Totals /\ highest' \in Mi!Totals
         /\ total' <= highest' /\ highest <= highest'
         /\ lowest' \in [Requests -> Mi!Totals \cup {Null}]
         /\ \A q \in Requests : AwardLower(q)
<1>t. /\ t \in Int /\ highest \in Int /\ highest \in Mi!Totals
      /\ lowest \in [Requests -> Mi!Totals \cup {Null}]
  BY AwardTotalsAre DEF AwardInv, Mi!TypeOK
<1>1. total' = t /\ highest' = IF t > highest THEN t ELSE highest
  BY DEF Mi!Change
<1>2. lowest' = [r \in Requests |->
                   IF lowest[r] = Null \/ lowest[r] <= t THEN lowest[r] ELSE t]
  BY DEF Mi!Change
<1>3. highest' \in Mi!Totals /\ total' <= highest' /\ highest <= highest'
  BY <1>t, <1>1
<1>4. lowest' \in [Requests -> Mi!Totals \cup {Null}]
  BY <1>t, <1>2
<1>5. ASSUME NEW q \in Requests PROVE AwardLower(q)
  <2> SUFFICES ASSUME group = "counted", AwardChecking(q)
               PROVE  lowest'[q] \in Mi!Totals /\ lowest'[q] <= total' /\ lowest'[q] <= lowest[q]
    BY DEF AwardLower
  <2>1. lowest[q] \in Mi!Totals /\ lowest[q] \in Int /\ lowest[q] # Null
    BY AwardTotalsAre DEF AwardInv, AwardShape
  <2>2. lowest'[q] = IF lowest[q] <= t THEN lowest[q] ELSE t
    BY <1>2, <2>1
  <2> QED
    BY <1>t, <1>1, <2>1, <2>2
<1> QED
  BY <1>1, <1>3, <1>4, <1>5

LEMMA AwardReachedKept ==
  ASSUME AwardInv, highest <= highest', highest' \in Int, UNCHANGED <<awards, granted>>
  PROVE  /\ \A l \in Levels : AwardReached(l)'
         /\ \A l \in Levels : Mi!Awarded(l) => Mi!Awarded(l)'
  BY AwardLevelsAre, AwardTotalsAre DEF AwardInv, Mi!TypeOK, AwardReached, Mi!Awarded

LEMMA AwardChangeInv ==
  ASSUME AwardInv, Mi!StoreUnchecked \/ Mi!UpdateEvent \/ Mi!DeleteEvent \/ Mi!Repurchase
  PROVE  AwardInv'
<1>1. PICK t \in Mi!Totals : Mi!Change(t)
  BY DEF Mi!StoreUnchecked, Mi!UpdateEvent, Mi!DeleteEvent, Mi!Repurchase
<1>2. UNCHANGED <<group, awards, milestonePc, milestoneArg, granted>>
  BY DEF Mi!StoreUnchecked, Mi!UpdateEvent, Mi!DeleteEvent, Mi!Repurchase
<1>3. /\ total' \in Mi!Totals /\ highest' \in Mi!Totals
      /\ total' <= highest' /\ highest <= highest'
      /\ lowest' \in [Requests -> Mi!Totals \cup {Null}]
      /\ \A q \in Requests : AwardLower(q)
  BY <1>1, AwardChangeEffect
<1>4. Mi!TypeOK'
  BY <1>2, <1>3 DEF AwardInv, Mi!TypeOK, Mi!Totals
<1>5. \A l \in Levels : AwardReached(l)' /\ AwardBounded(l)'
  <2>1. \A l \in Levels : AwardBounded(l)'
    BY <1>2 DEF AwardInv, AwardBounded, AwardHolding
  <2> QED
    BY <1>2, <1>3, <2>1, AwardTotalsAre, AwardReachedKept
<1>6. AwardMore
  BY <1>2, <1>3, AwardTotalsAre, AwardReachedKept DEF AwardMore
<1>7. \A q \in Requests : AwardShape(q)' /\ AwardSound(q)' /\ AwardDecides(q)' /\ AwardShown(q)'
  BY <1>2, <1>3, <1>4, <1>6, AwardKept
<1> QED
  BY <1>3, <1>4, <1>5, <1>7 DEF AwardInv

LEMMA AwardStoreEventInv ==
  ASSUME AwardInv, NEW r \in Requests, Mi!StoreEvent(r)
  PROVE  AwardInv'
<1>1. /\ milestonePc[r] = "idle" /\ group = "counted" /\ Mi!Goto(r, "stored", Mi!NoArgs)
      /\ UNCHANGED <<group, awards, granted>>
  BY DEF Mi!StoreEvent
<1>2. PICK t \in Mi!Totals : Mi!Change(t)
  BY DEF Mi!StoreEvent
<1>3. /\ total' \in Mi!Totals /\ highest' \in Mi!Totals
      /\ total' <= highest' /\ highest <= highest'
      /\ lowest' \in [Requests -> Mi!Totals \cup {Null}]
      /\ \A q \in Requests : AwardLower(q)
  BY <1>2, AwardChangeEffect
<1>4. /\ milestonePc' \in [Requests -> Mi!Steps] /\ milestoneArg' \in [Requests -> Mi!Args]
      /\ milestonePc'[r] = "stored"
      /\ \A q \in Requests \ {r} : milestonePc'[q] = milestonePc[q]
           /\ milestoneArg'[q] = milestoneArg[q]
  BY <1>1, AwardNoArgsType, AwardGotoEffect DEF Mi!Steps
<1>5. Mi!TypeOK'
  BY <1>1, <1>3, <1>4 DEF AwardInv, Mi!TypeOK, Mi!Totals
<1>6. AwardMore /\ \A l \in Levels : AwardReached(l)'
  BY <1>1, <1>3, AwardTotalsAre, AwardReachedKept DEF AwardMore
<1>7. ASSUME NEW l \in Levels PROVE AwardBounded(l)'
  <2>1. AwardHolding(l)' \subseteq AwardHolding(l)
    BY <1>4 DEF AwardHolding
  <2> QED
    BY <2>1, <1>1, AwardBoundedKept
<1>8. AwardShape(r)' /\ AwardSound(r)' /\ AwardDecides(r)' /\ AwardShown(r)'
  BY <1>1, <1>4 DEF AwardShape, AwardSound, AwardDecides, AwardShown, AwardChecking
<1> QED
  BY <1>3, <1>4, <1>5, <1>6, <1>7, <1>8, AwardAssembled

LEMMA AwardDayPassesInv == AwardInv /\ Mi!DayPasses => AwardInv'
<1> SUFFICES ASSUME AwardInv, Mi!DayPasses PROVE AwardInv'
  OBVIOUS
<1> DEFINE counting == {r \in Requests : milestonePc[r] = "vehicles"}
           counts == {total} \cup {milestoneArg[r].days : r \in counting}
<1>1. /\ group = "owned" /\ \A n \in counts : n < MaxTotal
      /\ total' = total + 1
      /\ milestoneArg' = [r \in Requests |->
           IF r \in counting THEN [milestoneArg[r] EXCEPT !.days = @ + 1] ELSE milestoneArg[r]]
      /\ highest' = IF highest \in counts THEN highest + 1 ELSE highest
      /\ UNCHANGED <<group, awards, milestonePc, lowest, granted>>
  BY DEF Mi!DayPasses
<1>t. total \in Int /\ highest \in Int /\ total <= highest /\ total \in Mi!Totals
      /\ highest \in Mi!Totals /\ MaxTotal \in Nat /\ MinTotal \in Int
  BY AwardTotalsAre, AwardBoundsAre DEF AwardInv, Mi!TypeOK
<1>2. ASSUME NEW r \in counting
      PROVE  /\ milestoneArg[r].days \in Int /\ milestoneArg[r].days \in Mi!Totals
             /\ milestoneArg[r].days <= highest /\ milestoneArg[r].todo = Levels
  BY <1>1, AwardTotalsAre DEF AwardInv, AwardShape, AwardSound, AwardChecking
<1>3. \A n \in counts : n \in Int /\ n <= highest /\ n + 1 <= highest' /\ n + 1 \in Mi!Totals
  <2> SUFFICES ASSUME NEW n \in counts
               PROVE  n \in Int /\ n <= highest /\ n + 1 <= highest' /\ n + 1 \in Mi!Totals
    OBVIOUS
  <2>1. n \in Int /\ n <= highest /\ n \in Mi!Totals
    BY <1>2, <1>t
  <2>2. highest' = IF highest \in counts THEN highest + 1 ELSE highest
    BY <1>1
  <2>3. n < MaxTotal /\ (n = highest => highest \in counts)
    BY <1>1
  <2> HIDE DEF counts
  <2> QED
    BY <2>1, <2>2, <2>3, <1>t, AwardTotalsAre
<1>4. highest' \in Mi!Totals /\ highest <= highest' /\ total' <= highest' /\ total' \in Mi!Totals
  <2>1. total \in counts
    OBVIOUS
  <2>2. highest' = IF highest \in counts THEN highest + 1 ELSE highest
    BY <1>1
  <2>3. highest \in counts => highest + 1 \in Mi!Totals
    BY <1>3
  <2> HIDE DEF counts
  <2> QED
    BY <2>1, <2>2, <2>3, <1>1, <1>3, <1>t
<1>5. ASSUME NEW r \in counting
      PROVE  /\ milestoneArg'[r] \in Mi!Args /\ milestoneArg'[r].todo = Levels
             /\ milestoneArg'[r].days \in Mi!Totals /\ milestoneArg'[r].days <= highest'
  <2>1. milestoneArg'[r] = [milestoneArg[r] EXCEPT !.days = @ + 1] /\ milestoneArg[r] \in Mi!Args
    BY <1>1 DEF AwardInv, Mi!TypeOK
  <2>2. milestoneArg[r].days + 1 \in Mi!Totals /\ milestoneArg[r].days + 1 <= highest'
    BY <1>3
  <2> QED
    BY <2>1, <2>2, <1>2 DEF Mi!Args
<1>6. \A r \in Requests \ counting : milestoneArg'[r] = milestoneArg[r]
  BY <1>1
<1> HIDE DEF counts
<1>7. Mi!TypeOK'
  <2>1. \A r \in Requests : milestoneArg'[r] \in Mi!Args
    BY <1>5, <1>6 DEF AwardInv, Mi!TypeOK
  <2>2. milestoneArg' \in [Requests -> Mi!Args]
    BY <1>1, <2>1
  <2> QED
    BY <1>1, <1>4, <2>2 DEF AwardInv, Mi!TypeOK, Mi!Totals
<1>8. AwardMore /\ \A l \in Levels : AwardReached(l)'
  BY <1>1, <1>4, <1>t, AwardTotalsAre, AwardReachedKept DEF AwardMore
<1>9. ASSUME NEW l \in Levels PROVE AwardBounded(l)'
  <2>1. AwardHolding(l)' \subseteq AwardHolding(l)
    BY <1>1, <1>6 DEF AwardHolding
  <2> QED
    BY <2>1, <1>1, AwardBoundedKept
<1>10. ASSUME NEW r \in Requests
       PROVE AwardShape(r)' /\ AwardSound(r)' /\ AwardDecides(r)' /\ AwardShown(r)'
  <2>1. CASE r \in counting
    <3>1. milestonePc'[r] = "vehicles" /\ group' = "owned"
      BY <1>1, <2>1
    <3> QED
      BY <3>1, <2>1, <1>5 DEF AwardShape, AwardSound, AwardDecides, AwardOpen, AwardShown,
         AwardChecking
  <2>2. CASE r \notin counting
    <3>1. AwardLower(r)
      BY <1>1 DEF AwardLower
    <3> QED
      BY <2>2, <3>1, <1>1, <1>6, <1>7, <1>8, AwardKept
  <2> QED
    BY <2>1, <2>2
<1> QED
  BY <1>4, <1>7, <1>8, <1>9, <1>10 DEF AwardInv

LEMMA AwardOpenCheckInv ==
  ASSUME AwardInv, NEW r \in Requests, Mi!OpenCheck(r)
  PROVE  AwardInv'
<1> DEFINE a == [Mi!NoArgs EXCEPT !.todo = Levels]
<1>1. a \in Mi!Args /\ a.todo = Levels /\ a.days = Null
  BY AwardNoArgsType DEF Mi!Args
<1>2. /\ milestonePc[r] = "stored" /\ Mi!Goto(r, "next", a)
      /\ lowest' = [lowest EXCEPT ![r] = total]
      /\ UNCHANGED <<group, total, awards, highest, granted>>
  BY DEF Mi!OpenCheck
<1> HIDE DEF a
<1>3. /\ milestonePc' \in [Requests -> Mi!Steps] /\ milestoneArg' \in [Requests -> Mi!Args]
      /\ milestonePc'[r] = "next" /\ milestoneArg'[r] = a
      /\ \A q \in Requests \ {r} : milestonePc'[q] = milestonePc[q]
           /\ milestoneArg'[q] = milestoneArg[q]
  BY <1>1, <1>2, AwardGotoEffect DEF Mi!Steps
<1>4. /\ lowest' \in [Requests -> Mi!Totals \cup {Null}] /\ lowest'[r] = total
      /\ total \in Mi!Totals /\ total \in Int
      /\ \A q \in Requests \ {r} : lowest'[q] = lowest[q]
  BY <1>2, AwardTotalsAre DEF AwardInv, Mi!TypeOK
<1>5. group = "counted"
  BY <1>2 DEF AwardInv, AwardShape, Mi!TypeOK
<1>6. AwardShape(r)' /\ AwardSound(r)' /\ AwardDecides(r)' /\ AwardShown(r)'
  BY <1>1, <1>2, <1>3, <1>4, <1>5
     DEF AwardShape, AwardSound, AwardDecides, AwardOpen, AwardShown, AwardChecking, Mi!Totals
<1> QED
  BY <1>2, <1>3, <1>4, <1>6, AwardQuiet

LEMMA AwardOpenCronInv ==
  ASSUME AwardInv, NEW r \in Requests, Mi!OpenCron(r)
  PROVE  AwardInv'
<1> DEFINE a == [Mi!NoArgs EXCEPT !.todo = Levels, !.days = total]
<1>t. total \in Mi!Totals /\ lowest \in [Requests -> Mi!Totals \cup {Null}]
  BY DEF AwardInv, Mi!TypeOK
<1>1. a \in Mi!Args /\ a.todo = Levels /\ a.days = total
  BY AwardNoArgsType, <1>t DEF Mi!Args
<1>2. /\ milestonePc[r] = "idle" /\ group = "owned" /\ Mi!Goto(r, "vehicles", a)
      /\ UNCHANGED <<group, total, awards, highest, lowest, granted>>
  BY DEF Mi!OpenCron
<1> HIDE DEF a
<1>3. /\ milestonePc' \in [Requests -> Mi!Steps] /\ milestoneArg' \in [Requests -> Mi!Args]
      /\ milestonePc'[r] = "vehicles" /\ milestoneArg'[r] = a
      /\ \A q \in Requests \ {r} : milestonePc'[q] = milestonePc[q]
           /\ milestoneArg'[q] = milestoneArg[q]
  BY <1>1, <1>2, AwardGotoEffect DEF Mi!Steps
<1>4. total <= highest
  BY DEF AwardInv
<1>5. AwardShape(r)' /\ AwardSound(r)' /\ AwardDecides(r)' /\ AwardShown(r)'
  BY <1>1, <1>2, <1>3, <1>4, <1>t
     DEF AwardShape, AwardSound, AwardDecides, AwardOpen, AwardShown, AwardChecking, Mi!Totals
<1> QED
  BY <1>2, <1>3, <1>5, <1>t, AwardQuiet

LEMMA AwardCountDaysInv ==
  ASSUME AwardInv, NEW r \in Requests, Mi!CountDays(r)
  PROVE  AwardInv'
<1>1. /\ milestonePc[r] = "vehicles" /\ Mi!Goto(r, "cron", milestoneArg[r])
      /\ UNCHANGED <<group, total, awards, highest, lowest, granted>>
      /\ milestoneArg[r] \in Mi!Args /\ lowest \in [Requests -> Mi!Totals \cup {Null}]
      /\ AwardShape(r) /\ AwardSound(r) /\ AwardDecides(r)
  BY DEF Mi!CountDays, AwardInv, Mi!TypeOK
<1>2. /\ milestonePc' \in [Requests -> Mi!Steps] /\ milestoneArg' \in [Requests -> Mi!Args]
      /\ milestonePc'[r] = "cron" /\ milestoneArg'[r] = milestoneArg[r]
      /\ \A q \in Requests \ {r} : milestonePc'[q] = milestonePc[q]
           /\ milestoneArg'[q] = milestoneArg[q]
  BY <1>1, AwardGotoEffect DEF Mi!Steps
<1>3. group = "owned"
  BY <1>1 DEF AwardInv, AwardShape, Mi!TypeOK
<1>4. AwardShape(r)' /\ AwardSound(r)' /\ AwardDecides(r)' /\ AwardShown(r)'
  BY <1>1, <1>2, <1>3
     DEF AwardShape, AwardSound, AwardDecides, AwardOpen, AwardShown, AwardChecking,
         Mi!Totals, Mi!Floor, Mi!Awarded
<1> QED
  BY <1>1, <1>2, <1>4, AwardQuiet

(* The step that goes to the next level, with l awarded or below the floor. *)
LEMMA AwardSkipKeeps ==
  ASSUME AwardInv, NEW r \in Requests, NEW l \in Levels, Mi!Skip(r, l), AwardChecking(r),
         milestonePc[r] \in {"evaluate", "create"} => milestoneArg[r].level = l,
         milestonePc[r] # "vehicles",
         UNCHANGED <<group, total, highest, lowest>>,
         \A k \in Levels : Mi!Awarded(k) => Mi!Awarded(k)',
         Mi!Awarded(l)' \/ ~(l <= Mi!Floor(r))
  PROVE  AwardShape(r)' /\ AwardSound(r)' /\ AwardDecides(r)' /\ AwardShown(r)'
<1>1. /\ AwardShape(r) /\ AwardSound(r) /\ AwardDecides(r) /\ group \in {"counted", "owned"}
      /\ milestonePc' \in [Requests -> Mi!Steps]
      /\ milestoneArg[r].days = Null => milestonePc'[r] = "next"
      /\ milestoneArg[r].days # Null => milestonePc'[r] = "cron"
      /\ milestoneArg'[r].todo = milestoneArg[r].todo \ {l}
      /\ milestoneArg'[r].days = milestoneArg[r].days
  BY AwardSkipEffect DEF AwardInv, Mi!TypeOK
<1>2. group = "counted" <=> milestoneArg[r].days = Null
  BY <1>1, AwardTotalsAre DEF AwardShape, AwardChecking
<1>3. AwardShape(r)' /\ AwardSound(r)' /\ AwardShown(r)'
  BY <1>1, <1>2 DEF AwardShape, AwardSound, AwardShown, AwardChecking, Mi!Totals
<1>4. AwardDecides(r)'
  <2> SUFFICES ASSUME NEW k \in Levels, k <= Mi!Floor(r) PROVE AwardOpen(r, k)'
    BY <1>1 DEF AwardDecides, Mi!Floor
  <2>1. AwardOpen(r, k)
    BY <1>1 DEF AwardDecides
  <2>2. CASE k = l
    BY <2>2 DEF AwardOpen
  <2>3. CASE k # l
    BY <2>1, <2>3, <1>1 DEF AwardOpen
  <2> QED
    BY <2>2, <2>3
<1> QED
  BY <1>3, <1>4

LEMMA AwardFindInv ==
  ASSUME AwardInv, NEW r \in Requests, NEW l \in Levels, Mi!Find(r, l)
  PROVE  AwardInv'
<1>1. /\ milestonePc[r] = "next" /\ UNCHANGED <<group, total, awards, highest, lowest, granted>>
      /\ AwardShape(r) /\ AwardSound(r) /\ AwardDecides(r) /\ awards[l] \in Nat
      /\ lowest \in [Requests -> Mi!Totals \cup {Null}]
  BY DEF Mi!Find, AwardInv, Mi!TypeOK
<1>2. group = "counted" /\ milestoneArg[r].days = Null /\ AwardChecking(r)
  BY <1>1 DEF AwardShape, AwardChecking, AwardInv, Mi!TypeOK
<1>3. CASE Mi!Awarded(l)
  <2>1. Mi!Skip(r, l)
    BY <1>3 DEF Mi!Find
  <2>2. /\ milestonePc' \in [Requests -> Mi!Steps] /\ milestonePc'[r] = "next"
        /\ milestoneArg' \in [Requests -> Mi!Args]
        /\ \A q \in Requests \ {r} : milestonePc'[q] = milestonePc[q]
             /\ milestoneArg'[q] = milestoneArg[q]
    BY <1>2, <2>1, AwardSkipEffect
  <2>3. \A k \in Levels : Mi!Awarded(k)' <=> Mi!Awarded(k)
    BY <1>1 DEF Mi!Awarded
  <2>4. AwardShape(r)' /\ AwardSound(r)' /\ AwardDecides(r)' /\ AwardShown(r)'
    BY <1>1, <1>2, <1>3, <2>1, <2>3, AwardSkipKeeps
  <2> QED
    BY <1>1, <2>2, <2>4, AwardQuiet
<1>4. CASE ~Mi!Awarded(l)
  <2>1. AwardTake(r, "evaluate", l)
    BY <1>4 DEF Mi!Find, AwardTake
  <2>2. /\ milestonePc' \in [Requests -> Mi!Steps]
        /\ milestoneArg' \in [Requests -> Mi!Args] /\ milestonePc'[r] = "evaluate"
        /\ milestoneArg'[r].todo = milestoneArg[r].todo \ {l}
        /\ milestoneArg'[r].days = Null /\ milestoneArg'[r].level = l
        /\ \A q \in Requests \ {r} : milestonePc'[q] = milestonePc[q]
             /\ milestoneArg'[q] = milestoneArg[q]
    BY <1>2, <2>1, AwardTakeEffect
  <2>3. AwardShape(r)' /\ AwardSound(r)' /\ AwardShown(r)'
    BY <1>1, <1>2, <2>2 DEF AwardShape, AwardSound, AwardShown, AwardChecking, Mi!Totals
  <2>4. AwardDecides(r)'
    BY <1>1, <1>2, <2>2 DEF AwardDecides, AwardOpen, AwardChecking, Mi!Floor, Mi!Awarded
  <2>5. awards[l] = 0
    BY <1>1, <1>4 DEF Mi!Awarded
  <2> QED
    BY <1>1, <2>2, <2>3, <2>4, <2>5, AwardQuiet
<1> QED
  BY <1>3, <1>4

LEMMA AwardCronFindInv ==
  ASSUME AwardInv, NEW r \in Requests, NEW l \in Levels, Mi!CronFind(r, l)
  PROVE  AwardInv'
<1>1. /\ milestonePc[r] = "cron" /\ UNCHANGED <<group, total, awards, highest, lowest, granted>>
      /\ AwardShape(r) /\ AwardSound(r) /\ AwardDecides(r) /\ awards[l] \in Nat
      /\ lowest \in [Requests -> Mi!Totals \cup {Null}] /\ highest \in Int /\ l \in Nat
  BY AwardLevelsAre, AwardTotalsAre DEF Mi!CronFind, AwardInv, Mi!TypeOK
<1>2. /\ group = "owned" /\ milestoneArg[r].days \in Int /\ milestoneArg[r].days # Null
      /\ AwardChecking(r) /\ milestoneArg[r].days <= highest
  BY <1>1, AwardTotalsAre DEF AwardShape, AwardSound, AwardChecking, AwardInv, Mi!TypeOK
<1>3. CASE Mi!Awarded(l) \/ milestoneArg[r].days < l
  <2>1. Mi!Skip(r, l)
    BY <1>3 DEF Mi!CronFind
  <2>2. /\ milestonePc' \in [Requests -> Mi!Steps] /\ milestonePc'[r] = "cron"
        /\ milestoneArg' \in [Requests -> Mi!Args]
        /\ \A q \in Requests \ {r} : milestonePc'[q] = milestonePc[q]
             /\ milestoneArg'[q] = milestoneArg[q]
    BY <1>2, <2>1, AwardSkipEffect
  <2>3. \A k \in Levels : Mi!Awarded(k)' <=> Mi!Awarded(k)
    BY <1>1 DEF Mi!Awarded
  <2>4. Mi!Awarded(l)' \/ ~(l <= Mi!Floor(r))
    BY <1>1, <1>2, <1>3, <2>3 DEF Mi!Floor
  <2>5. AwardShape(r)' /\ AwardSound(r)' /\ AwardDecides(r)' /\ AwardShown(r)'
    BY <1>1, <1>2, <2>1, <2>3, <2>4, AwardSkipKeeps
  <2> QED
    BY <1>1, <2>2, <2>5, AwardQuiet
<1>4. CASE ~(Mi!Awarded(l) \/ milestoneArg[r].days < l)
  <2>1. AwardTake(r, "create", l)
    BY <1>4 DEF Mi!CronFind, AwardTake
  <2>2. /\ milestonePc' \in [Requests -> Mi!Steps]
        /\ milestoneArg' \in [Requests -> Mi!Args] /\ milestonePc'[r] = "create"
        /\ milestoneArg'[r].todo = milestoneArg[r].todo \ {l}
        /\ milestoneArg'[r].days = milestoneArg[r].days /\ milestoneArg'[r].level = l
        /\ \A q \in Requests \ {r} : milestonePc'[q] = milestonePc[q]
             /\ milestoneArg'[q] = milestoneArg[q]
    BY <2>1, AwardTakeEffect
  <2>3. l <= highest
    BY <1>1, <1>2, <1>4
  <2>4. AwardShape(r)' /\ AwardSound(r)' /\ AwardShown(r)'
    BY <1>1, <1>2, <2>2, <2>3 DEF AwardShape, AwardSound, AwardShown, AwardChecking, Mi!Totals
  <2>5. AwardDecides(r)'
    BY <1>1, <1>2, <2>2 DEF AwardDecides, AwardOpen, AwardChecking, Mi!Floor, Mi!Awarded
  <2>6. awards[l] = 0
    BY <1>1, <1>4 DEF Mi!Awarded
  <2> QED
    BY <1>1, <2>2, <2>4, <2>5, <2>6, AwardQuiet
<1> QED
  BY <1>3, <1>4

LEMMA AwardEvaluateInv ==
  ASSUME AwardInv, NEW r \in Requests, Mi!Evaluate(r)
  PROVE  AwardInv'
<1>1. /\ milestonePc[r] = "evaluate"
      /\ UNCHANGED <<group, total, awards, highest, lowest, granted>>
      /\ AwardShape(r) /\ AwardSound(r) /\ AwardDecides(r) /\ milestoneArg[r] \in Mi!Args
      /\ lowest \in [Requests -> Mi!Totals \cup {Null}]
  BY DEF Mi!Evaluate, AwardInv, Mi!TypeOK
<1>2. /\ group = "counted" /\ milestoneArg[r].days = Null /\ AwardChecking(r)
      /\ lowest[r] \in Mi!Totals /\ lowest[r] <= total
  BY <1>1 DEF AwardShape, AwardSound, AwardChecking, AwardInv, Mi!TypeOK
<1>3. PICK l \in Levels : l = milestoneArg[r].level
  BY <1>1 DEF AwardShape
<1>t. /\ total \in Int /\ highest \in Int /\ lowest[r] \in Int /\ total <= highest /\ l \in Int
  BY <1>2, AwardTotalsAre, AwardLevelsAre DEF AwardInv, Mi!TypeOK
<1>4. r \in AwardHolding(l)
  BY <1>1, <1>3 DEF AwardHolding
<1>5. CASE total >= l
  <2>1. Mi!Goto(r, "create", milestoneArg[r])
    BY <1>3, <1>5 DEF Mi!Evaluate
  <2>2. /\ milestonePc' \in [Requests -> Mi!Steps]
        /\ milestoneArg' \in [Requests -> Mi!Args] /\ milestonePc'[r] = "create"
        /\ milestoneArg'[r] = milestoneArg[r]
        /\ \A q \in Requests \ {r} : milestonePc'[q] = milestonePc[q]
             /\ milestoneArg'[q] = milestoneArg[q]
    BY <1>1, <2>1, AwardGotoEffect DEF Mi!Steps
  <2>3. l <= highest
    BY <1>5, <1>t
  <2>4. AwardShape(r)' /\ AwardSound(r)' /\ AwardShown(r)'
    BY <1>1, <1>2, <1>3, <2>2, <2>3
       DEF AwardShape, AwardSound, AwardShown, AwardChecking, Mi!Totals
  <2>5. AwardDecides(r)'
    BY <1>1, <1>2, <2>2 DEF AwardDecides, AwardOpen, AwardChecking, Mi!Floor, Mi!Awarded
  <2> QED
    BY <1>1, <1>3, <1>4, <2>2, <2>4, <2>5, AwardQuiet
<1>6. CASE ~(total >= l)
  <2>1. Mi!Skip(r, l)
    BY <1>3, <1>6 DEF Mi!Evaluate
  <2>2. /\ milestonePc' \in [Requests -> Mi!Steps] /\ milestonePc'[r] = "next"
        /\ milestoneArg' \in [Requests -> Mi!Args]
        /\ \A q \in Requests \ {r} : milestonePc'[q] = milestonePc[q]
             /\ milestoneArg'[q] = milestoneArg[q]
    BY <1>2, <2>1, AwardSkipEffect
  <2>3. \A k \in Levels : Mi!Awarded(k)' <=> Mi!Awarded(k)
    BY <1>1 DEF Mi!Awarded
  <2>4. ~(l <= Mi!Floor(r))
    BY <1>2, <1>6, <1>t DEF Mi!Floor
  <2>5. AwardShape(r)' /\ AwardSound(r)' /\ AwardDecides(r)' /\ AwardShown(r)'
    BY <1>1, <1>2, <1>3, <2>1, <2>3, <2>4, AwardSkipKeeps
  <2> QED
    BY <1>1, <2>2, <2>5, AwardQuiet
<1> QED
  BY <1>5, <1>6

LEMMA AwardCreateInv ==
  ASSUME AwardInv, NEW r \in Requests, Mi!Create(r)
  PROVE  AwardInv'
<1>1. /\ milestonePc[r] = "create" /\ UNCHANGED <<group, total, highest, lowest, granted>>
      /\ AwardShape(r) /\ AwardSound(r) /\ milestoneArg[r] \in Mi!Args /\ AwardChecking(r)
  BY DEF Mi!Create, AwardInv, Mi!TypeOK, AwardChecking
<1>2. PICK l \in Levels : l = milestoneArg[r].level
  BY <1>1 DEF AwardShape
<1>3. /\ awards[l] < MaxRows /\ awards' = [awards EXCEPT ![l] = @ + 1]
      /\ awards \in [Levels -> 0..MaxRows] /\ MaxRows \in Nat /\ Mi!Skip(r, l)
  BY <1>2, AwardBoundsAre DEF Mi!Create, AwardInv, Mi!TypeOK
<1>4. /\ awards' \in [Levels -> 0..MaxRows] /\ awards'[l] = awards[l] + 1
      /\ \A k \in Levels \ {l} : awards'[k] = awards[k]
      /\ \A k \in Levels : awards[k] \in Nat
  <2>1. awards[l] + 1 \in 0..MaxRows
    BY <1>3
  <2> QED
    BY <1>3, <2>1
<1>5. /\ milestonePc' \in [Requests -> Mi!Steps] /\ milestoneArg' \in [Requests -> Mi!Args]
      /\ milestonePc'[r] \in {"next", "cron"}
      /\ \A q \in Requests \ {r} : milestonePc'[q] = milestonePc[q]
           /\ milestoneArg'[q] = milestoneArg[q]
  BY <1>3, AwardSkipEffect
<1>6. Mi!Awarded(l)' /\ \A k \in Levels : (Mi!Awarded(k) => Mi!Awarded(k)')
        /\ (k # l => (Mi!Awarded(k)' => Mi!Awarded(k)))
  BY <1>4 DEF Mi!Awarded
<1>7. Mi!TypeOK'
  BY <1>1, <1>4, <1>5 DEF AwardInv, Mi!TypeOK, Mi!Totals
<1>8. AwardShape(r)' /\ AwardSound(r)' /\ AwardDecides(r)' /\ AwardShown(r)'
  BY <1>1, <1>2, <1>3, <1>6, AwardSkipKeeps
<1>9. ASSUME NEW k \in Levels \ {l} PROVE AwardBounded(k)'
  <2>1. AwardHolding(k)' \subseteq AwardHolding(k)
    BY <1>5 DEF AwardHolding
  <2> QED
    BY <2>1, <1>4, AwardBoundedKept
<1>10. AwardBounded(l)'
  <2>1. r \in AwardHolding(l) /\ AwardHolding(l)' \subseteq AwardHolding(l) \ {r}
    BY <1>1, <1>2, <1>5 DEF AwardHolding
  <2>2. IsFiniteSet(AwardHolding(l)) /\ Cardinality(AwardHolding(l)) \in Nat
          /\ Cardinality(Requests) \in Nat
    BY AwardHoldingFinite
  <2>3. /\ Cardinality(AwardHolding(l) \ {r}) = Cardinality(AwardHolding(l)) - 1
        /\ IsFiniteSet(AwardHolding(l) \ {r})
    BY <2>1, <2>2, FS_RemoveElement
  <2>4. /\ Cardinality(AwardHolding(l)') <= Cardinality(AwardHolding(l)) - 1
        /\ Cardinality(AwardHolding(l)') \in Nat
    BY <2>1, <2>3, FS_Subset, FS_CardinalityType
  <2>5. awards[l] + Cardinality(AwardHolding(l)) <= Cardinality(Requests) /\ awards[l] \in Nat
    BY <1>4 DEF AwardInv, AwardBounded
  <2>6. awards'[l] + Cardinality(AwardHolding(l)') <= Cardinality(Requests)
    BY <2>2, <2>4, <2>5, <1>4
  <2> QED
    BY <2>6 DEF AwardBounded
<1>11. ASSUME NEW k \in Levels PROVE AwardReached(k)'
  <2>1. AwardReached(k) /\ l <= highest
    BY <1>1, <1>2 DEF AwardInv, AwardSound
  <2> QED
    BY <2>1, <1>1, <1>6 DEF AwardReached
<1>12. AwardMore /\ total' <= highest'
  BY <1>1, <1>6, AwardTotalsAre DEF AwardMore, AwardInv, Mi!TypeOK
<1>13. \A q \in Requests \ {r} : AwardLower(q)
  BY <1>1, AwardSameLower
<1> QED
  BY <1>5, <1>7, <1>8, <1>9, <1>10, <1>11, <1>12, <1>13, AwardAssembled

(* A check that comes to its end has awarded what its floor reaches. *)
LEMMA AwardDoneInv ==
  ASSUME AwardInv, NEW r \in Requests, Mi!Done(r)
  PROVE  AwardInv'
<1>1. /\ milestonePc[r] \in {"next", "cron"} /\ milestoneArg[r].todo = {}
      /\ Mi!Goto(r, "idle", Mi!NoArgs)
      /\ lowest' = [lowest EXCEPT ![r] = Null]
      /\ granted' = IF Mi!Floor(r) > granted THEN Mi!Floor(r) ELSE granted
      /\ UNCHANGED <<group, total, awards, highest>>
      /\ AwardShape(r) /\ AwardDecides(r)
  BY DEF Mi!Done, AwardInv
<1>2. /\ milestonePc' \in [Requests -> Mi!Steps]
      /\ milestoneArg' \in [Requests -> Mi!Args] /\ milestonePc'[r] = "idle"
      /\ \A q \in Requests \ {r} : milestonePc'[q] = milestonePc[q]
           /\ milestoneArg'[q] = milestoneArg[q]
  BY <1>1, AwardNoArgsType, AwardGotoEffect DEF Mi!Steps
<1>3. Mi!Floor(r) \in Mi!Totals /\ Mi!Floor(r) \in Int /\ Mi!Floor(r) <= MaxTotal
  BY <1>1, AwardTotalsAre DEF AwardShape, AwardChecking, Mi!Floor, AwardInv, Mi!TypeOK
<1>4. /\ granted \in 0..MaxTotal /\ granted' \in 0..MaxTotal
      /\ lowest' \in [Requests -> Mi!Totals \cup {Null}]
      /\ \A q \in Requests \ {r} : lowest'[q] = lowest[q]
  BY <1>1, <1>3, AwardBoundsAre DEF AwardInv, Mi!TypeOK
<1>5. Mi!TypeOK'
  BY <1>1, <1>2, <1>4 DEF AwardInv, Mi!TypeOK, Mi!Totals
<1>6. AwardShape(r)' /\ AwardSound(r)' /\ AwardDecides(r)' /\ AwardShown(r)'
  BY <1>2 DEF AwardShape, AwardSound, AwardDecides, AwardShown, AwardChecking
<1>7. ASSUME NEW l \in Levels PROVE AwardBounded(l)'
  <2>1. AwardHolding(l)' \subseteq AwardHolding(l)
    BY <1>2 DEF AwardHolding
  <2> QED
    BY <2>1, <1>1, AwardBoundedKept
<1>8. ASSUME NEW l \in Levels PROVE AwardReached(l)'
  <2>1. AwardReached(l) /\ (Mi!Awarded(l)' <=> Mi!Awarded(l))
    BY <1>1 DEF AwardInv, Mi!Awarded
  <2>2. l <= Mi!Floor(r) => Mi!Awarded(l)
    BY <1>1 DEF AwardDecides, AwardOpen, AwardChecking
  <2> QED
    BY <2>1, <2>2, <1>1 DEF AwardReached
<1>9. AwardMore /\ total' <= highest'
  BY <1>1, AwardTotalsAre DEF AwardMore, AwardInv, Mi!TypeOK, Mi!Awarded
<1>10. \A q \in Requests \ {r} : AwardLower(q)
  BY <1>1, <1>4, AwardSameLower
<1> QED
  BY <1>2, <1>5, <1>6, <1>7, <1>8, <1>9, <1>10, AwardAssembled

LEMMA AwardIdleInv ==
  ASSUME AwardInv, NEW r \in Requests, Mi!AnswerLevels(r) \/ Mi!Fail(r)
  PROVE  AwardInv'
<1>1. /\ Mi!Goto(r, "idle", Mi!NoArgs)
      /\ UNCHANGED <<group, total, awards, highest, granted>>
      /\ lowest \in [Requests -> Mi!Totals \cup {Null}]
      /\ lowest' = lowest \/ lowest' = [lowest EXCEPT ![r] = Null]
  BY DEF Mi!AnswerLevels, Mi!Fail, AwardInv, Mi!TypeOK
<1>2. /\ milestonePc' \in [Requests -> Mi!Steps]
      /\ milestoneArg' \in [Requests -> Mi!Args] /\ milestonePc'[r] = "idle"
      /\ \A q \in Requests \ {r} : milestonePc'[q] = milestonePc[q]
           /\ milestoneArg'[q] = milestoneArg[q]
  BY <1>1, AwardNoArgsType, AwardGotoEffect DEF Mi!Steps
<1>3. /\ lowest' \in [Requests -> Mi!Totals \cup {Null}]
      /\ \A q \in Requests \ {r} : lowest'[q] = lowest[q]
  BY <1>1
<1>4. AwardShape(r)' /\ AwardSound(r)' /\ AwardDecides(r)' /\ AwardShown(r)'
  BY <1>2 DEF AwardShape, AwardSound, AwardDecides, AwardShown, AwardChecking
<1> QED
  BY <1>1, <1>2, <1>3, <1>4, AwardQuiet

LEMMA AwardOpenLevelsInv ==
  ASSUME AwardInv, NEW r \in Requests, Mi!OpenLevels(r)
  PROVE  AwardInv'
<1> DEFINE told == {l \in Levels : Mi!Awarded(l)}
           a == [Mi!NoArgs EXCEPT !.todo = told, !.granted = granted]
<1>t. granted \in 0..MaxTotal /\ lowest \in [Requests -> Mi!Totals \cup {Null}]
  BY DEF AwardInv, Mi!TypeOK
<1>1. a \in Mi!Args /\ a.todo = told /\ a.granted = granted
  <2>1. told \in SUBSET Levels
    OBVIOUS
  <2>2. Mi!NoArgs \in Mi!Args
    BY AwardNoArgsType
  <2> HIDE DEF told
  <2>3. a.todo = told
    BY <2>2 DEF Mi!Args
  <2>4. a.granted = granted
    BY <2>2 DEF Mi!Args
  <2>5. a \in Mi!Args
    BY <2>1, <2>2, <1>t DEF Mi!Args
  <2> QED
    BY <2>3, <2>4, <2>5
<1>2. /\ milestonePc[r] = "idle" /\ group = "counted" /\ Mi!Goto(r, "levels", a)
      /\ UNCHANGED <<group, total, awards, highest, lowest, granted>>
  BY DEF Mi!OpenLevels
<1> HIDE DEF a
<1>3. /\ milestonePc' \in [Requests -> Mi!Steps]
      /\ milestoneArg' \in [Requests -> Mi!Args] /\ milestonePc'[r] = "levels"
      /\ milestoneArg'[r] = a
      /\ \A q \in Requests \ {r} : milestonePc'[q] = milestonePc[q]
           /\ milestoneArg'[q] = milestoneArg[q]
  BY <1>1, <1>2, AwardGotoEffect DEF Mi!Steps
<1>4. AwardShape(r)' /\ AwardSound(r)' /\ AwardDecides(r)'
  BY <1>2, <1>3 DEF AwardShape, AwardSound, AwardDecides, AwardChecking
<1>5. AwardShown(r)'
  <2>1. \A l \in Levels : AwardReached(l)
    BY DEF AwardInv
  <2> QED
    BY <1>1, <1>2, <1>3, <2>1 DEF AwardShown, AwardReached
<1> QED
  BY <1>2, <1>3, <1>4, <1>5, <1>t, AwardQuiet

LEMMA AwardNextInv == AwardInv /\ [Mi!Next]_(Mi!vars) => AwardInv'
<1> SUFFICES ASSUME AwardInv, [Mi!Next]_(Mi!vars) PROVE AwardInv'
  OBVIOUS
<1>1. CASE UNCHANGED Mi!vars
  <2>1. UNCHANGED <<group, total, awards, milestonePc, milestoneArg, highest, lowest, granted>>
    BY <1>1 DEF Mi!vars
  <2>2. /\ Mi!TypeOK' <=> Mi!TypeOK
        /\ \A r \in Requests : /\ AwardShape(r)' <=> AwardShape(r)
                               /\ AwardSound(r)' <=> AwardSound(r)
                               /\ AwardShown(r)' <=> AwardShown(r)
    BY <2>1 DEF Mi!TypeOK, AwardShape, AwardSound, AwardShown, AwardChecking, Mi!Totals
  <2>3. \A r \in Requests : AwardDecides(r)' <=> AwardDecides(r)
    BY <2>1 DEF AwardDecides, AwardOpen, AwardChecking, Mi!Floor, Mi!Awarded
  <2>4. \A l \in Levels : /\ AwardBounded(l)' <=> AwardBounded(l)
                          /\ AwardReached(l)' <=> AwardReached(l)
    BY <2>1 DEF AwardBounded, AwardHolding, AwardReached, Mi!Awarded
  <2> QED
    BY <2>1, <2>2, <2>3, <2>4 DEF AwardInv
<1>2. CASE Mi!Next
  BY <1>2, AwardChangeInv, AwardStoreEventInv, AwardOpenCheckInv, AwardOpenCronInv,
     AwardCountDaysInv, AwardDayPassesInv, AwardFindInv, AwardCronFindInv,
     AwardEvaluateInv, AwardCreateInv, AwardDoneInv, AwardIdleInv, AwardOpenLevelsInv
     DEF Mi!Next
<1> QED
  BY <1>1, <1>2

-----------------------------------------------------------------------------
(* The levels shown *)
LEMMA LeastNatural ==
  ASSUME NEW S \in SUBSET Nat, S # {}
  PROVE  \E n \in S : \A m \in S : n <= m
<1> DEFINE R == OpToRel(<, Nat)
<1>1. \A x, y \in Nat : x < y => <<x, y>> \in R
  BY DEF OpToRel
<1>2. IsWellFoundedOn(R, Nat)
  BY NatLessThanWellFounded, Zenon
<1> HIDE DEF R
<1>3. PICK n \in S : \A m \in S : ~(<<m, n>> \in R)
  BY <1>2, WFMin
<1>4. ASSUME NEW m \in S PROVE n <= m
  <2>1. ~(m < n)
    BY <1>1, <1>3
  <2>2. m \in Nat /\ n \in Nat
    OBVIOUS
  <2> QED
    BY <2>1, <2>2
<1> QED
  BY <1>4

LEMMA AwardNextIs ==
  ASSUME NEW S \in SUBSET Levels, S # Levels
  PROVE  /\ Mi!NextLevel(S) \in Levels \ S
         /\ \A l \in Levels \ S : Mi!NextLevel(S) <= l
<1>1. Levels \ S \in SUBSET Nat /\ Levels \ S # {}
  BY AwardLevelsAre
<1>2. PICK n \in Levels \ S : \A l \in Levels \ S : n <= l
  BY <1>1, LeastNatural
<1> QED
  BY <1>2 DEF Mi!NextLevel, Mi!Min

LEMMA AwardCurrentIs ==
  ASSUME NEW S \in SUBSET Levels, NEW n \in Nat, \A l \in S : l <= n
  PROVE  Mi!CurrentLevel(S) \in 0..n
<1> DEFINE above == {k \in Nat : n - k \in S \cup {0}}
<1>1. n \in above
  OBVIOUS
<1>2. PICK k \in above : \A j \in above : k <= j
  <2>1. above \in SUBSET Nat /\ above # {}
    BY <1>1
  <2> HIDE DEF above
  <2> QED
    BY <2>1, LeastNatural
<1>3. \A l \in S \cup {0} : l \in Nat /\ l <= n
  BY AwardLevelsAre
<1>4. ASSUME NEW l \in S \cup {0} PROVE l <= n - k
  <2>1. n - l \in Nat /\ n - (n - l) = l
    BY <1>3
  <2>2. n - l \in above
    BY <2>1
  <2>3. k <= n - l /\ k \in Nat
    BY <1>2, <2>2
  <2> QED
    BY <2>3, <1>3
<1>5. n - k \in S \cup {0}
  BY <1>2
<1>6. \E m \in S \cup {0} : \A l \in S \cup {0} : m >= l
  BY <1>3, <1>4, <1>5
<1>7. Mi!CurrentLevel(S) \in S \cup {0}
  BY <1>6 DEF Mi!CurrentLevel, Mi!Max
<1> QED
  BY <1>3, <1>7

LEMMA AwardRounding ==
  ASSUME NEW a \in Nat, NEW b \in Nat, b > 0
  PROVE  Mi!RoundedPercent(a, b) \in Nat /\ (Mi!RoundedPercent(a, b) > 100 => a > b)
<1> DEFINE x == 200 * a + b
           y == 2 * b
           d == x \div y
<1>1. x \in Nat /\ y \in Nat /\ y > 0
  OBVIOUS
<1>2. Mi!RoundedPercent(a, b) = d
  BY DEF Mi!RoundedPercent
<1>3. d \in Nat /\ y * d <= x
  <2> HIDE DEF x, y
  <2> QED
    BY <1>1
<1>4. d > 100 => a > b
  <2> SUFFICES ASSUME d > 100 PROVE a > b
    OBVIOUS
  <2>1. y * 101 <= y * d
    <3> HIDE DEF x, y, d
    <3> QED
      BY <1>1, <1>3
  <2>2. 202 * b <= 200 * a + b
    BY <2>1, <1>3
  <2> QED
    BY <2>2
<1> QED
  BY <1>2, <1>3, <1>4

LEMMA AwardPromises == AwardInv => Mi!AwardsBounded /\ Mi!LevelsReached /\ Mi!LevelsShown
<1> SUFFICES ASSUME AwardInv PROVE Mi!AwardsBounded /\ Mi!LevelsReached /\ Mi!LevelsShown
  OBVIOUS
<1>1. Mi!AwardsBounded
  <2> SUFFICES ASSUME NEW l \in Levels PROVE awards[l] <= Cardinality(Requests)
    BY AwardCardinality DEF Mi!AwardsBounded
  <2>1. awards[l] + Cardinality(AwardHolding(l)) <= Cardinality(Requests) /\ awards[l] \in Nat
    BY DEF AwardInv, AwardBounded, Mi!TypeOK
  <2> QED
    BY <2>1, AwardHoldingFinite
<1>2. Mi!LevelsReached
  BY DEF AwardInv, AwardReached, Mi!LevelsReached
<1>3. Mi!LevelsShown
  <2> SUFFICES ASSUME NEW r \in Requests, milestonePc[r] = "levels",
                      NEW S, S = milestoneArg[r].todo,
                      NEW n, n = milestoneArg[r].granted
               PROVE  /\ S # {} => Mi!CurrentLevel(S) <= highest
                      /\ Mi!NextLevel(S) # Null => Mi!NextLevel(S) > n
                      /\ Mi!CurrentLevel(S) <= total /\ total <= n /\ Mi!NextLevel(S) # Null
                           => Mi!Progress(S) \in 0..100
    BY DEF Mi!LevelsShown
  <2>1. /\ S \in SUBSET Levels /\ n \in Nat /\ highest \in Int /\ total \in Int
        /\ \A l \in Levels : (l \in S => l <= highest) /\ (l <= n => l \in S)
    <3>1. milestoneArg[r] \in Mi!Args /\ highest \in Int /\ total \in Int
      BY AwardTotalsAre DEF AwardInv, Mi!TypeOK
    <3>2. S \in SUBSET Levels /\ n \in 0..MaxTotal
      BY <3>1 DEF Mi!Args
    <3>3. AwardShown(r)
      BY DEF AwardInv
    <3> QED
      BY <3>1, <3>2, <3>3, AwardBoundsAre DEF AwardShown
  <2>2. Mi!CurrentLevel(S) \in Nat /\ (S # {} => Mi!CurrentLevel(S) <= highest)
    <3>1. CASE S = {}
      <4>1. Mi!CurrentLevel(S) \in 0..0
        BY <3>1, AwardCurrentIs
      <4> QED
        BY <3>1, <4>1
    <3>2. CASE S # {}
      <4>1. highest \in Nat /\ \A l \in S : l <= highest
        BY <2>1, <3>2, AwardLevelsAre
      <4>2. Mi!CurrentLevel(S) \in 0..highest
        BY <2>1, <4>1, AwardCurrentIs
      <4> QED
        BY <4>1, <4>2
    <3> QED
      BY <3>1, <3>2
  <2>3. CASE S = Levels
    BY <2>2, <2>3 DEF Mi!NextLevel
  <2>4. CASE S # Levels
    <3>1. PICK to \in Levels \ S : to = Mi!NextLevel(S)
      BY <2>1, <2>4, AwardNextIs
    <3>2. to \in Nat /\ to > n
      BY <2>1, <3>1, AwardLevelsAre
    <3>3. PICK from \in Nat : from = Mi!CurrentLevel(S)
      BY <2>2
    <3>4. ASSUME from <= total, total <= n PROVE Mi!Progress(S) \in 0..100
      <4>1. total - from \in Nat /\ to - from \in Nat /\ to - from > 0
            /\ ~(total - from > to - from)
        BY <2>1, <3>2, <3>3, <3>4
      <4>2. to # Null
        BY <3>2, AwardBoundsAre
      <4>3. Mi!Progress(S) = Mi!RoundedPercent(total - from, to - from)
        BY <3>1, <3>3, <4>2 DEF Mi!Progress
      <4>4. Mi!RoundedPercent(total - from, to - from) \in Nat
            /\ ~(Mi!RoundedPercent(total - from, to - from) > 100)
        BY <4>1, AwardRounding
      <4> QED
        BY <4>3, <4>4
    <3> QED
      BY <2>2, <3>1, <3>2, <3>3, <3>4
  <2> QED
    BY <2>3, <2>4
<1> QED
  BY <1>1, <1>2, <1>3

-----------------------------------------------------------------------------
(* The history of a tire.  Its periods, its kilometres and what was driven *)
(* are folds; that a fold has a value, and which, comes first.             *)

(* What picks an element of every part of S, and what folds with it. *)
Picks(c, S) == \A t \in SUBSET S : t # {} => c[t] \in t

Folds(it, c, base, h, S) ==
  \A t \in SUBSET S : it[t] = IF t = {} THEN base ELSE h[<<it[t \ {c[t]}], c[t]>>]

Follow(f, g, c, S) ==
  /\ f[{}] = g[{}]
  /\ \A t \in SUBSET S : t # {} /\ f[t \ {c[t]}] = g[t \ {c[t]}] => f[t] = g[t]

(* A fold over a finite set S picks c[t] from every part t that is left;   *)
(* there is a function that computes it, whatever step h takes.            *)
LEMMA FoldExists ==
  ASSUME NEW S, IsFiniteSet(S), NEW A, NEW base \in A,
         NEW c, Picks(c, S),
         NEW h \in [A \X S -> A]
  PROVE  \E it \in [SUBSET S -> A] : Folds(it, c, base, h, S)
<1> USE DEF Picks, Folds
<1> DEFINE Small(k) == {t \in SUBSET S : Cardinality(t) <= k}
           Solves(g, k) == \A t \in Small(k) :
                             g[t] = IF t = {} THEN base ELSE h[<<g[t \ {c[t]}], c[t]>>]
           Bad == {k \in Nat : ~(\E g \in [Small(k) -> A] : Solves(g, k))}
<1>1. ASSUME NEW t \in SUBSET S
      PROVE  /\ IsFiniteSet(t) /\ Cardinality(t) \in Nat
             /\ Cardinality(t) = 0 <=> t = {}
  BY FS_Subset, FS_CardinalityType, FS_EmptySet
<1>2. ASSUME NEW t \in SUBSET S, t # {}
      PROVE  /\ c[t] \in t /\ c[t] \in S /\ t \ {c[t]} \in SUBSET S
             /\ Cardinality(t \ {c[t]}) = Cardinality(t) - 1
  <2>1. c[t] \in t
    BY <1>2
  <2> QED
    BY <2>1, <1>1, FS_RemoveElement
<1>3. 0 \notin Bad
  <2> DEFINE g == [t \in Small(0) |-> base]
  <2>1. \A t \in Small(0) : t = {}
    BY <1>1
  <2>2. g \in [Small(0) -> A] /\ Solves(g, 0)
    BY <2>1
  <2> QED
    BY <2>2
<1>4. ASSUME NEW k \in Nat, k \notin Bad
      PROVE  k + 1 \notin Bad
  <2>1. PICK g \in [Small(k) -> A] : Solves(g, k)
    BY <1>4
  <2> DEFINE f == [t \in Small(k + 1) |->
                     IF t = {} THEN base ELSE h[<<g[t \ {c[t]}], c[t]>>]]
  <2>2. ASSUME NEW t \in Small(k + 1), t # {}
        PROVE  /\ t \ {c[t]} \in Small(k) /\ t \ {c[t]} \in Small(k + 1)
               /\ f[t \ {c[t]}] = g[t \ {c[t]}]
    <3>1. t \ {c[t]} \in SUBSET S /\ Cardinality(t) \in Nat
          /\ Cardinality(t \ {c[t]}) = Cardinality(t) - 1
      BY <2>2, <1>1, <1>2
    <3>2. t \ {c[t]} \in Small(k) /\ t \ {c[t]} \in Small(k + 1)
      BY <3>1
    <3> DEFINE u == t \ {c[t]}
    <3>3. g[u] = IF u = {} THEN base ELSE h[<<g[u \ {c[u]}], c[u]>>]
      BY <2>1, <3>2
    <3>4. f[u] = IF u = {} THEN base ELSE h[<<g[u \ {c[u]}], c[u]>>]
      BY <3>2
    <3> QED
      BY <3>2, <3>3, <3>4
  <2>3. ASSUME NEW t \in Small(k + 1)
        PROVE  f[t] \in A
    <3>1. CASE t = {}
      BY <3>1
    <3>2. CASE t # {}
      <4>1. t \ {c[t]} \in Small(k) /\ c[t] \in S
        BY <3>2, <2>2, <1>2
      <4>2. f[t] = h[<<g[t \ {c[t]}], c[t]>>]
        BY <3>2, <2>3
      <4> QED
        BY <4>1, <4>2
    <3> QED
      BY <3>1, <3>2
  <2>4. f \in [Small(k + 1) -> A]
    BY <2>3
  <2>5. Solves(f, k + 1)
    BY <2>2
  <2> QED
    BY <2>4, <2>5
<1>5. Bad = {}
  <2>1. SUFFICES ASSUME Bad # {} PROVE FALSE
    OBVIOUS
  <2>2. PICK n \in Bad : \A m \in Bad : n <= m
    BY <2>1, LeastNatural
  <2>3. n \in Nat /\ n # 0
    BY <1>3
  <2>4. n - 1 \in Nat /\ n - 1 \notin Bad
    <3> HIDE DEF Bad
    <3> QED
      BY <2>2, <2>3
  <2> HIDE DEF Bad
  <2>5. (n - 1) + 1 \notin Bad
    BY <2>4, <1>4
  <2> QED
    BY <2>3, <2>5
<1>6. Cardinality(S) \in Nat
  BY FS_CardinalityType
<1>7. PICK g \in [Small(Cardinality(S)) -> A] : Solves(g, Cardinality(S))
  BY <1>5, <1>6
<1>8. Small(Cardinality(S)) = SUBSET S
  BY FS_Subset
<1> QED
  BY <1>7, <1>8

(* Two functions that agree on a part of S whenever they agree on what is  *)
(* left of it are the same.                                                *)
LEMMA FoldUnique ==
  ASSUME NEW S, IsFiniteSet(S), NEW c, Picks(c, S),
         NEW f, NEW g, Follow(f, g, c, S)
  PROVE  \A t \in SUBSET S : f[t] = g[t]
<1> USE DEF Picks, Follow
<1> DEFINE Bad == {n \in Nat : \E t \in SUBSET S : Cardinality(t) = n /\ f[t] # g[t]}
<1>1. SUFFICES ASSUME NEW w \in SUBSET S, f[w] # g[w] PROVE FALSE
  OBVIOUS
<1>2. Cardinality(w) \in Bad
  BY <1>1, FS_Subset, FS_CardinalityType
<1>3. PICK n \in Bad : \A m \in Bad : n <= m
  BY <1>2, LeastNatural
<1>4. PICK t \in SUBSET S : Cardinality(t) = n /\ f[t] # g[t]
  OBVIOUS
<1>5. t # {} /\ c[t] \in t /\ t \ {c[t]} \in SUBSET S
  BY <1>4
<1>6. IsFiniteSet(t) /\ n \in Nat
  BY FS_Subset
<1>7. Cardinality(t \ {c[t]}) = n - 1
  BY <1>4, <1>5, <1>6, FS_RemoveElement
<1>8. n # 0
  BY <1>4, <1>5, <1>6, FS_EmptySet
<1>9. n - 1 \notin Bad
  BY <1>3, <1>6
<1>10. f[t \ {c[t]}] = g[t \ {c[t]}]
  BY <1>5, <1>6, <1>7, <1>8, <1>9
<1> QED
  BY <1>4, <1>5, <1>10

-----------------------------------------------------------------------------
(* Folds over sequences *)

LEMMA LargestIndex ==
  ASSUME NEW n \in Nat
  PROVE  /\ \A t \in SUBSET (1..n) : t # {} => Hi!Max(t) \in t
         /\ \A k \in 1..n : Hi!Max(1..k) = k /\ (1..k) \ {Hi!Max(1..k)} = 1..(k - 1)
<1>1. ASSUME NEW t \in SUBSET (1..n), t # {}
      PROVE  \E x \in t : \A y \in t : x >= y
  <2> DEFINE D == {n - y : y \in t}
  <2>1. D \in SUBSET Nat /\ D # {}
    <3>1. \A y \in t : y \in 1..n
      BY <1>1
    <3>2. \A y \in t : n - y \in Nat
      BY <3>1
    <3> QED
      BY <1>1, <3>2
  <2>2. PICK m \in D : \A d \in D : m <= d
    BY <2>1, LeastNatural
  <2>3. PICK x \in t : m = n - x
    OBVIOUS
  <2>4. \A y \in t : n - y \in D /\ y \in Int
    <3>1. \A y \in t : y \in 1..n
      BY <1>1
    <3> QED
      BY <3>1
  <2>5. \A y \in t : m <= n - y
    BY <2>2, <2>4
  <2>6. x \in Int
    BY <2>4
  <2> HIDE DEF D
  <2>7. \A y \in t : x >= y
    BY <2>3, <2>4, <2>5, <2>6
  <2> QED
    BY <2>7
<1>2. ASSUME NEW t \in SUBSET (1..n), t # {}
      PROVE  Hi!Max(t) \in t /\ \A y \in t : Hi!Max(t) >= y
  BY <1>1, <1>2 DEF Hi!Max
<1>3. ASSUME NEW k \in 1..n
      PROVE  Hi!Max(1..k) = k /\ (1..k) \ {Hi!Max(1..k)} = 1..(k - 1)
  <2>1. 1..k \in SUBSET (1..n) /\ k \in 1..k
    OBVIOUS
  <2>2. Hi!Max(1..k) \in 1..k /\ Hi!Max(1..k) >= k
    BY <1>2, <2>1
  <2>3. Hi!Max(1..k) = k
    BY <2>2
  <2> QED
    BY <2>3
<1> QED
  BY <1>2, <1>3

(* The same along 1..n, whose last is picked first. *)
AlongFolds(it, base, h, n) ==
  \A t \in SUBSET (1..n) : it[t] = IF t = {} THEN base ELSE h[<<it[t \ {Hi!Max(t)}], Hi!Max(t)>>]

AlongFollow(f, g, n) ==
  /\ f[{}] = g[{}]
  /\ \A t \in SUBSET (1..n) :
       t # {} /\ f[t \ {Hi!Max(t)}] = g[t \ {Hi!Max(t)}] => f[t] = g[t]

(* A table h of the steps on the accumulators A has a fold along 1..n, and *)
(* whatever solves its equation is the fold.                               *)
LEMMA FoldAlong ==
  ASSUME NEW n \in Nat, NEW A, NEW base \in A, NEW h \in [A \X (1..n) -> A]
  PROVE  \E it \in [SUBSET (1..n) -> A] : AlongFolds(it, base, h, n)
<1> DEFINE S == 1..n
           c == [t \in SUBSET S |-> Hi!Max(t)]
<1>1. \A t \in SUBSET S : t # {} => c[t] \in t
  BY LargestIndex
<1>2. \A t \in SUBSET S : c[t] = Hi!Max(t)
  OBVIOUS
<1>3. IsFiniteSet(S) /\ h \in [A \X S -> A]
  BY FS_Interval
<1> HIDE DEF c, S
<1>4. Picks(c, S)
  BY <1>1 DEF Picks
<1>6. \E it \in [SUBSET S -> A] : Folds(it, c, base, h, S)
  BY <1>3, <1>4, FoldExists
<1>5. \E it \in [SUBSET S -> A] :
        \A t \in SUBSET S :
          it[t] = IF t = {} THEN base ELSE h[<<it[t \ {Hi!Max(t)}], Hi!Max(t)>>]
  BY <1>2, <1>6 DEF Folds
<1> QED
  BY <1>5 DEF S, AlongFolds

LEMMA FoldsAgree ==
  ASSUME NEW n \in Nat, NEW f, NEW g, AlongFollow(f, g, n)
  PROVE  \A t \in SUBSET (1..n) : f[t] = g[t]
<1> DEFINE S == 1..n
           c == [t \in SUBSET S |-> Hi!Max(t)]
<1>1. \A t \in SUBSET S : t # {} => c[t] \in t
  BY LargestIndex
<1>2. \A t \in SUBSET S : c[t] = Hi!Max(t)
  OBVIOUS
<1>3. IsFiniteSet(S)
  BY FS_Interval
<1>4. \A t \in SUBSET S : t # {} /\ f[t \ {Hi!Max(t)}] = g[t \ {Hi!Max(t)}] => f[t] = g[t]
  BY DEF AlongFollow
<1>8. f[{}] = g[{}]
  BY DEF AlongFollow
<1> HIDE DEF c, S
<1>5. \A t \in SUBSET S : t # {} /\ f[t \ {c[t]}] = g[t \ {c[t]}] => f[t] = g[t]
  BY <1>2, <1>4
<1>6. Picks(c, S) /\ Follow(f, g, c, S)
  BY <1>1, <1>5, <1>8 DEF Picks, Follow
<1>7. \A t \in SUBSET S : f[t] = g[t]
  BY <1>3, <1>6, FoldUnique
<1> QED
  BY <1>7 DEF S

-----------------------------------------------------------------------------
(* The three folds of a history *)

(* What the loop over the changes has at hand. *)
PeriodRow == [from : Hi!Row, km : Int \cup {Null}, ongoing : BOOLEAN]
Pairing == [pending : Hi!Row \cup {Null}, periods : Seq(PeriodRow)]

LEMMA HistoryCardinality ==
  \A S : Hi!Cardinality(S) = Cardinality(S) /\ (Hi!IsFiniteSet(S) <=> IsFiniteSet(S))
BY DEF Hi!Cardinality, Cardinality, Hi!IsFiniteSet, IsFiniteSet

LEMMA HistoryFacts ==
  ASSUME Hi!ConstantsAssumption
  PROVE  /\ Mileages \subseteq Nat /\ Null \notin Nat /\ Null \notin Hi!Row
         /\ \A entry \in Hi!Row :
              /\ entry.mileage \in Nat /\ entry.given \in Nat \cup {Null}
              /\ Hi!Removed(entry) \in Nat
              /\ entry.type \in {"INSTALL", "REMOVE"}
BY DEF Hi!ConstantsAssumption, Hi!Row, Hi!Removed

(* A set that holds 0, and with each index the next, holds them all. *)
GoesOn(I, n) == 0 \in I /\ \A k \in 1..n : k - 1 \in I => k \in I

LEMMA PrefixInduction ==
  ASSUME NEW n \in Nat, NEW I, GoesOn(I, n)
  PROVE  \A k \in 0..n : k \in I
<1> USE DEF GoesOn
<1> DEFINE Bad == {k \in 0..n : k \notin I}
<1>1. SUFFICES ASSUME Bad # {} PROVE FALSE
  OBVIOUS
<1>2. Bad \in SUBSET Nat
  OBVIOUS
<1>3. PICK m \in Bad : \A k \in Bad : m <= k
  BY <1>1, <1>2, LeastNatural
<1>4. m \in 1..n
  OBVIOUS
<1>5. m - 1 \in 0..n /\ m - 1 \notin Bad
  <2>1. m - 1 \in 0..n /\ ~(m <= m - 1)
    BY <1>4
  <2> HIDE DEF Bad
  <2> QED
    BY <2>1, <1>3
<1> QED
  BY <1>4, <1>5

(* What one row makes of what was paired before it. *)
PairsWell(acc, entry, next) ==
  /\ entry.type = "INSTALL" => next.pending = entry /\ next.periods = acc.periods
  /\ entry.type = "REMOVE" => next.pending = Null
  /\ entry.type = "REMOVE" /\ acc.pending = Null => next.periods = acc.periods
  /\ entry.type = "REMOVE" /\ acc.pending # Null =>
       next.periods = Append(acc.periods, Hi!Period(acc.pending, Hi!Removed(entry), FALSE))

LEMMA PairCases ==
  ASSUME Hi!ConstantsAssumption, NEW acc \in Pairing, NEW entry \in Hi!Row
  PROVE  Hi!Pair(acc, entry) \in Pairing /\ PairsWell(acc, entry, Hi!Pair(acc, entry))
<1> USE DEF PairsWell
<1>1. /\ Hi!Removed(entry) \in Nat /\ entry.type \in {"INSTALL", "REMOVE"}
      /\ acc.pending \in Hi!Row \cup {Null} /\ acc.periods \in Seq(PeriodRow)
  BY HistoryFacts DEF Pairing
<1>2. CASE entry.type = "INSTALL"
  <2>1. Hi!Pair(acc, entry) = [acc EXCEPT !.pending = entry]
    BY <1>2 DEF Hi!Pair
  <2>2. Hi!Pair(acc, entry) = [pending |-> entry, periods |-> acc.periods]
    BY <2>1 DEF Pairing
  <2> QED
    BY <2>2, <1>1, <1>2 DEF Pairing
<1>3. CASE entry.type = "REMOVE" /\ acc.pending = Null
  <2>1. Hi!Pair(acc, entry) = acc
    BY <1>3 DEF Hi!Pair
  <2> QED
    BY <2>1, <1>3
<1>4. CASE entry.type = "REMOVE" /\ acc.pending # Null
  <2> DEFINE p == Hi!Period(acc.pending, Hi!Removed(entry), FALSE)
  <2>1. Hi!Pair(acc, entry) = [pending |-> Null, periods |-> Append(acc.periods, p)]
    BY <1>4 DEF Hi!Pair
  <2>2. acc.pending \in Hi!Row
    BY <1>1, <1>4
  <2>3. acc.pending.given \in Nat \cup {Null}
    BY <2>2, HistoryFacts
  <2>4. p \in PeriodRow
    BY <2>2, <2>3, <1>1 DEF Hi!Period, PeriodRow
  <2> HIDE DEF p
  <2>5. Append(acc.periods, p) \in Seq(PeriodRow)
    BY <1>1, <2>4
  <2>6. Hi!Pair(acc, entry).periods = Append(acc.periods, p) /\ Hi!Pair(acc, entry).pending = Null
    BY <2>1
  <2>7. Hi!Pair(acc, entry) \in Pairing
    BY <2>1, <2>5 DEF Pairing
  <2> QED
    BY <2>6, <2>7, <1>4 DEF p
<1> QED
  BY <1>1, <1>2, <1>3, <1>4

NoPairs == [pending |-> Null, periods |-> <<>>]

LEMMA PairingFold ==
  ASSUME Hi!ConstantsAssumption, NEW s \in Seq(Hi!Row)
  PROVE  \E F \in [0..Len(s) -> Pairing] :
           /\ F[0] = NoPairs
           /\ \A k \in 1..Len(s) : F[k] = Hi!Pair(F[k - 1], s[k])
           /\ Hi!FoldLeft(Hi!Pair, NoPairs, s) = F[Len(s)]
<1> DEFINE n == Len(s)
           h == [p \in Pairing \X (1..n) |-> Hi!Pair(p[1], s[p[2]])]
           Solves(it) == it = [t \in SUBSET DOMAIN s |->
                                 IF t = {} THEN NoPairs
                                 ELSE LET x == Hi!Max(t) IN Hi!Pair(it[t \ {x}], s[x])]
<1>1. n \in Nat /\ DOMAIN s = 1..n /\ \A i \in 1..n : s[i] \in Hi!Row
  OBVIOUS
<1>2. NoPairs \in Pairing
  BY DEF NoPairs, Pairing
<1>3. \A p \in Pairing \X (1..n) : Hi!Pair(p[1], s[p[2]]) \in Pairing
  BY <1>1, PairCases
<1>4. h \in [Pairing \X (1..n) -> Pairing]
  BY <1>3
<1>5. \A acc \in Pairing, x \in 1..n : h[<<acc, x>>] = Hi!Pair(acc, s[x])
  OBVIOUS
<1> HIDE DEF n, h
<1>6. PICK g \in [SUBSET (1..n) -> Pairing] : AlongFolds(g, NoPairs, h, n)
  BY <1>1, <1>2, <1>4, FoldAlong
<1>7. \A t \in SUBSET (1..n) :
        g[t] = IF t = {} THEN NoPairs ELSE Hi!Pair(g[t \ {Hi!Max(t)}], s[Hi!Max(t)])
  <2>1. ASSUME NEW t \in SUBSET (1..n), t # {}
        PROVE  Hi!Max(t) \in 1..n /\ g[t \ {Hi!Max(t)}] \in Pairing
    <3>1. Hi!Max(t) \in t
      BY <2>1, <1>1, LargestIndex
    <3> QED
      BY <3>1
  <2> QED
    BY <2>1, <1>5, <1>6 DEF AlongFolds
<1>8. Hi!FoldLeft(Hi!Pair, NoPairs, s) = (CHOOSE it : Solves(it))[DOMAIN s]
  BY DEF Hi!FoldLeft, Hi!MapThenFoldSet
<1>9. Solves(g)
  BY <1>1, <1>7
<1> DEFINE f == CHOOSE it : Solves(it)
<1>10. Solves(f)
  <2> HIDE DEF Solves
  <2> QED
    BY <1>9
<1> HIDE DEF f
<1>11. \A t \in SUBSET (1..n) :
        f[t] = IF t = {} THEN NoPairs ELSE Hi!Pair(f[t \ {Hi!Max(t)}], s[Hi!Max(t)])
  BY <1>1, <1>10
<1>12. \A t \in SUBSET (1..n) : f[t] = g[t]
  <2>1. n \in Nat
    BY <1>1
  <2>2. f[{}] = g[{}]
    BY <1>7, <1>11
  <2>3. \A t \in SUBSET (1..n) :
          t # {} /\ f[t \ {Hi!Max(t)}] = g[t \ {Hi!Max(t)}] => f[t] = g[t]
    BY <1>7, <1>11, Zenon
  <2>4. AlongFollow(f, g, n)
    BY <2>2, <2>3 DEF AlongFollow
  <2> QED
    BY <2>1, <2>4, FoldsAgree
<1> DEFINE F == [k \in 0..n |-> g[1..k]]
<1>13. F \in [0..n -> Pairing]
  BY <1>1
<1>14. F[0] = NoPairs
  <2>1. 0 \in 0..n /\ 1..0 = {}
    BY <1>1
  <2>2. g[{}] = NoPairs
    BY <1>7
  <2> QED
    BY <2>1, <2>2
<1>15. ASSUME NEW k \in 1..n PROVE F[k] = Hi!Pair(F[k - 1], s[k])
  <2>1. Hi!Max(1..k) = k /\ (1..k) \ {Hi!Max(1..k)} = 1..(k - 1)
    BY <1>1, LargestIndex
  <2>2. 1..k \in SUBSET (1..n) /\ 1..k # {} /\ k - 1 \in 0..n /\ k \in 0..n
    <3>1. n \in Nat /\ k \in Nat /\ 1 <= k /\ k <= n
      BY <1>1
    <3>2. k \in 1..k /\ k - 1 \in 0..n /\ k \in 0..n
      BY <3>1
    <3>3. \A i \in 1..k : i \in 1..n
      BY <3>1
    <3> QED
      BY <3>2, <3>3
  <2>3. g[1..k] = Hi!Pair(g[1..(k - 1)], s[k])
    BY <2>1, <2>2, <1>7
  <2> QED
    BY <2>2, <2>3
<1>16. Hi!FoldLeft(Hi!Pair, NoPairs, s) = F[n]
  <2>1. n \in 0..n /\ 1..n \in SUBSET (1..n) /\ DOMAIN s = 1..n
    BY <1>1
  <2>2. f[1..n] = g[1..n]
    BY <2>1, <1>12
  <2>3. Hi!FoldLeft(Hi!Pair, NoPairs, s) = f[1..n]
    BY <2>1, <1>8 DEF f
  <2> QED
    BY <2>1, <2>2, <2>3
<1> HIDE DEF F
<1> QED
  BY <1>13, <1>14, <1>15, <1>16 DEF n

(* The same for a fold that adds up. *)
Weights(n) == [1..n -> Int]
Partial(n) == [SUBSET (1..n) -> Int]

Adds(it, w, n) ==
  it = [t \in SUBSET (1..n) |-> IF t = {} THEN 0
                                ELSE LET x == Hi!Max(t) IN it[t \ {x}] + w[x]]

Sums(G, w, n) ==
  G \in [0..n -> Int] /\ G[0] = 0 /\ \A k \in 1..n : G[k] = G[k - 1] + w[k]

LEMMA AddingFold ==
  ASSUME NEW n \in Nat, NEW w \in Weights(n)
  PROVE  /\ \E it \in Partial(n) : Adds(it, w, n)
         /\ \A f : Adds(f, w, n) => \E G : Sums(G, w, n) /\ f[1..n] = G[n]
<1> DEFINE h == [p \in Int \X (1..n) |-> p[1] + w[p[2]]]
<1>1. h \in [Int \X (1..n) -> Int] /\ 0 \in Int
  BY DEF Weights
<1>2. \A acc \in Int, x \in 1..n : h[<<acc, x>>] = acc + w[x]
  OBVIOUS
<1> HIDE DEF h
<1>3. PICK g : g \in [SUBSET (1..n) -> Int] /\ AlongFolds(g, 0, h, n)
  BY <1>1, FoldAlong
<1>4. \A t \in SUBSET (1..n) :
        g[t] = IF t = {} THEN 0 ELSE g[t \ {Hi!Max(t)}] + w[Hi!Max(t)]
  <2>1. ASSUME NEW t \in SUBSET (1..n), t # {}
        PROVE  Hi!Max(t) \in 1..n /\ g[t \ {Hi!Max(t)}] \in Int
    <3>1. Hi!Max(t) \in t
      BY <2>1, LargestIndex
    <3> QED
      BY <3>1, <1>3
  <2> QED
    BY <2>1, <1>2, <1>3 DEF AlongFolds
<1>5. Adds(g, w, n)
  BY <1>3, <1>4 DEF Adds
<1>6. ASSUME NEW f, Adds(f, w, n)
      PROVE  \A t \in SUBSET (1..n) : f[t] = g[t]
  <2>1. \A t \in SUBSET (1..n) :
          f[t] = IF t = {} THEN 0 ELSE f[t \ {Hi!Max(t)}] + w[Hi!Max(t)]
    BY <1>6 DEF Adds
  <2>2. f[{}] = g[{}]
    BY <1>4, <2>1
  <2>3. \A t \in SUBSET (1..n) :
          t # {} /\ f[t \ {Hi!Max(t)}] = g[t \ {Hi!Max(t)}] => f[t] = g[t]
    BY <1>4, <2>1, Zenon
  <2>4. AlongFollow(f, g, n)
    BY <2>2, <2>3 DEF AlongFollow
  <2> QED
    BY <2>4, FoldsAgree
<1> DEFINE G == [k \in 0..n |-> g[1..k]]
<1>7. G \in [0..n -> Int]
  BY <1>3
<1>8. G[0] = 0
  <2>1. 0 \in 0..n /\ 1..0 = {}
    OBVIOUS
  <2>2. g[{}] = 0
    BY <1>4
  <2> QED
    BY <2>1, <2>2
<1>9. ASSUME NEW k \in 1..n PROVE G[k] = G[k - 1] + w[k]
  <2>1. Hi!Max(1..k) = k /\ (1..k) \ {Hi!Max(1..k)} = 1..(k - 1)
    BY LargestIndex
  <2>2. k \in 1..k /\ k - 1 \in 0..n /\ k \in 0..n
    OBVIOUS
  <2>3. \A i \in 1..k : i \in 1..n
    OBVIOUS
  <2>4. g[1..k] = g[1..(k - 1)] + w[k]
    BY <2>1, <2>2, <2>3, <1>4
  <2> QED
    BY <2>2, <2>4
<1>10. n \in 0..n /\ 1..n \in SUBSET (1..n) /\ G[n] = g[1..n]
  OBVIOUS
<1> HIDE DEF G
<1>11. ASSUME NEW f, Adds(f, w, n)
       PROVE  \E H : Sums(H, w, n) /\ f[1..n] = H[n]
  <2>1. f[1..n] = G[n]
    BY <1>6, <1>10, <1>11
  <2> QED
    BY <2>1, <1>7, <1>8, <1>9 DEF Sums
<1>12. g \in Partial(n)
  BY <1>3 DEF Partial
<1> QED
  BY <1>5, <1>11, <1>12

(* What a period adds to the total. *)
KmOf(p) == IF p.km = Null THEN 0 ELSE p.km

LEMMA TotalFold ==
  ASSUME NEW ps \in Seq(PeriodRow)
  PROVE  \E G \in [0..Len(ps) -> Int] :
           /\ G[0] = 0
           /\ \A k \in 1..Len(ps) : G[k] = G[k - 1] + KmOf(ps[k])
           /\ Hi!TotalKmDriven(ps) = G[Len(ps)]
<1> DEFINE n == Len(ps)
           w == [k \in 1..n |-> KmOf(ps[k])]
<1>1. n \in Nat /\ DOMAIN ps = 1..n
  OBVIOUS
<1>2. \A k \in 1..n : w[k] = KmOf(ps[k]) /\ KmOf(ps[k]) \in Int
  <2>1. \A k \in 1..n : ps[k] \in PeriodRow
    OBVIOUS
  <2>2. \A k \in 1..n : ps[k].km \in Int \cup {Null}
    BY <2>1 DEF PeriodRow
  <2> QED
    BY <2>2 DEF KmOf
<1>3. w \in Weights(n)
  BY <1>2 DEF Weights
<1> HIDE DEF n, w
<1> DEFINE Solves(it) == it = [t \in SUBSET DOMAIN ps |->
                                 IF t = {} THEN 0
                                 ELSE LET x == Hi!Max(t) IN it[t \ {x}] + KmOf(ps[x])]
<1>4. Hi!TotalKmDriven(ps) = (CHOOSE it : Solves(it))[DOMAIN ps]
  BY DEF Hi!TotalKmDriven, Hi!FoldLeft, Hi!MapThenFoldSet, KmOf
<1>5. \A it : Adds(it, w, n) <=> Solves(it)
  <2>1. ASSUME NEW t \in SUBSET (1..n), t # {}
        PROVE  w[Hi!Max(t)] = KmOf(ps[Hi!Max(t)])
    <3>1. Hi!Max(t) \in t
      BY <2>1, <1>1, LargestIndex
    <3> QED
      BY <3>1, <1>2
  <2>2. ASSUME NEW it
        PROVE  [t \in SUBSET (1..n) |-> IF t = {} THEN 0 ELSE it[t \ {Hi!Max(t)}] + w[Hi!Max(t)]]
             = [t \in SUBSET (1..n) |->
                  IF t = {} THEN 0 ELSE it[t \ {Hi!Max(t)}] + KmOf(ps[Hi!Max(t)])]
    BY <2>1
  <2> QED
    BY <2>2, <1>1 DEF Adds
<1> DEFINE f == CHOOSE it : Solves(it)
<1>6. \E it : Adds(it, w, n)
  BY <1>1, <1>3, AddingFold
<1>7. Solves(f)
  <2>1. \E it : Solves(it)
    BY <1>5, <1>6
  <2> HIDE DEF Solves
  <2> QED
    BY <2>1
<1> HIDE DEF f, Solves
<1>8. Adds(f, w, n) /\ Hi!TotalKmDriven(ps) = f[1..n]
  BY <1>1, <1>4, <1>5, <1>7 DEF f
<1>9. PICK G : Sums(G, w, n) /\ f[1..n] = G[n]
  BY <1>1, <1>3, <1>8, AddingFold
<1>10. G \in [0..n -> Int] /\ G[0] = 0 /\ \A k \in 1..n : G[k] = G[k - 1] + w[k]
  BY <1>9 DEF Sums
<1> QED
  BY <1>2, <1>8, <1>9, <1>10 DEF n

LEMMA TotalAppend ==
  ASSUME NEW ps \in Seq(PeriodRow), NEW p \in PeriodRow
  PROVE  /\ Hi!TotalKmDriven(ps) \in Int /\ KmOf(p) \in Int
         /\ Hi!TotalKmDriven(Append(ps, p)) = Hi!TotalKmDriven(ps) + KmOf(p)
<1> DEFINE qs == Append(ps, p)
           n == Len(ps)
<1>1. /\ n \in Nat /\ qs \in Seq(PeriodRow) /\ Len(qs) = n + 1 /\ qs[n + 1] = p
      /\ \A i \in 1..n : qs[i] = ps[i]
  OBVIOUS
<1>2. KmOf(p) \in Int
  BY DEF KmOf, PeriodRow
<1>3. PICK G : /\ G \in [0..n -> Int]
               /\ G[0] = 0
               /\ \A k \in 1..n : G[k] = G[k - 1] + KmOf(ps[k])
               /\ Hi!TotalKmDriven(ps) = G[n]
  BY TotalFold
<1> HIDE DEF qs
<1>4. PICK H : /\ H \in [0..(n + 1) -> Int]
               /\ H[0] = 0
               /\ \A k \in 1..(n + 1) : H[k] = H[k - 1] + KmOf(qs[k])
               /\ Hi!TotalKmDriven(qs) = H[n + 1]
  <2>1. \E H \in [0..Len(qs) -> Int] :
          /\ H[0] = 0
          /\ \A k \in 1..Len(qs) : H[k] = H[k - 1] + KmOf(qs[k])
          /\ Hi!TotalKmDriven(qs) = H[Len(qs)]
    BY <1>1, TotalFold
  <2> QED
    BY <2>1, <1>1
<1> HIDE DEF n
<1> DEFINE I == {k \in 0..n : H[k] = G[k]}
<1>5. 0 \in I
  BY <1>1, <1>3, <1>4
<1>6. ASSUME NEW k \in 1..n, k - 1 \in I PROVE k \in I
  <2>1. k \in 1..(n + 1) /\ k \in 0..n
    BY <1>1
  <2>2. H[k] = H[k - 1] + KmOf(qs[k])
    BY <2>1, <1>4
  <2>3. G[k] = G[k - 1] + KmOf(qs[k])
    BY <1>1, <1>3
  <2> QED
    BY <1>6, <2>1, <2>2, <2>3
<1>7. n \in I
  <2> HIDE DEF I
  <2>1. GoesOn(I, n)
    BY <1>5, <1>6 DEF GoesOn
  <2> QED
    BY <2>1, <1>1, PrefixInduction
<1>8. H[n + 1] = H[n] + KmOf(p)
  BY <1>1, <1>4
<1>9. G[n] \in Int /\ H[n] = G[n]
  BY <1>1, <1>3, <1>7
<1> QED
  BY <1>2, <1>3, <1>4, <1>8, <1>9 DEF qs

LEMMA TotalEmpty == Hi!TotalKmDriven(<<>>) = 0
<1>1. <<>> \in Seq(PeriodRow) /\ Len(<<>>) = 0
  OBVIOUS
<1> QED
  BY <1>1, TotalFold

-----------------------------------------------------------------------------
(* One history *)

(* The INSTALLs that a REMOVE or nothing follows; what is read at a row, or *)
(* at the end; and with it the distance after each mount.                  *)
Mounts(s) ==
  {i \in 1..Len(s) : s[i].type = "INSTALL" /\ (i = Len(s) \/ s[i + 1].type = "REMOVE")}

ReadOff(s, km, i) == IF i > Len(s) THEN km ELSE s[i].mileage

Driven(s, km) ==
  Hi!FoldLeftDomain(LAMBDA sum, i : IF i \in Mounts(s)
                                    THEN sum + ReadOff(s, km, i + 1) - ReadOff(s, km, i)
                                    ELSE sum, 0, s)

Distance(s, km, i) == IF i \in Mounts(s) THEN ReadOff(s, km, i + 1) - ReadOff(s, km, i) ELSE 0

LEMMA DistanceType ==
  ASSUME Hi!ConstantsAssumption, NEW s \in Seq(Hi!Row), NEW km \in Nat,
         NEW k \in 1..Len(s)
  PROVE  /\ Distance(s, km, k) \in Int
         /\ ReadOff(s, km, k) \in Nat /\ ReadOff(s, km, k + 1) \in Nat
         /\ ReadOff(s, km, k) = s[k].mileage
<1>1. \A i \in 1..Len(s) : s[i].mileage \in Nat
  BY HistoryFacts
<1>2. Len(s) \in Nat /\ k \in Nat /\ k + 1 \in 1..(Len(s) + 1)
  OBVIOUS
<1>3. ReadOff(s, km, k) \in Nat /\ ReadOff(s, km, k + 1) \in Nat
  BY <1>1, <1>2 DEF ReadOff
<1>4. ReadOff(s, km, k) = s[k].mileage
  BY <1>2 DEF ReadOff
<1> QED
  BY <1>3, <1>4 DEF Distance

LEMMA DrivenFold ==
  ASSUME Hi!ConstantsAssumption, NEW s \in Seq(Hi!Row), NEW km \in Nat
  PROVE  \E D : /\ D \in [0..Len(s) -> Int]
                /\ D[0] = 0
                /\ \A k \in 1..Len(s) : D[k] = D[k - 1] + Distance(s, km, k)
                /\ Driven(s, km) = D[Len(s)]
<1> DEFINE n == Len(s)
           w == [k \in 1..n |-> Distance(s, km, k)]
<1>1. n \in Nat /\ DOMAIN s = 1..n
  OBVIOUS
<1>2. \A i \in 1..(n + 1) : ReadOff(s, km, i) \in Int
  <2>1. \A i \in 1..n : s[i].mileage \in Nat
    BY HistoryFacts
  <2> QED
    BY <1>1, <2>1 DEF ReadOff
<1>3. \A k \in 1..n : w[k] = Distance(s, km, k) /\ Distance(s, km, k) \in Int
  BY <1>1, <1>2 DEF Distance
<1>4. w \in Weights(n)
  BY <1>3 DEF Weights
<1>5. \A k \in 1..n, a \in Int :
        (IF k \in Mounts(s) THEN a + ReadOff(s, km, k + 1) - ReadOff(s, km, k) ELSE a) = a + w[k]
  <2> HIDE DEF n, w
  <2>1. ASSUME NEW k \in 1..n
        PROVE  ReadOff(s, km, k + 1) \in Int /\ ReadOff(s, km, k) \in Int
    <3>1. k \in 1..(n + 1) /\ k + 1 \in 1..(n + 1)
      BY <1>1
    <3> QED
      BY <3>1, <1>2
  <2> QED
    BY <2>1, <1>3 DEF Distance
<1> HIDE DEF n, w
<1> DEFINE id == [i \in DOMAIN s |-> i]
           Solves(it) == it = [t \in SUBSET DOMAIN id |->
                    IF t = {} THEN 0
                    ELSE LET x == Hi!Max(t) IN
                         IF id[x] \in Mounts(s)
                         THEN it[t \ {x}] + ReadOff(s, km, id[x] + 1) - ReadOff(s, km, id[x])
                         ELSE it[t \ {x}]]
<1>6. Driven(s, km) = (CHOOSE it : Solves(it))[DOMAIN id]
  BY DEF Driven, Hi!FoldLeftDomain, Hi!FoldLeft, Hi!MapThenFoldSet
<1>7. DOMAIN id = 1..n /\ \A i \in 1..n : id[i] = i
  BY <1>1
<1> HIDE DEF id
<1>8. ASSUME NEW t \in SUBSET (1..n), t # {}
      PROVE  Hi!Max(t) \in 1..n /\ id[Hi!Max(t)] = Hi!Max(t)
  <2>1. Hi!Max(t) \in t
    BY <1>8, <1>1, LargestIndex
  <2> QED
    BY <2>1, <1>7
<1>9. PICK g : g \in Partial(n) /\ Adds(g, w, n)
  BY <1>1, <1>4, AddingFold
<1>10. ASSUME NEW t \in SUBSET (1..n)
       PROVE  g[t] = IF t = {} THEN 0 ELSE g[t \ {Hi!Max(t)}] + w[Hi!Max(t)]
  BY <1>9 DEF Adds
<1>11. ASSUME NEW t \in SUBSET (1..n), t # {}
       PROVE  LET x == Hi!Max(t) IN
              g[t] = IF id[x] \in Mounts(s)
                     THEN g[t \ {x}] + ReadOff(s, km, id[x] + 1) - ReadOff(s, km, id[x])
                     ELSE g[t \ {x}]
  <2>1. g[t \ {Hi!Max(t)}] \in Int
    BY <1>9 DEF Partial
  <2>2. g[t] = g[t \ {Hi!Max(t)}] + w[Hi!Max(t)]
    BY <1>10, <1>11
  <2> QED
    BY <2>1, <2>2, <1>5, <1>8, <1>11
<1>12. Solves(g)
  <2>1. g = [t \in SUBSET (1..n) |-> g[t]]
    BY <1>9 DEF Partial
  <2>2. g[{}] = 0
    BY <1>10
  <2> QED
    BY <2>1, <2>2, <1>7, <1>11
<1> DEFINE f == CHOOSE it : Solves(it)
<1>13. Solves(f)
  <2> HIDE DEF Solves
  <2> QED
    BY <1>12
<1> HIDE DEF f
<1>14. AlongFollow(f, g, n)
  <2>1. f[{}] = 0
    BY <1>7, <1>13
  <2>2. g[{}] = 0
    BY <1>10
  <2>3. ASSUME NEW t \in SUBSET (1..n), t # {}, f[t \ {Hi!Max(t)}] = g[t \ {Hi!Max(t)}]
        PROVE  f[t] = g[t]
    <3>1. f[t] = IF id[Hi!Max(t)] \in Mounts(s)
                 THEN f[t \ {Hi!Max(t)}] + ReadOff(s, km, id[Hi!Max(t)] + 1)
                      - ReadOff(s, km, id[Hi!Max(t)])
                 ELSE f[t \ {Hi!Max(t)}]
      BY <2>3, <1>7, <1>13
    <3>2. g[t] = IF id[Hi!Max(t)] \in Mounts(s)
                 THEN g[t \ {Hi!Max(t)}] + ReadOff(s, km, id[Hi!Max(t)] + 1)
                      - ReadOff(s, km, id[Hi!Max(t)])
                 ELSE g[t \ {Hi!Max(t)}]
      BY <2>3, <1>11
    <3>3. CASE id[Hi!Max(t)] \in Mounts(s)
      BY <2>3, <3>1, <3>2, <3>3
    <3>4. CASE id[Hi!Max(t)] \notin Mounts(s)
      BY <2>3, <3>1, <3>2, <3>4
    <3> QED
      BY <3>3, <3>4
  <2> QED
    BY <2>1, <2>2, <2>3 DEF AlongFollow
<1>15. f[1..n] = g[1..n]
  BY <1>1, <1>14, FoldsAgree
<1>16. PICK D : Sums(D, w, n) /\ g[1..n] = D[n]
  BY <1>1, <1>4, <1>9, AddingFold
<1>17. D \in [0..n -> Int] /\ D[0] = 0 /\ \A k \in 1..n : D[k] = D[k - 1] + w[k]
  BY <1>16 DEF Sums
<1>18. Driven(s, km) = D[n]
  BY <1>6, <1>7, <1>15, <1>16 DEF f
<1> QED
  BY <1>3, <1>17, <1>18 DEF n

(* How the loop goes over one history: what the k-th row does. *)
LEMMA LoopStep ==
  ASSUME Hi!ConstantsAssumption, NEW s \in Seq(Hi!Row), NEW F \in [0..Len(s) -> Pairing],
         F[0] = NoPairs, \A k \in 1..Len(s) : F[k] = Hi!Pair(F[k - 1], s[k]),
         NEW k \in 1..Len(s)
  PROVE  /\ F[k].pending = IF s[k].type = "INSTALL" THEN s[k] ELSE Null
         /\ k = 1 => F[k].periods = <<>>
         /\ k > 1 => F[k].periods =
                       IF k - 1 \in Mounts(s)
                       THEN Append(F[k - 1].periods, Hi!Period(s[k - 1], Hi!Removed(s[k]), FALSE))
                       ELSE F[k - 1].periods
<1>1. /\ Len(s) \in Nat /\ k \in Nat
      /\ \A i \in 1..Len(s) : s[i] \in Hi!Row /\ s[i].type \in {"INSTALL", "REMOVE"}
  BY HistoryFacts
<1>2. ASSUME NEW i \in 1..Len(s)
      PROVE  /\ F[i] = Hi!Pair(F[i - 1], s[i]) /\ F[i - 1] \in Pairing
             /\ s[i] \in Hi!Row /\ s[i].type \in {"INSTALL", "REMOVE"}
  <2>1. i - 1 \in 0..Len(s)
    BY <1>1
  <2> QED
    BY <2>1, <1>1
<1>7. ASSUME NEW i \in 1..Len(s)
      PROVE  LET acc == F[i - 1] entry == s[i] IN
             /\ entry.type = "INSTALL" => F[i].pending = entry /\ F[i].periods = acc.periods
             /\ entry.type = "REMOVE" => F[i].pending = Null
             /\ entry.type = "REMOVE" /\ acc.pending = Null => F[i].periods = acc.periods
             /\ entry.type = "REMOVE" /\ acc.pending # Null =>
                  F[i].periods
                    = Append(acc.periods, Hi!Period(acc.pending, Hi!Removed(entry), FALSE))
  <2> DEFINE acc == F[i - 1]
             entry == s[i]
  <2>1. F[i] = Hi!Pair(acc, entry) /\ acc \in Pairing /\ entry \in Hi!Row
    BY <1>2
  <2> HIDE DEF acc, entry
  <2>2. PairsWell(acc, entry, F[i])
    BY <2>1, PairCases
  <2> QED
    BY <2>2 DEF acc, entry, PairsWell
<1>3. ASSUME NEW i \in 1..Len(s)
      PROVE  F[i].pending = IF s[i].type = "INSTALL" THEN s[i] ELSE Null
  BY <1>2, <1>7
<1>4. F[k].pending = IF s[k].type = "INSTALL" THEN s[k] ELSE Null
  BY <1>3
<1>5. ASSUME k = 1 PROVE F[k].periods = <<>>
  <2>1. F[0].pending = Null /\ F[0].periods = <<>>
    BY DEF NoPairs
  <2>2. k - 1 = 0 /\ s[k].type \in {"INSTALL", "REMOVE"}
    BY <1>2, <1>5
  <2>3. /\ s[k].type = "INSTALL" => F[k].periods = F[k - 1].periods
        /\ s[k].type = "REMOVE" /\ F[k - 1].pending = Null => F[k].periods = F[k - 1].periods
    BY <1>7
  <2> QED
    BY <2>1, <2>2, <2>3
<1>6. ASSUME k > 1
      PROVE  F[k].periods = IF k - 1 \in Mounts(s)
               THEN Append(F[k - 1].periods, Hi!Period(s[k - 1], Hi!Removed(s[k]), FALSE))
               ELSE F[k - 1].periods
  <2>1. k - 1 \in 1..Len(s) /\ k - 1 # Len(s) /\ (k - 1) + 1 = k
    BY <1>6, <1>1
  <2>2. k - 1 \in Mounts(s) <=> s[k - 1].type = "INSTALL" /\ s[k].type = "REMOVE"
    BY <2>1 DEF Mounts
  <2>3. F[k - 1].pending = IF s[k - 1].type = "INSTALL" THEN s[k - 1] ELSE Null
    BY <2>1, <1>3
  <2>4. s[k - 1] # Null
    BY <2>1, <1>2, HistoryFacts
  <2>5. F[k] = Hi!Pair(F[k - 1], s[k]) /\ F[k - 1] \in Pairing
    BY <1>2
  <2>6. s[k].type = "INSTALL" => F[k].periods = F[k - 1].periods
    BY <1>7
  <2>7. s[k].type = "REMOVE" /\ F[k - 1].pending = Null => F[k].periods = F[k - 1].periods
    BY <1>7
  <2>8. s[k].type = "REMOVE" /\ F[k - 1].pending # Null =>
          F[k].periods
            = Append(F[k - 1].periods, Hi!Period(F[k - 1].pending, Hi!Removed(s[k]), FALSE))
    BY <1>7
  <2>9. CASE k - 1 \in Mounts(s)
    BY <2>9, <2>2, <2>3, <2>4, <2>8
  <2>10. CASE k - 1 \notin Mounts(s)
    <3>1. s[k].type = "INSTALL" \/ F[k - 1].pending = Null
      BY <2>10, <2>1, <2>2, <2>3, <1>2
    <3> QED
      BY <3>1, <2>6, <2>7, <2>10, <1>2
  <2> QED
    BY <2>9, <2>10
<1> QED
  BY <1>4, <1>5, <1>6

(* The mounts before row k *)
Before(s, k) == {i \in Mounts(s) : i < k}

LEMMA MountsBefore ==
  ASSUME NEW s \in Seq(Hi!Row), NEW k \in Nat
  PROVE  /\ IsFiniteSet(Mounts(s)) /\ IsFiniteSet(Before(s, k))
         /\ Cardinality(Before(s, k)) \in Nat
         /\ Before(s, 1) = {} /\ Before(s, Len(s) + 1) = Mounts(s)
         /\ Cardinality(Before(s, k + 1)) =
              IF k \in Mounts(s) THEN Cardinality(Before(s, k)) + 1 ELSE Cardinality(Before(s, k))
<1>1. Len(s) \in Nat /\ Mounts(s) \in SUBSET (1..Len(s)) /\ Before(s, k) \in SUBSET (1..Len(s))
  BY DEF Mounts, Before
<1>2. IsFiniteSet(Mounts(s)) /\ IsFiniteSet(Before(s, k))
  <2>1. IsFiniteSet(1..Len(s))
    BY <1>1, FS_Interval
  <2> QED
    BY <2>1, <1>1, FS_Subset
<1>3. Before(s, 1) = {} /\ Before(s, Len(s) + 1) = Mounts(s)
  <2>1. \A i \in Mounts(s) : i \in Nat /\ 1 <= i /\ i <= Len(s)
    BY <1>1
  <2> QED
    BY <2>1, <1>1 DEF Before
<1>4. Before(s, k + 1) = IF k \in Mounts(s) THEN Before(s, k) \cup {k} ELSE Before(s, k)
  <2>1. \A i \in Mounts(s) : i \in Nat
    BY <1>1
  <2>2. \A i \in Mounts(s) : i < k + 1 <=> i < k \/ i = k
    BY <2>1
  <2> QED
    BY <2>1, <2>2 DEF Before
<1>5. k \notin Before(s, k)
  BY DEF Before
<1>6. Cardinality(Before(s, k)) \in Nat
  BY <1>2, FS_CardinalityType
<1>7. Cardinality(Before(s, k) \cup {k}) = Cardinality(Before(s, k)) + 1
  BY <1>2, <1>5, FS_AddElement
<1> QED
  BY <1>2, <1>3, <1>4, <1>6, <1>7

(* A period more: what one more row, or the end, adds to those there are. *)
LEMMA PeriodMore ==
  ASSUME Hi!ConstantsAssumption, NEW s \in Seq(Hi!Row), NEW km \in Nat,
         NEW i \in Mounts(s), NEW until \in Nat, NEW ongoing \in BOOLEAN,
         NEW p, p = Hi!Period(s[i], until, ongoing)
  PROVE  /\ p \in PeriodRow /\ p.ongoing = ongoing
         /\ Hi!Consistent(s, km) /\ until = ReadOff(s, km, i + 1) =>
              /\ p.km = Null \/ p.km >= 0
              /\ KmOf(p) <= Distance(s, km, i)
              /\ s[i].given # Null => KmOf(p) = Distance(s, km, i)
<1>1. /\ Len(s) \in Nat /\ i \in 1..Len(s) /\ i \in Nat /\ s[i] \in Hi!Row
      /\ s[i].given \in Nat \cup {Null} /\ s[i].mileage \in Nat
  BY HistoryFacts DEF Mounts
<1>2. Null \notin Nat
  BY HistoryFacts
<1>3. p = [from |-> s[i], km |-> IF s[i].given = Null THEN Null ELSE until - s[i].given,
           ongoing |-> ongoing]
  BY DEF Hi!Period
<1>4. p \in PeriodRow /\ p.ongoing = ongoing
  BY <1>1, <1>3 DEF PeriodRow
<1>5. p.km = IF s[i].given = Null THEN Null ELSE until - s[i].given
  BY <1>3
<1>6. ASSUME Hi!Consistent(s, km), until = ReadOff(s, km, i + 1)
      PROVE  /\ p.km = Null \/ p.km >= 0
             /\ KmOf(p) <= Distance(s, km, i)
             /\ s[i].given # Null => KmOf(p) = Distance(s, km, i)
  <2>1. s[i].given \in {Null, s[i].mileage} /\ s[i].mileage <= km
    BY <1>1, <1>6 DEF Hi!Consistent
  <2>2. ReadOff(s, km, i) = s[i].mileage
    BY <1>1 DEF ReadOff
  <2>3. s[i].mileage <= until
    <3>1. CASE i = Len(s)
      BY <3>1, <2>1, <1>1, <1>6 DEF ReadOff
    <3>2. CASE i # Len(s)
      <4>1. i \in 1..(Len(s) - 1) /\ ~(i + 1 > Len(s))
        BY <3>2, <1>1
      <4>2. s[i].mileage <= s[i + 1].mileage
        BY <4>1, <1>6 DEF Hi!Consistent
      <4> QED
        BY <4>1, <4>2, <1>6 DEF ReadOff
    <3> QED
      BY <3>1, <3>2
  <2>4. Distance(s, km, i) = until - s[i].mileage
    BY <2>2, <1>6 DEF Distance
  <2>5. CASE s[i].given = Null
    <3>1. p.km = Null /\ KmOf(p) = 0
      BY <2>5, <1>5 DEF KmOf
    <3> QED
      BY <3>1, <2>3, <2>4, <2>5, <1>1
  <2>6. CASE s[i].given # Null
    <3>1. p.km = until - s[i].mileage /\ p.km \in Nat
      BY <2>1, <2>3, <2>6, <1>1, <1>5
    <3>2. KmOf(p) = p.km
      BY <3>1, <1>2 DEF KmOf
    <3> QED
      BY <3>1, <3>2, <2>4
  <2> QED
    BY <2>5, <2>6
<1> QED
  BY <1>4, <1>6

(* What is paired of the mounts before the k-th, and with what total. *)
Paired(s, km, ps, sum, k) ==
  /\ ps \in Seq(PeriodRow) /\ sum \in Int
  /\ Len(ps) = Cardinality(Before(s, k))
  /\ \A j \in 1..Len(ps) : ps[j].ongoing = FALSE
  /\ Hi!Consistent(s, km) =>
       /\ \A j \in 1..Len(ps) : ps[j].km = Null \/ ps[j].km >= 0
       /\ Hi!TotalKmDriven(ps) <= sum
       /\ (\A i \in Mounts(s) : s[i].given # Null) => Hi!TotalKmDriven(ps) = sum

ReadsOn(s, km, k, until) == Hi!Consistent(s, km) => until = ReadOff(s, km, k + 1)

(* The same for the k-th mount and those before it. *)
Extended(s, km, ps, sum, k, qs, ongoing) ==
  /\ qs \in Seq(PeriodRow) /\ Len(qs) = Len(ps) + 1
  /\ Len(qs) = Cardinality(Before(s, k + 1))
  /\ \A j \in 1..Len(ps) : qs[j].ongoing = FALSE
  /\ qs[Len(qs)].ongoing = ongoing
  /\ Hi!Consistent(s, km) =>
       /\ \A j \in 1..Len(qs) : qs[j].km = Null \/ qs[j].km >= 0
       /\ Hi!TotalKmDriven(qs) <= sum + Distance(s, km, k)
       /\ (\A i \in Mounts(s) : s[i].given # Null)
            => Hi!TotalKmDriven(qs) = sum + Distance(s, km, k)

LEMMA PairedMore ==
  ASSUME Hi!ConstantsAssumption, NEW s \in Seq(Hi!Row), NEW km \in Nat,
         NEW k \in Mounts(s), NEW until \in Nat, ReadsOn(s, km, k, until),
         NEW ongoing \in BOOLEAN, NEW ps, NEW sum, Paired(s, km, ps, sum, k),
         NEW qs, qs = Append(ps, Hi!Period(s[k], until, ongoing))
  PROVE  Extended(s, km, ps, sum, k, qs, ongoing)
<1> DEFINE p == Hi!Period(s[k], until, ongoing)
<1>1. /\ p \in PeriodRow /\ p.ongoing = ongoing
      /\ Hi!Consistent(s, km) =>
           /\ p.km = Null \/ p.km >= 0
           /\ KmOf(p) <= Distance(s, km, k)
           /\ s[k].given # Null => KmOf(p) = Distance(s, km, k)
  BY PeriodMore DEF ReadsOn
<1> HIDE DEF p
<1>2. ps \in Seq(PeriodRow) /\ sum \in Int /\ qs = Append(ps, p)
  BY DEF Paired, p
<1>3. /\ qs \in Seq(PeriodRow) /\ Len(qs) = Len(ps) + 1 /\ Len(ps) \in Nat
      /\ qs[Len(qs)] = p /\ \A j \in 1..Len(ps) : qs[j] = ps[j]
  BY <1>1, <1>2
<1>4. k \in Nat /\ k \in 1..Len(s)
  BY DEF Mounts
<1>5. Len(qs) = Cardinality(Before(s, k + 1))
  <2>1. Len(ps) = Cardinality(Before(s, k))
    BY DEF Paired
  <2> QED
    BY <2>1, <1>3, <1>4, MountsBefore
<1>6. \A j \in 1..Len(ps) : qs[j].ongoing = FALSE
  BY <1>3 DEF Paired
<1>7. /\ Hi!TotalKmDriven(qs) = Hi!TotalKmDriven(ps) + KmOf(p)
      /\ Hi!TotalKmDriven(ps) \in Int /\ KmOf(p) \in Int
  BY <1>1, <1>2, TotalAppend
<1>8. ASSUME Hi!Consistent(s, km)
      PROVE  /\ \A j \in 1..Len(qs) : qs[j].km = Null \/ qs[j].km >= 0
             /\ Hi!TotalKmDriven(qs) <= sum + Distance(s, km, k)
             /\ (\A i \in Mounts(s) : s[i].given # Null)
                   => Hi!TotalKmDriven(qs) = sum + Distance(s, km, k)
  <2>1. /\ \A j \in 1..Len(ps) : ps[j].km = Null \/ ps[j].km >= 0
        /\ Hi!TotalKmDriven(ps) <= sum
        /\ (\A i \in Mounts(s) : s[i].given # Null) => Hi!TotalKmDriven(ps) = sum
    BY <1>8 DEF Paired
  <2>2. \A j \in 1..Len(qs) : qs[j].km = Null \/ qs[j].km >= 0
    <3>1. \A j \in 1..Len(qs) : j \in 1..Len(ps) \/ j = Len(qs)
      BY <1>3
    <3> QED
      BY <3>1, <2>1, <1>1, <1>3, <1>8
  <2>3. /\ KmOf(p) <= Distance(s, km, k)
        /\ s[k].given # Null => KmOf(p) = Distance(s, km, k)
    BY <1>1, <1>8
  <2>4. Distance(s, km, k) \in Int
    BY <1>4, DistanceType
  <2>5. \A a, b, c, d \in Int : a <= b /\ c <= d => a + c <= b + d
    OBVIOUS
  <2>6. Hi!TotalKmDriven(qs) <= sum + Distance(s, km, k)
    BY <2>1, <2>3, <2>4, <2>5, <1>2, <1>7
  <2>7. (\A i \in Mounts(s) : s[i].given # Null)
          => Hi!TotalKmDriven(qs) = sum + Distance(s, km, k)
    BY <2>1, <2>3, <1>7
  <2> QED
    BY <2>2, <2>6, <2>7
<1> QED
  BY <1>1, <1>3, <1>5, <1>6, <1>8 DEF Extended

(* F is what the loop has after each row, D what was driven until then. *)
Loop(s, km, F, D) ==
  /\ F \in [0..Len(s) -> Pairing] /\ F[0] = NoPairs
  /\ \A k \in 1..Len(s) : F[k] = Hi!Pair(F[k - 1], s[k])
  /\ D \in [0..Len(s) -> Int] /\ D[0] = 0
  /\ \A k \in 1..Len(s) : D[k] = D[k - 1] + Distance(s, km, k)

LEMMA PairedAll ==
  ASSUME Hi!ConstantsAssumption, NEW s \in Seq(Hi!Row), NEW km \in Nat,
         NEW F, NEW D, Loop(s, km, F, D)
  PROVE  \A k \in 1..Len(s) : Paired(s, km, F[k].periods, D[k - 1], k)
<1> DEFINE n == Len(s)
           I == {k \in 0..n : k > 0 => Paired(s, km, F[k].periods, D[k - 1], k)}
<1>1. /\ n \in Nat /\ F \in [0..n -> Pairing] /\ D \in [0..n -> Int] /\ D[0] = 0
      /\ \A k \in 1..n : D[k] = D[k - 1] + Distance(s, km, k)
      /\ \A k \in 1..n : s[k] \in Hi!Row
  BY DEF Loop
<1>2. ASSUME NEW k \in 1..n
      PROVE  /\ k = 1 => F[k].periods = <<>>
             /\ k > 1 => F[k].periods =
                           IF k - 1 \in Mounts(s)
                           THEN Append(F[k - 1].periods,
                                       Hi!Period(s[k - 1], Hi!Removed(s[k]), FALSE))
                           ELSE F[k - 1].periods
  BY LoopStep DEF Loop
<1> HIDE DEF n
<1>3. ASSUME NEW k \in 1..n, k > 1 => Paired(s, km, F[k - 1].periods, D[k - 2], k - 1)
      PROVE  Paired(s, km, F[k].periods, D[k - 1], k)
  <2>1. CASE k = 1
    <3> DEFINE e == <<>>
    <3>1. e \in Seq(PeriodRow) /\ Len(e) = 0 /\ Hi!TotalKmDriven(e) = 0
      BY TotalEmpty
    <3>2. Cardinality(Before(s, 1)) = 0
      BY MountsBefore, FS_EmptySet
    <3>3. F[k].periods = e /\ D[k - 1] = 0
      <4>1. F[k].periods = e
        BY <2>1, <1>2
      <4>2. k - 1 = 0 /\ D[0] = 0
        BY <2>1, <1>1
      <4> QED
        BY <4>1, <4>2
    <3> HIDE DEF e
    <3>4. Paired(s, km, e, 0, 1)
      BY <3>1, <3>2 DEF Paired
    <3> QED
      BY <2>1, <3>3, <3>4
  <2>2. CASE k > 1 /\ k - 1 \in Mounts(s)
    <3> DEFINE j == k - 1
               ps == F[j].periods
               qs == F[k].periods
    <3>1. /\ qs = Append(ps, Hi!Period(s[j], Hi!Removed(s[k]), FALSE))
          /\ Paired(s, km, ps, D[k - 2], j)
      BY <2>2, <1>2, <1>3
    <3>2. /\ Hi!Removed(s[k]) \in Nat
          /\ Hi!Consistent(s, km) => Hi!Removed(s[k]) = ReadOff(s, km, k)
      <4>1. ReadOff(s, km, k) = s[k].mileage /\ s[k] \in Hi!Row
        BY <1>1, DistanceType DEF n
      <4>2. Hi!Removed(s[k]) \in Nat
        BY <4>1, HistoryFacts
      <4>3. Hi!Consistent(s, km) => s[k].given \in {Null, s[k].mileage}
        BY DEF Hi!Consistent, n
      <4> QED
        BY <4>1, <4>2, <4>3 DEF Hi!Removed
    <3>3. j + 1 = k /\ j \in 1..n /\ k \in 0..n
      BY <1>1, <2>2
    <3>4. D[k - 2] + Distance(s, km, j) = D[k - 1] /\ D[k - 1] \in Int
      <4>1. D[j] = D[j - 1] + Distance(s, km, j) /\ j - 1 = k - 2 /\ j \in 0..n
        BY <1>1, <3>3
      <4> QED
        BY <4>1, <1>1
    <3>5. j \in Mounts(s)
      BY <2>2
    <3> HIDE DEF j, ps, qs
    <3>6. /\ qs \in Seq(PeriodRow) /\ Len(qs) = Len(ps) + 1
          /\ Len(qs) = Cardinality(Before(s, j + 1))
          /\ \A i \in 1..Len(ps) : qs[i].ongoing = FALSE
          /\ qs[Len(qs)].ongoing = FALSE
          /\ Hi!Consistent(s, km) =>
               /\ \A i \in 1..Len(qs) : qs[i].km = Null \/ qs[i].km >= 0
               /\ Hi!TotalKmDriven(qs) <= D[k - 2] + Distance(s, km, j)
               /\ (\A i \in Mounts(s) : s[i].given # Null)
                    => Hi!TotalKmDriven(qs) = D[k - 2] + Distance(s, km, j)
      <4> DEFINE until == Hi!Removed(s[k])
                 sum == D[k - 2]
      <4>1. until \in Nat /\ (Hi!Consistent(s, km) => until = ReadOff(s, km, j + 1))
        BY <3>2, <3>3
      <4>2. qs = Append(ps, Hi!Period(s[j], until, FALSE)) /\ Paired(s, km, ps, sum, j)
        BY <3>1
      <4> HIDE DEF until, sum
      <4>3. Extended(s, km, ps, sum, j, qs, FALSE)
        <5>1. FALSE \in BOOLEAN /\ ReadsOn(s, km, j, until)
          BY <4>1 DEF ReadsOn
        <5> QED
          BY <5>1, <4>1, <4>2, <3>5, PairedMore
      <4> QED
        BY <4>3 DEF sum, Extended
    <3>7. \A i \in 1..Len(qs) : i \in 1..Len(ps) \/ i = Len(qs)
      <4>1. Len(ps) \in Nat
        BY <3>1 DEF Paired
      <4> QED
        BY <4>1, <3>6
    <3>8. \A i \in 1..Len(qs) : qs[i].ongoing = FALSE
      BY <3>6, <3>7
    <3>9. Paired(s, km, qs, D[k - 1], k)
      BY <3>3, <3>4, <3>6, <3>8 DEF Paired
    <3> QED
      BY <3>9 DEF qs
  <2>3. CASE k > 1 /\ k - 1 \notin Mounts(s)
    <3>1. /\ F[k].periods = F[k - 1].periods
          /\ Paired(s, km, F[k - 1].periods, D[k - 2], k - 1)
      BY <2>3, <1>2, <1>3
    <3>2. D[k - 1] = D[k - 2]
      <4>1. k - 1 \in 1..n /\ k - 1 \in 0..n /\ k - 2 \in 0..n /\ (k - 1) - 1 = k - 2
        BY <2>3, <1>1
      <4>2. D[k - 1] = D[(k - 1) - 1] + Distance(s, km, k - 1)
        BY <4>1, <1>1
      <4>3. Distance(s, km, k - 1) = 0
        BY <2>3 DEF Distance
      <4> QED
        BY <4>1, <4>2, <4>3, <1>1
    <3>3. Cardinality(Before(s, k)) = Cardinality(Before(s, k - 1))
      <4>1. k - 1 \in Nat /\ (k - 1) + 1 = k
        BY <2>3, <1>1
      <4>2. Cardinality(Before(s, (k - 1) + 1)) = Cardinality(Before(s, k - 1))
        BY <4>1, <2>3, MountsBefore
      <4> QED
        BY <4>1, <4>2
    <3> QED
      BY <3>1, <3>2, <3>3 DEF Paired
  <2>4. k = 1 \/ k > 1
    BY <1>1
  <2> QED
    BY <2>1, <2>2, <2>3, <2>4
<1>4. GoesOn(I, n)
  <2>1. 0 \in I
    BY <1>1
  <2>2. ASSUME NEW k \in 1..n, k - 1 \in I PROVE k \in I
    <3>1. k \in 0..n /\ (k - 1) - 1 = k - 2
      BY <1>1
    <3>2. k > 1 => Paired(s, km, F[k - 1].periods, D[k - 2], k - 1)
      BY <2>2, <3>1
    <3>3. Paired(s, km, F[k].periods, D[k - 1], k)
      BY <3>2, <1>3
    <3> QED
      BY <3>1, <3>3
  <2> QED
    BY <2>1, <2>2 DEF GoesOn
<1>5. \A k \in 0..n : k \in I
  <2> HIDE DEF I
  <2> QED
    BY <1>1, <1>4, PrefixInduction
<1>6. \A k \in 1..n : k \in 0..n /\ k > 0
  BY <1>1
<1> QED
  BY <1>5, <1>6 DEF n

LEMMA DrivenAtMost ==
  ASSUME Hi!ConstantsAssumption, NEW s \in Seq(Hi!Row), NEW km \in Nat,
         NEW F, NEW D, Loop(s, km, F, D), Hi!Consistent(s, km), Len(s) > 0
  PROVE  D[Len(s)] <= km - s[1].mileage
<1> DEFINE n == Len(s)
           I == {k \in 0..n : k > 0 => D[k] <= ReadOff(s, km, k + 1) - ReadOff(s, km, 1)}
<1>1. /\ n \in Nat /\ n > 0 /\ D \in [0..n -> Int] /\ D[0] = 0
      /\ \A k \in 1..n : D[k] = D[k - 1] + Distance(s, km, k)
  BY DEF Loop
<1>2. ASSUME NEW k \in 1..n
      PROVE  /\ ReadOff(s, km, k) \in Nat /\ ReadOff(s, km, k + 1) \in Nat
             /\ ReadOff(s, km, k) <= ReadOff(s, km, k + 1)
  <2>1. /\ ReadOff(s, km, k) \in Nat /\ ReadOff(s, km, k + 1) \in Nat
        /\ ReadOff(s, km, k) = s[k].mileage
    BY DistanceType
  <2>2. CASE k = n
    <3>1. s[k].mileage <= km /\ ReadOff(s, km, k + 1) = km
      BY <2>2, <1>1 DEF Hi!Consistent, ReadOff
    <3> QED
      BY <3>1, <2>1
  <2>3. CASE k # n
    <3>1. k \in 1..(n - 1) /\ ~(k + 1 > n)
      BY <2>3, <1>1
    <3>2. s[k].mileage <= s[k + 1].mileage /\ ReadOff(s, km, k + 1) = s[k + 1].mileage
      BY <3>1 DEF Hi!Consistent, ReadOff
    <3> QED
      BY <3>2, <2>1
  <2> QED
    BY <2>2, <2>3
<1>3. ReadOff(s, km, 1) = s[1].mileage /\ ReadOff(s, km, n + 1) = km /\ ReadOff(s, km, 1) \in Nat
  BY <1>1, DistanceType DEF ReadOff
<1> HIDE DEF n
<1>4. ASSUME NEW k \in 1..n, k > 1 => D[k - 1] <= ReadOff(s, km, k) - ReadOff(s, km, 1)
      PROVE  D[k] <= ReadOff(s, km, k + 1) - ReadOff(s, km, 1)
  <2>1. k - 1 \in 0..n /\ k \in 0..n /\ (k = 1 \/ k > 1)
    BY <1>1
  <2>2. D[k - 1] <= ReadOff(s, km, k) - ReadOff(s, km, 1) /\ D[k - 1] \in Int
    <3>1. CASE k = 1
      <4>1. D[k - 1] = 0
        BY <3>1, <1>1
      <4> QED
        BY <4>1, <3>1, <1>3
    <3>2. CASE k > 1
      BY <3>2, <2>1, <1>1, <1>4
    <3> QED
      BY <3>1, <3>2, <2>1
  <2>3. D[k] = D[k - 1] + Distance(s, km, k)
    BY <1>1
  <2>4. /\ ReadOff(s, km, k) \in Nat /\ ReadOff(s, km, k + 1) \in Nat
        /\ ReadOff(s, km, k) <= ReadOff(s, km, k + 1)
    BY <1>2
  <2>5. /\ Distance(s, km, k) <= ReadOff(s, km, k + 1) - ReadOff(s, km, k)
        /\ Distance(s, km, k) \in Int
    BY <2>4 DEF Distance
  <2>6. \A a, b, x, y, z \in Int : a <= x - z /\ b <= y - x => a + b <= y - z
    OBVIOUS
  <2>7. D[k - 1] + Distance(s, km, k) <= ReadOff(s, km, k + 1) - ReadOff(s, km, 1)
    <3>1. /\ D[k - 1] \in Int /\ Distance(s, km, k) \in Int /\ ReadOff(s, km, k) \in Int
          /\ ReadOff(s, km, k + 1) \in Int /\ ReadOff(s, km, 1) \in Int
      BY <2>2, <2>4, <2>5, <1>3
    <3> QED
      BY <3>1, <2>2, <2>5, <2>6
  <2> QED
    BY <2>3, <2>7
<1>5. GoesOn(I, n)
  <2>1. 0 \in I
    BY <1>1
  <2>2. ASSUME NEW k \in 1..n, k - 1 \in I PROVE k \in I
    <3>1. k \in 0..n /\ k - 1 + 1 = k
      BY <1>1
    <3>2. k > 1 => D[k - 1] <= ReadOff(s, km, k) - ReadOff(s, km, 1)
      BY <2>2, <3>1
    <3>3. D[k] <= ReadOff(s, km, k + 1) - ReadOff(s, km, 1)
      BY <3>2, <1>4
    <3> QED
      BY <3>1, <3>3
  <2> QED
    BY <2>1, <2>2 DEF GoesOn
<1>6. \A k \in 0..n : k \in I
  <2> HIDE DEF I
  <2> QED
    BY <1>1, <1>5, PrefixInduction
<1>7. n \in 0..n /\ n > 0
  BY <1>1
<1>8. D[n] <= ReadOff(s, km, n + 1) - ReadOff(s, km, 1)
  BY <1>6, <1>7
<1> QED
  BY <1>3, <1>8 DEF n

(* What DrivenOnce says of one answer. *)
AnswerDrivenOnce(s, km) ==
  LET periods == Hi!Periods(s, km)
      mounts == Mounts(s)
      driven == Driven(s, km)
      sum == Hi!TotalKmDriven(periods)
      last == Len(s)
  IN /\ Len(periods) = Hi!Cardinality(mounts)
     /\ \A i \in DOMAIN periods : periods[i].ongoing <=> (i = Len(periods) /\ last \in mounts)
     /\ Hi!Consistent(s, km) =>
          /\ \A i \in DOMAIN periods : periods[i].km = Null \/ periods[i].km >= 0
          /\ sum <= driven
          /\ (\A i \in mounts : s[i].given # Null) => sum = driven
          /\ last > 0 => driven <= km - s[1].mileage

(* All rows are paired, with the total sum. *)
AllPaired(s, km, qs, sum) ==
  /\ qs \in Seq(PeriodRow)
  /\ Len(qs) = Cardinality(Mounts(s))
  /\ \A i \in 1..Len(qs) : qs[i].ongoing <=> (i = Len(qs) /\ Len(s) \in Mounts(s))
  /\ Hi!Consistent(s, km) =>
       /\ \A i \in 1..Len(qs) : qs[i].km = Null \/ qs[i].km >= 0
       /\ Hi!TotalKmDriven(qs) <= sum
       /\ (\A i \in Mounts(s) : s[i].given # Null) => Hi!TotalKmDriven(qs) = sum

LEMMA OneHistory ==
  ASSUME Hi!ConstantsAssumption, NEW s \in Seq(Hi!Row), NEW km \in Nat
  PROVE  AnswerDrivenOnce(s, km)
<1> DEFINE n == Len(s)
           qs == Hi!Periods(s, km)
<1>1. PICK F : /\ F \in [0..n -> Pairing] /\ F[0] = NoPairs
               /\ \A k \in 1..n : F[k] = Hi!Pair(F[k - 1], s[k])
               /\ Hi!FoldLeft(Hi!Pair, NoPairs, s) = F[n]
  BY PairingFold
<1>2. PICK D : /\ D \in [0..n -> Int] /\ D[0] = 0
               /\ \A k \in 1..n : D[k] = D[k - 1] + Distance(s, km, k)
               /\ Driven(s, km) = D[n]
  BY DrivenFold
<1>3. Loop(s, km, F, D)
  BY <1>1, <1>2 DEF Loop
<1>4. n \in Nat /\ \A k \in 1..n : s[k] \in Hi!Row
  OBVIOUS
<1>5. qs = IF F[n].pending = Null THEN F[n].periods
           ELSE Append(F[n].periods, Hi!Period(F[n].pending, km, TRUE))
  BY <1>1 DEF Hi!Periods, NoPairs
<1>6. ASSUME n > 0
      PROVE  /\ F[n].pending = IF s[n].type = "INSTALL" THEN s[n] ELSE Null
             /\ Paired(s, km, F[n].periods, D[n - 1], n)
             /\ D[n] = D[n - 1] + Distance(s, km, n) /\ s[n] # Null
             /\ n \in Mounts(s) <=> s[n].type = "INSTALL"
  <2>1. n \in 1..n
    BY <1>4, <1>6
  <2>2. F[n].pending = IF s[n].type = "INSTALL" THEN s[n] ELSE Null
    BY <2>1, <1>1, LoopStep
  <2>3. Paired(s, km, F[n].periods, D[n - 1], n)
    BY <2>1, <1>3, PairedAll
  <2>4. n \in Mounts(s) <=> s[n].type = "INSTALL"
    BY <2>1 DEF Mounts
  <2> QED
    BY <2>1, <2>2, <2>3, <2>4, <1>2, <1>4, HistoryFacts
<1>7. ASSUME n = 0
      PROVE  AllPaired(s, km, qs, D[n])
  <2>1. qs = <<>>
    <3>1. F[n].pending = Null /\ F[n].periods = <<>>
      BY <1>1, <1>7 DEF NoPairs
    <3> QED
      BY <3>1, <1>5
  <2>2. qs \in Seq(PeriodRow) /\ Len(qs) = 0 /\ Hi!TotalKmDriven(qs) = 0 /\ D[n] = 0
    BY <2>1, <1>2, <1>7, TotalEmpty
  <2>3. Mounts(s) = {}
    BY <1>7 DEF Mounts
  <2>4. Cardinality(Mounts(s)) = 0
    BY <2>3, FS_EmptySet
  <2> HIDE DEF qs
  <2>5. \A i \in 1..Len(qs) : FALSE
    BY <2>2
  <2> QED
    BY <2>2, <2>3, <2>4, <2>5 DEF AllPaired
<1>8. ASSUME n > 0 /\ n \in Mounts(s)
      PROVE  AllPaired(s, km, qs, D[n])
  <2> DEFINE ps == F[n].periods
             sum == D[n - 1]
             p == Hi!Period(s[n], km, TRUE)
  <2>1. qs = Append(ps, Hi!Period(s[n], km, TRUE)) /\ Paired(s, km, ps, sum, n)
    BY <1>5, <1>6, <1>8
  <2>2. ReadOff(s, km, n + 1) = km /\ TRUE \in BOOLEAN
    BY <1>4 DEF ReadOff
  <2>3. D[n] = sum + Distance(s, km, n)
    BY <1>6, <1>8
  <2>4. Before(s, n + 1) = Mounts(s)
    BY <1>4, MountsBefore
  <2>5. n \in Mounts(s)
    BY <1>8
  <2> HIDE DEF qs, ps, sum
  <2>6. Extended(s, km, ps, sum, n, qs, TRUE)
    <3>1. ReadsOn(s, km, n, km)
      BY <2>2 DEF ReadsOn
    <3> QED
      BY <2>1, <2>2, <2>5, <3>1, PairedMore
  <2>7. \A i \in 1..Len(qs) : (i \in 1..Len(ps) /\ i # Len(qs)) \/ i = Len(qs)
    <3>1. Len(ps) \in Nat
      BY <2>1 DEF Paired
    <3> QED
      BY <3>1, <2>6 DEF Extended
  <2>8. \A i \in 1..Len(qs) : qs[i].ongoing <=> (i = Len(qs) /\ n \in Mounts(s))
    BY <2>5, <2>6, <2>7 DEF Extended
  <2> QED
    BY <2>3, <2>4, <2>6, <2>8 DEF Extended, AllPaired
<1>9. ASSUME n > 0 /\ n \notin Mounts(s)
      PROVE  AllPaired(s, km, qs, D[n])
  <2>1. qs = F[n].periods
    BY <1>5, <1>6, <1>9
  <2>2. Paired(s, km, qs, D[n - 1], n)
    BY <2>1, <1>6, <1>9
  <2>3. D[n] = D[n - 1]
    <3>1. Distance(s, km, n) = 0
      BY <1>9 DEF Distance
    <3>2. D[n - 1] \in Int
      BY <2>2 DEF Paired
    <3> QED
      BY <3>1, <3>2, <1>6, <1>9
  <2>4. Cardinality(Before(s, n)) = Cardinality(Mounts(s))
    BY <1>4, <1>9, MountsBefore
  <2> HIDE DEF qs
  <2> QED
    BY <2>2, <2>3, <2>4, <1>9 DEF Paired, AllPaired
<1> HIDE DEF qs
<1>10. AllPaired(s, km, qs, D[n])
  <2>1. n = 0 \/ n > 0
    BY <1>4
  <2> QED
    BY <2>1, <1>7, <1>8, <1>9
<1>11. Hi!Consistent(s, km) /\ n > 0 => D[n] <= km - s[1].mileage
  BY <1>3, DrivenAtMost
<1>12. DOMAIN qs = 1..Len(qs)
  BY <1>10 DEF AllPaired
<1> QED
  BY <1>2, <1>10, <1>11, <1>12, HistoryCardinality DEF AnswerDrivenOnce, AllPaired, qs

-----------------------------------------------------------------------------
(* What is read: with TypeOK, that the changes form a sequence and that no *)
(* answer is made without the odometer.                                    *)

HistoryInv ==
  /\ change \in [ChangeIds -> Hi!Row \cup {Null}]
  /\ odometer \in Mileages
  /\ historyPc \in {"idle", "odometer", "reply"}
  /\ read \in [changes : Seq(Hi!Row), odo : Mileages \cup {Null}]
  /\ historyPc = "reply" => read.odo # Null

LEMMA ByDateType ==
  ASSUME Hi!ConstantsAssumption, change \in [ChangeIds -> Hi!Row \cup {Null}],
         NEW changes \in Hi!ByDate
  PROVE  changes \in Seq(Hi!Row)
<1>1. Hi!Rows \in SUBSET ChangeIds /\ \A c \in Hi!Rows : change[c] \in Hi!Row
  BY DEF Hi!Rows
<1>2. IsFiniteSet(Hi!Rows)
  BY <1>1, FS_Subset, HistoryCardinality DEF Hi!ConstantsAssumption
<1>3. Cardinality(Hi!Rows) \in Nat
  BY <1>2, FS_CardinalityType
<1>4. PICK s \in Hi!SetToSeqs(Hi!Rows) : changes = [i \in DOMAIN s |-> change[s[i]]]
  BY DEF Hi!ByDate
<1>5. s \in [1..Cardinality(Hi!Rows) -> Hi!Rows]
  BY <1>4, HistoryCardinality DEF Hi!SetToSeqs
<1>6. changes \in [1..Cardinality(Hi!Rows) -> Hi!Row]
  BY <1>1, <1>4, <1>5
<1> QED
  BY <1>3, <1>6

LEMMA HistoryInductive ==
  ASSUME Hi!ConstantsAssumption
  PROVE  /\ Hi!Init => HistoryInv
         /\ HistoryInv /\ [Hi!Next]_(Hi!vars) => HistoryInv'
<1>1. Mileages \subseteq Nat /\ Null \notin Nat /\ 0 \in Mileages
  BY DEF Hi!ConstantsAssumption
<1>2. Hi!Init => HistoryInv
  BY <1>1 DEF Hi!Init, HistoryInv, Hi!NothingRead
<1>3. ASSUME HistoryInv, [Hi!Next]_(Hi!vars) PROVE HistoryInv'
  <2> USE DEF HistoryInv
  <2>1. ASSUME NEW c \in ChangeIds, NEW entry \in Hi!Row, Hi!Record(c, entry) PROVE HistoryInv'
    BY <1>3, <2>1 DEF Hi!Record
  <2>2. ASSUME NEW km \in Mileages, Hi!SetOdometer(km) PROVE HistoryInv'
    BY <1>3, <2>2 DEF Hi!SetOdometer
  <2>3. CASE Hi!OpenHistory
    <3>1. PICK changes \in Hi!ByDate : read' = [read EXCEPT !.changes = changes]
      BY <2>3 DEF Hi!OpenHistory
    <3>2. changes \in Seq(Hi!Row)
      BY <1>3, ByDateType
    <3> QED
      BY <1>3, <2>3, <3>1, <3>2 DEF Hi!OpenHistory
  <2>4. CASE Hi!ReadOdometer
    <3>1. odometer # Null
      BY <1>1, <1>3
    <3> QED
      BY <1>3, <2>4, <3>1 DEF Hi!ReadOdometer
  <2>5. CASE Hi!Reply
    BY <1>3, <2>5 DEF Hi!Reply, Hi!NothingRead
  <2>6. CASE UNCHANGED Hi!vars
    BY <1>3, <2>6 DEF Hi!vars
  <2> QED
    BY <1>3, <2>1, <2>2, <2>3, <2>4, <2>5, <2>6 DEF Hi!Next
<1> QED
  BY <1>2, <1>3

LEMMA HistoryInvImplies ==
  ASSUME Hi!ConstantsAssumption, HistoryInv
  PROVE  Hi!TypeOK /\ Hi!DrivenOnce
<1>1. Hi!TypeOK
  BY DEF HistoryInv, Hi!TypeOK
<1>2. ASSUME historyPc = "reply" PROVE AnswerDrivenOnce(read.changes, read.odo)
  <2>1. read.changes \in Seq(Hi!Row) /\ read.odo \in Mileages
    BY <1>2 DEF HistoryInv
  <2>2. read.odo \in Nat
    BY <2>1 DEF Hi!ConstantsAssumption
  <2> QED
    BY <2>1, <2>2, OneHistory
<1>3. Hi!DrivenOnce
  BY <1>2, ZenonT(60) DEF Hi!DrivenOnce, AnswerDrivenOnce, Mounts, Driven, ReadOff,
              Hi!FoldLeftDomain, Hi!FoldLeft, Hi!MapThenFoldSet
<1> QED
  BY <1>1, <1>3

-----------------------------------------------------------------------------
(* The parts together *)

(* A step is one of the part a behaviour is about, whose variables are all *)
(* that it changes.                                                        *)
LEMMA StepOfPart ==
  ASSUME [GarageNext]_garageVars
  PROVE  /\ part' = part
         /\ [Wo!Next]_(Wo!vars)
         /\ part = "history" => [Hi!Next]_(Hi!vars)
         /\ part = "media" => [Me!Next]_(Me!vars)
         /\ part = "milestones" => [Mi!Next]_(Mi!vars)
         /\ part = "vehicles" => [Ve!Next]_(Ve!vars)
<1>1. CASE UNCHANGED garageVars
  <2>1. UNCHANGED <<part, workspaceVars, historyVars, mediaVars, milestoneVars, vehicleVars>>
    BY <1>1 DEF garageVars
  <2>2. UNCHANGED Wo!vars
    BY <2>1 DEF workspaceVars, Wo!vars
  <2>3. UNCHANGED Me!vars
    BY <2>1 DEF mediaVars, Me!vars, Me!tables
  <2>4. UNCHANGED Mi!vars
    BY <2>1 DEF milestoneVars, Mi!vars
  <2>5. UNCHANGED Ve!vars
    BY <2>1 DEF vehicleVars, Ve!vars
  <2>6. UNCHANGED Hi!vars
    BY <2>1 DEF historyVars, Hi!vars
  <2> QED
    BY <2>1, <2>2, <2>3, <2>4, <2>5, <2>6
<1>2. CASE GarageNext
  <2>1. part' = part
    BY <1>2 DEF GarageNext, Others
  <2>2. [Wo!Next]_(Wo!vars)
    <3>1. CASE part = "workspaces"
      BY <1>2, <3>1 DEF GarageNext
    <3>2. CASE part # "workspaces"
      <4>1. UNCHANGED workspaceVars
        BY <1>2, <3>2 DEF GarageNext, Others
      <4> QED
        BY <4>1 DEF workspaceVars, Wo!vars
    <3> QED
      BY <3>1, <3>2
  <2>3. /\ part = "history" => [Hi!Next]_(Hi!vars)
        /\ part = "media" => [Me!Next]_(Me!vars)
        /\ part = "milestones" => [Mi!Next]_(Mi!vars)
        /\ part = "vehicles" => [Ve!Next]_(Ve!vars)
    BY <1>2 DEF GarageNext
  <2> QED
    BY <2>1, <2>2, <2>3
<1> QED
  BY <1>1, <1>2

PartsInv ==
  /\ part = "history" => HistoryInv
  /\ part = "media" => PhotoInv
  /\ part = "milestones" => AwardInv
  /\ part = "vehicles" => DeletionInv

LEMMA PartsInductive == GarageSpec => []PartsInv
<1>1. GarageInit => PartsInv
  <2>1. Hi!Init => HistoryInv
    BY HistoryInductive, GarageAssumption
  <2> QED
    BY <2>1, PhotoInitInv, AwardInitInv, DeletionInitInv DEF GarageInit, PartsInv
<1>2. PartsInv /\ [GarageNext]_garageVars => PartsInv'
  <2>1. HistoryInv /\ [Hi!Next]_(Hi!vars) => HistoryInv'
    BY HistoryInductive, GarageAssumption
  <2> QED
    BY <2>1, StepOfPart, PhotoNextInv, AwardNextInv, DeletionNextInv DEF PartsInv
<1> QED
  BY <1>1, <1>2, PTL DEF GarageSpec

(* TiresService.getHistory: one period for each INSTALL that a REMOVE or   *)
(* nothing follows, and of readings that agree and never fall no kilometre *)
(* counted twice; for any number of changes.                               *)
THEOREM Driving == GarageSpec => []DrivenOnce
<1>1. HistoryInv => Hi!TypeOK /\ Hi!DrivenOnce
  BY HistoryInvImplies, GarageAssumption
<1>2. PartsInv => DrivenOnce
  BY <1>1 DEF PartsInv, DrivenOnce
<1> QED
  BY <1>2, PartsInductive, PTL

(* MediaService: where no two requests met and none failed, an entity has  *)
(* one primary photo, the one its vehicle or profile names; and it never   *)
(* has more of them than there are requests; for any requests, photos and  *)
(* entities.                                                               *)
THEOREM Showing == GarageSpec => []PhotosInStep
<1>1. PartsInv => PhotosInStep
  BY PhotoPromises DEF PartsInv, PhotosInStep
<1> QED
  BY <1>1, PartsInductive, PTL

(* MediaService: a photo in the table has its image in the store, but for  *)
(* a deletion that is under way or was broken off between the two.         *)
THEOREM Storing == GarageSpec => []RowHasImage
<1>1. PartsInv => RowHasImage
  BY PhotoPromises DEF PartsInv, RowHasImage
<1> QED
  BY <1>1, PartsInductive, PTL

(* MilestonesService: however the total moves, with a check after it or    *)
(* without, a level has no more rows than there are requests; a check that *)
(* came to its end has left no level open that the total stayed above      *)
(* while it ran; no level is awarded, nor shown as current, that was never *)
(* reached; the level shown as next was granted by no check that had ended *)
(* before the answer began; and the progress lies within 0..100 unless the *)
(* total fell below the current level or rose past what was granted.       *)
THEOREM Awarding == GarageSpec => []AwardsInStep
<1>1. AwardInv => Mi!TypeOK
  BY DEF AwardInv
<1>2. PartsInv => AwardsInStep
  BY <1>1, AwardPromises DEF PartsInv, AwardsInStep
<1> QED
  BY <1>2, PartsInductive, PTL

(* VehiclesService.delete: what a deleted vehicle still has in any of its  *)
(* six tables was added while it was being deleted, or after; for any      *)
(* requests, vehicles and rows.                                            *)
THEOREM Deleting == GarageSpec => []DeletionTakesAll
<1>1. PartsInv => DeletionTakesAll
  BY DeletionPromises DEF PartsInv, DeletionTakesAll
<1> QED
  BY <1>1, PartsInductive, PTL

LEMMA WorkspacesBehave == GarageSpec => WP!Spec
<1>1. GarageInit => WP!Init
  BY WorkspaceSteps DEF GarageInit
<1>2. [GarageNext]_garageVars => [WP!Next]_(WP!vars)
  BY StepOfPart, WorkspaceSteps
<1> QED
  BY <1>1, <1>2, PTL DEF GarageSpec, WP!Spec

(* A request writes rows of the workspace its guard looked at, and no      *)
(* other.                                                                  *)
THEOREM Containing == GarageSpec => StaysInWorkspace
<1>1. WP!Spec => WP!StaysInWorkspace
  BY WP!Contained, GarageAssumption DEF Wo!ConstantsAssumption, WP!ConstantsAssumption
<1>2. WP!StaysInWorkspace => StaysInWorkspace
  BY DEF WP!StaysInWorkspace, StaysInWorkspace, Wo!StaysInWorkspace, Wo!vars, WP!vars
<1> QED
  BY <1>1, <1>2, WorkspacesBehave

(* acceptInvite, one request at a time, finds the workspace of the invite: *)
(* `workspace!.id` is never that of no row.                                *)
THEOREM Accepting == GarageSpec => []AcceptFindsWorkspace
<1>a. WP!ConstantsAssumption
  BY GarageAssumption DEF Wo!ConstantsAssumption, WP!ConstantsAssumption
<1>1. WP!Spec => []WP!AcceptFindsWorkspace
  BY <1>a, WP!AcceptFinds
<1>2. WP!Spec => []WP!TypeOK
  BY <1>a, WP!TypeCorrect
<1>3. WP!AcceptFindsWorkspace => Wo!AcceptFindsWorkspace
  BY WorkspaceReads DEF WP!AcceptFindsWorkspace, Wo!AcceptFindsWorkspace
<1>4. WP!TypeOK => Wo!TypeOK
  BY DEF WP!TypeOK, Wo!TypeOK, WP!WorkspaceRow, Wo!WorkspaceRow, WP!FreeWorkspace,
     Wo!FreeWorkspace, WP!MemberRow, Wo!MemberRow, WP!FreeMember, Wo!FreeMember, WP!GoneMember,
     Wo!GoneMember, WP!InviteRow, Wo!InviteRow, WP!FreeInvite, Wo!FreeInvite, WP!GoneInvite,
     Wo!GoneInvite, WP!Args, Wo!Args, WP!Steps, Wo!Steps, WP!Routes, Wo!Routes, WP!InAcceptTx,
     Wo!InAcceptTx, WP!Roles, Wo!Roles, WP!InviteStatus, Wo!InviteStatus
<1> QED
  BY <1>1, <1>2, <1>3, <1>4, WorkspacesBehave, PTL DEF AcceptFindsWorkspace

=============================================================================
