----------------------------- MODULE Workspaces -----------------------------
(***************************************************************************)
(* Workspaces, their members and their invites, as the handlers of         *)
(* src/modules/workspaces change them.  The server is one process, and     *)
(* every `await` on the database is a point where the other requests in    *)
(* flight may run: a request is a program counter that stands at its next  *)
(* await, with what it has read so far as its arguments.  PostgreSQL runs  *)
(* at READ COMMITTED: what a transaction wrote is seen when it commits,    *)
(* and the row locks it holds until then make other writers wait.          *)
(*                                                                         *)
(* An account stands for its e-mail address.  Ids are never reused, so the *)
(* sizes of WorkspaceIds, MemberIds and InviteIds are the bounds.          *)
(***************************************************************************)
EXTENDS Integers, FiniteSets

CONSTANTS
  Users,         \* accounts, each with its e-mail address
  WorkspaceIds,  \* ids of workspaces
  MemberIds,     \* ids of workspace_members rows
  InviteIds,     \* ids (and tokens) of workspace_invites rows
  Requests,      \* HTTP requests that can be in flight together
  GivenRoles,    \* roles that invites and role changes carry: a bound
  Closers,       \* accounts that may be deleted: a bound
  Null           \* no value

ASSUME ConstantsAssumption ==
  /\ Null \notin Users \cup WorkspaceIds \cup MemberIds \cup InviteIds
  /\ GivenRoles \subseteq {"OWNER", "ADMIN", "MEMBER"}
  /\ Closers \subseteq Users

VARIABLES
  workspace,     \* table workspaces
  member,        \* table workspace_members
  invite,        \* table workspace_invites
  deletedUsers,  \* rows of table users with deletedAt set
  pc,            \* where each request stands
  arg            \* what each request carries

tables == <<workspace, member, invite, deletedUsers>>
vars == <<workspace, member, invite, deletedUsers, pc, arg>>

-----------------------------------------------------------------------------
(* Tables.  st is "free" before the row exists; "live" while it does; then *)
(* "gone" (deleted) or, for a workspace, "deleted" (deletedAt set).        *)

Roles == {"OWNER", "ADMIN", "MEMBER"}
InviteStatus == {"PENDING", "ACCEPTED", "REJECTED", "EXPIRED"}

FreeWorkspace == [st |-> "free", owner |-> Null]
FreeMember == [st |-> "free", ws |-> Null, user |-> Null, role |-> "MEMBER"]
FreeInvite == [st |-> "free", ws |-> Null, email |-> Null,
               role |-> "MEMBER", lapsed |-> FALSE]
GoneMember == [FreeMember EXCEPT !.st = "gone"]
GoneInvite == [FreeInvite EXCEPT !.st = "gone"]

WorkspaceRow == [st : {"live", "deleted"}, owner : Users]
MemberRow == [st : {"live"}, ws : WorkspaceIds, user : Users, role : Roles]
InviteRow == [st : InviteStatus, ws : WorkspaceIds, email : Users,
              role : Roles, lapsed : BOOLEAN]

(* Routes behind WorkspaceMemberGuard, and the roles each one admits. *)
Routes == {"delete", "updateMemberRole", "removeMember", "leaveWorkspace",
           "createInvite", "cancelInvite"}

RolesFor(op) ==
  CASE op = "delete" -> {"OWNER"}
    [] op = "leaveWorkspace" -> Roles
    [] OTHER -> {"OWNER", "ADMIN"}

(* A request past the guard stands first at the name of its handler. *)
InAcceptTx == {"accept.insert", "accept.find", "accept.commit"}
Steps == Routes \cup InAcceptTx \cup
         {"idle", "guard", "delete.count", "delete.tx", "delete.commit",
          "updateRole.write", "remove.check", "remove.delete", "leave.delete",
          "invite.pending", "invite.create", "cancel.delete", "accept",
          "reject", "expire", "accept.member", "accept.tx", "reject.write",
          "account.delete"}

NoArgs == [op |-> Null, user |-> Null, ws |-> Null, role |-> "MEMBER",
           mem |-> Null, inv |-> Null, target |-> Null, doomed |-> {}]

Args == [op : Routes \cup {Null}, user : Users \cup {Null},
         ws : WorkspaceIds \cup {Null}, role : Roles,
         mem : MemberIds \cup {Null}, inv : InviteIds \cup {Null},
         target : Users \cup {Null}, doomed : SUBSET InviteIds]

TypeOK ==
  /\ workspace \in [WorkspaceIds -> WorkspaceRow \cup {FreeWorkspace}]
  /\ member \in [MemberIds -> MemberRow \cup {FreeMember, GoneMember}]
  /\ invite \in [InviteIds -> InviteRow \cup {FreeInvite, GoneInvite}]
  /\ deletedUsers \subseteq Users
  /\ pc \in [Requests -> Steps]
  /\ arg \in [Requests -> Args]

-----------------------------------------------------------------------------
(* Queries of the repositories *)

LiveWorkspace(w) == workspace[w].st = "live"

IsMemberRow(m, w, u) ==
  /\ member[m].st = "live"
  /\ member[m].ws = w
  /\ member[m].user = u

HasMember(w, u) == \E m \in MemberIds : IsMemberRow(m, w, u)

MembersOf(w) == {m \in MemberIds : member[m].st = "live" /\ member[m].ws = w}

InviteExists(i) == invite[i].st \notin {"free", "gone"}

PendingInvite(i, w) == invite[i].st = "PENDING" /\ invite[i].ws = w

hasBlockingOwnership(u) ==
  \E m \in MemberIds :
    /\ member[m].st = "live"
    /\ member[m].user = u
    /\ member[m].role = "OWNER"
    /\ LiveWorkspace(member[m].ws)
    /\ Cardinality(MembersOf(member[m].ws)) > 1

(* Another open transaction holds a row lock on invite i: one that set its *)
(* status, or one that deleted it and has not committed yet.               *)
LockedByOther(i, r) ==
  \E q \in Requests \ {r} :
    \/ pc[q] \in InAcceptTx /\ arg[q].inv = i
    \/ i \in arg[q].doomed

(* Another open transaction has inserted the membership (w, u): the unique *)
(* index makes a second insert wait for its outcome.                       *)
InsertedByOther(w, u, r) ==
  \E q \in Requests \ {r} :
    /\ pc[q] \in {"accept.find", "accept.commit"}
    /\ arg[q].ws = w
    /\ arg[q].user = u

-----------------------------------------------------------------------------
(* Control of a request *)

Goto(r, step, a) ==
  /\ pc' = [pc EXCEPT ![r] = step]
  /\ arg' = [arg EXCEPT ![r] = a]

Finish(r) == Goto(r, "idle", NoArgs)

(* The answer is sent, or an exception is: nothing else is written. *)
Answer(r) == Finish(r) /\ UNCHANGED tables

Continue(r, step, a) == Goto(r, step, a) /\ UNCHANGED tables

-----------------------------------------------------------------------------
Init ==
  /\ workspace = [w \in WorkspaceIds |-> FreeWorkspace]
  /\ member = [m \in MemberIds |-> FreeMember]
  /\ invite = [i \in InviteIds |-> FreeInvite]
  /\ deletedUsers = {}
  /\ pc = [r \in Requests |-> "idle"]
  /\ arg = [r \in Requests |-> NoArgs]

(* POST /workspaces: workspace, OWNER row and settings in one transaction. *)
Create(u, w, m) ==
  /\ workspace[w].st = "free"
  /\ member[m].st = "free"
  /\ workspace' = [workspace EXCEPT ![w] = [st |-> "live", owner |-> u]]
  /\ member' = [member EXCEPT ![m] = [st |-> "live", ws |-> w, user |-> u,
                                      role |-> "OWNER"]]
  /\ UNCHANGED <<invite, deletedUsers, pc, arg>>

(* WorkspaceMemberGuard reads the workspace, then the caller's membership, *)
(* which the handler goes on using; WorkspaceRoleGuard checks its role.    *)
Arrive(r, u, w, op) ==
  /\ pc[r] = "idle"
  /\ IF LiveWorkspace(w)
     THEN Continue(r, "guard", [NoArgs EXCEPT !.op = op, !.user = u, !.ws = w])
     ELSE UNCHANGED vars

Guard(r) ==
  LET a == arg[r] IN
  /\ pc[r] = "guard"
  /\ \/ \E m \in MemberIds :
          /\ IsMemberRow(m, a.ws, a.user)
          /\ member[m].role \in RolesFor(a.op)
          /\ Continue(r, a.op, [a EXCEPT !.op = Null, !.role = member[m].role])
     \/ /\ \A m \in MemberIds : IsMemberRow(m, a.ws, a.user)
                                   => member[m].role \notin RolesFor(a.op)
        /\ Answer(r)

-----------------------------------------------------------------------------
(* DELETE /workspaces/:id *)

DeleteCheckOwner(r) ==
  /\ pc[r] = "delete"
  /\ IF LiveWorkspace(arg[r].ws) /\ workspace[arg[r].ws].owner = arg[r].user
     THEN Continue(r, "delete.count", arg[r])
     ELSE Answer(r)

DeleteCount(r) ==
  /\ pc[r] = "delete.count"
  /\ IF Cardinality(MembersOf(arg[r].ws)) > 1
     THEN Answer(r)
     ELSE Continue(r, "delete.tx", arg[r])

(* First statements of the transaction: deleteMany on the invites. *)
DeleteInvites(r) ==
  LET doomed == {i \in InviteIds : InviteExists(i) /\ invite[i].ws = arg[r].ws}
  IN
  /\ pc[r] = "delete.tx"
  /\ \A i \in doomed : ~LockedByOther(i, r)
  /\ Continue(r, "delete.commit", [arg[r] EXCEPT !.doomed = doomed])

DeleteCommitKeepingInvites(r) ==  \* mutant: the invites stay
  /\ pc[r] = "delete.commit"
  /\ workspace' = [workspace EXCEPT ![arg[r].ws].st = "deleted"]
  /\ Finish(r)
  /\ UNCHANGED <<member, invite, deletedUsers>>

(* Soft delete of the workspace, and commit. *)
DeleteCommit(r) ==
  /\ pc[r] = "delete.commit"
  /\ invite' = [i \in InviteIds |-> IF i \in arg[r].doomed
                                    THEN GoneInvite
                                    ELSE invite[i]]
  /\ workspace' = [workspace EXCEPT ![arg[r].ws].st = "deleted"]
  /\ Finish(r)
  /\ UNCHANGED <<member, deletedUsers>>

-----------------------------------------------------------------------------
(* PATCH and DELETE /workspaces/:id/members/:memberId, DELETE .../me *)

(* The acting role is the one the guard read. *)
UpdateRoleCheck(r, m, newRole) ==
  /\ pc[r] = "updateMemberRole"
  /\ IF /\ member[m].st = "live"
        /\ member[m].ws = arg[r].ws
        /\ member[m].role # "OWNER"
        /\ ~(arg[r].role = "ADMIN" /\ newRole = "OWNER")
     THEN Continue(r, "updateRole.write",
                   [arg[r] EXCEPT !.mem = m, !.role = newRole])
     ELSE Answer(r)

UpdateRoleWriteUpserting(r) ==  \* mutant: writes a row that may be gone
  /\ pc[r] = "updateRole.write"
  /\ member' = [member EXCEPT ![arg[r].mem].role = arg[r].role]
  /\ Finish(r)
  /\ UNCHANGED <<workspace, invite, deletedUsers>>

UpdateRoleWrite(r) ==
  LET m == arg[r].mem IN
  /\ pc[r] = "updateRole.write"
  /\ IF member[m].st = "live"
     THEN /\ member' = [member EXCEPT ![m].role = arg[r].role]
          /\ Finish(r)
          /\ UNCHANGED <<workspace, invite, deletedUsers>>
     ELSE Answer(r)

RemoveAnyTarget(r, m) ==  \* mutant: the target's workspace is not compared
  /\ pc[r] = "removeMember"
  /\ IF member[m].st = "live" /\ member[m].role # "OWNER"
     THEN Continue(r, "remove.check", [arg[r] EXCEPT !.mem = m,
                                                     !.target = member[m].user])
     ELSE Answer(r)

RemoveCheckTarget(r, m) ==
  /\ pc[r] = "removeMember"
  /\ IF /\ member[m].st = "live"
        /\ member[m].ws = arg[r].ws
        /\ member[m].role # "OWNER"
        /\ ~(arg[r].role = "ADMIN" /\ member[m].role = "ADMIN")
     THEN Continue(r, "remove.check", [arg[r] EXCEPT !.mem = m,
                                                     !.target = member[m].user])
     ELSE Answer(r)

(* The workspace and the target's account must still be there. *)
RemoveCheckRecords(r) ==
  /\ pc[r] = "remove.check"
  /\ IF LiveWorkspace(arg[r].ws) /\ arg[r].target \notin deletedUsers
     THEN Continue(r, "remove.delete", arg[r])
     ELSE Answer(r)

LeaveFindAnyRole(r) ==  \* mutant: an OWNER may leave
  /\ pc[r] = "leaveWorkspace"
  /\ \E m \in MemberIds :
       /\ IsMemberRow(m, arg[r].ws, arg[r].user)
       /\ Continue(r, "leave.delete", [arg[r] EXCEPT !.mem = m])

LeaveFind(r) ==
  /\ pc[r] = "leaveWorkspace"
  /\ \/ /\ arg[r].role # "OWNER"
        /\ \E m \in MemberIds :
             /\ IsMemberRow(m, arg[r].ws, arg[r].user)
             /\ Continue(r, "leave.delete", [arg[r] EXCEPT !.mem = m])
     \/ /\ arg[r].role = "OWNER" \/ ~HasMember(arg[r].ws, arg[r].user)
        /\ Answer(r)

(* delete by id: an error when the row is no longer there. *)
DeleteMember(r) ==
  LET m == arg[r].mem IN
  /\ pc[r] \in {"remove.delete", "leave.delete"}
  /\ IF member[m].st = "live"
     THEN /\ member' = [member EXCEPT ![m] = GoneMember]
          /\ Finish(r)
          /\ UNCHANGED <<workspace, invite, deletedUsers>>
     ELSE Answer(r)

-----------------------------------------------------------------------------
(* POST and DELETE /workspaces/:id/invites *)

InviteGetWorkspace(r) ==
  /\ pc[r] = "createInvite"
  /\ IF LiveWorkspace(arg[r].ws)
     THEN Continue(r, "invite.pending", arg[r])
     ELSE Answer(r)

InviteFindPending(r, email) ==
  /\ pc[r] = "invite.pending"
  /\ IF \E i \in InviteIds : PendingInvite(i, arg[r].ws) /\ invite[i].email = email
     THEN Answer(r)
     ELSE Continue(r, "invite.create", [arg[r] EXCEPT !.target = email])

(* What follows the insert only writes the mail. *)
InviteCreate(r, i, role) ==
  /\ pc[r] = "invite.create"
  /\ invite[i].st = "free"
  /\ invite' = [invite EXCEPT ![i] =
                 [st |-> "PENDING", ws |-> arg[r].ws, email |-> arg[r].target,
                  role |-> role, lapsed |-> FALSE]]
  /\ Finish(r)
  /\ UNCHANGED <<workspace, member, deletedUsers>>

CancelFind(r, i) ==
  /\ pc[r] = "cancelInvite"
  /\ IF PendingInvite(i, arg[r].ws)
     THEN Continue(r, "cancel.delete", [arg[r] EXCEPT !.inv = i])
     ELSE Answer(r)

WithStatus(i, st) == [invite[i] EXCEPT !.st = st]

(* A write of one invite row by its id or token, outside a transaction: it *)
(* waits for the row's lock, and fails when the row is gone.               *)
WriteInvite(r, row) ==
  LET i == arg[r].inv IN
  /\ ~LockedByOther(i, r)
  /\ IF InviteExists(i)
     THEN /\ invite' = [invite EXCEPT ![i] = row]
          /\ Finish(r)
          /\ UNCHANGED <<workspace, member, deletedUsers>>
     ELSE Answer(r)

CancelDelete(r) == pc[r] = "cancel.delete" /\ WriteInvite(r, GoneInvite)

-----------------------------------------------------------------------------
(* POST /invites/:token/accept and /reject *)

(* step is "accept" or "reject": the handler's first read is the account. *)
OpenInvite(r, u, i, step) ==
  /\ pc[r] = "idle"
  /\ invite[i].st # "free"
  /\ u \notin deletedUsers
  /\ Continue(r, step, [NoArgs EXCEPT !.user = u, !.inv = i])

(* The lapse of the seven days an invite is valid: the date of one that    *)
(* was used is never read again.                                           *)
Lapse(i) ==
  /\ invite[i].st \in {"PENDING", "EXPIRED"}
  /\ ~invite[i].lapsed
  /\ invite' = [invite EXCEPT ![i].lapsed = TRUE]
  /\ UNCHANGED <<workspace, member, deletedUsers, pc, arg>>

validateInvite(r) ==
  LET i == arg[r].inv IN
  /\ pc[r] \in {"accept", "reject"}
  /\ \/ /\ invite[i].st \in {"gone", "ACCEPTED", "REJECTED"}
        /\ Answer(r)
     \/ /\ invite[i].st \in {"PENDING", "EXPIRED"}
        /\ invite[i].lapsed
        /\ Continue(r, "expire", arg[r])
     \/ /\ invite[i].st \in {"PENDING", "EXPIRED"}
        /\ ~invite[i].lapsed
        /\ IF invite[i].email # arg[r].user
           THEN Answer(r)
           ELSE Continue(r, IF pc[r] = "accept" THEN "accept.member"
                                                ELSE "reject.write",
                         [arg[r] EXCEPT !.ws = invite[i].ws])

ExpireWrite(r) == pc[r] = "expire" /\ WriteInvite(r, WithStatus(arg[r].inv, "EXPIRED"))

RejectWrite(r) == pc[r] = "reject.write" /\ WriteInvite(r, WithStatus(arg[r].inv, "REJECTED"))

AcceptCheckMember(r) ==
  /\ pc[r] = "accept.member"
  /\ IF HasMember(arg[r].ws, arg[r].user)
     THEN Answer(r)
     ELSE Continue(r, "accept.tx", arg[r])

AcceptUpdateMany(r) ==  \* mutant: updateMany, which no missing row fails
  /\ pc[r] = "accept.tx"
  /\ ~LockedByOther(arg[r].inv, r)
  /\ Continue(r, "accept.insert", arg[r])

(* The transaction: update the invite by token, whatever its status ...    *)
AcceptUpdate(r) ==
  /\ pc[r] = "accept.tx"
  /\ ~LockedByOther(arg[r].inv, r)
  /\ IF InviteExists(arg[r].inv)
     THEN Continue(r, "accept.insert", arg[r])
     ELSE Answer(r)

AcceptInsertNoIndex(r) ==  \* mutant: without the unique index
  pc[r] = "accept.insert" /\ Continue(r, "accept.find", arg[r])

(* ... insert the member, which the unique index may refuse ...            *)
AcceptInsert(r) ==
  /\ pc[r] = "accept.insert"
  /\ ~InsertedByOther(arg[r].ws, arg[r].user, r)
  /\ IF HasMember(arg[r].ws, arg[r].user)
     THEN Answer(r)
     ELSE Continue(r, "accept.find", arg[r])

(* ... read the workspace and use its id (an exception when it is null) ... *)
AcceptFind(r) ==
  /\ pc[r] = "accept.find"
  /\ IF LiveWorkspace(arg[r].ws)
     THEN Continue(r, "accept.commit", arg[r])
     ELSE Answer(r)

(* ... and commit. *)
AcceptCommit(r, m) ==
  LET i == arg[r].inv IN
  /\ pc[r] = "accept.commit"
  /\ member[m].st = "free"
  /\ member' = [member EXCEPT ![m] = [st |-> "live", ws |-> arg[r].ws,
                                      user |-> arg[r].user,
                                      role |-> invite[i].role]]
  /\ invite' = [invite EXCEPT ![i].st = "ACCEPTED"]
  /\ Finish(r)
  /\ UNCHANGED <<workspace, deletedUsers>>

-----------------------------------------------------------------------------
(* DELETE /users/me: refused while the account owns a shared workspace. *)

DeleteAccountCheck(r, u) ==
  /\ pc[r] = "idle"
  /\ IF hasBlockingOwnership(u)
     THEN UNCHANGED vars
     ELSE Continue(r, "account.delete", [NoArgs EXCEPT !.user = u])

DeleteAccountWrite(r) ==
  /\ pc[r] = "account.delete"
  /\ deletedUsers' = deletedUsers \cup {arg[r].user}
  /\ Finish(r)
  /\ UNCHANGED <<workspace, member, invite>>

(* Any await may throw (connection lost, timeout, restart): the request    *)
(* ends there, its open transaction rolled back.                           *)
Fail(r) == pc[r] # "idle" /\ Answer(r)

-----------------------------------------------------------------------------
Handler(r) ==
  \/ Guard(r)
  \/ DeleteCheckOwner(r) \/ DeleteCount(r) \/ DeleteInvites(r) \/ DeleteCommit(r)
  \/ \E m \in MemberIds, role \in GivenRoles : UpdateRoleCheck(r, m, role)
  \/ UpdateRoleWrite(r)
  \/ \E m \in MemberIds : RemoveCheckTarget(r, m)
  \/ RemoveCheckRecords(r) \/ LeaveFind(r) \/ DeleteMember(r)
  \/ InviteGetWorkspace(r)
  \/ \E email \in Users : InviteFindPending(r, email)
  \/ \E i \in InviteIds, role \in GivenRoles : InviteCreate(r, i, role)
  \/ \E i \in InviteIds : CancelFind(r, i)
  \/ CancelDelete(r)
  \/ validateInvite(r) \/ ExpireWrite(r) \/ RejectWrite(r)
  \/ AcceptCheckMember(r) \/ AcceptUpdate(r) \/ AcceptInsert(r) \/ AcceptFind(r)
  \/ \E m \in MemberIds : AcceptCommit(r, m)
  \/ DeleteAccountWrite(r)
  \/ Fail(r)

Start(r) ==
  \/ \E u \in Users, w \in WorkspaceIds, op \in Routes : Arrive(r, u, w, op)
  \/ \E u \in Users, i \in InviteIds, step \in {"accept", "reject"} :
       OpenInvite(r, u, i, step)
  \/ \E u \in Closers : DeleteAccountCheck(r, u)

Next ==
  \/ \E u \in Users, w \in WorkspaceIds, m \in MemberIds : Create(u, w, m)
  \/ \E i \in InviteIds : Lapse(i)
  \/ \E r \in Requests : Start(r) \/ Handler(r)

Spec == Init /\ [][Next]_vars

-----------------------------------------------------------------------------
(* What holds, whatever the interleaving *)

(* Every workspace keeps the account that created it as a member with the  *)
(* role OWNER: no demotion, removal or leave ever reaches that row, though *)
(* each of them writes after a role it read several awaits earlier.        *)
CreatorIsOwner ==
  \A w \in WorkspaceIds :
    workspace[w].st # "free" =>
      \E m \in MemberIds : /\ IsMemberRow(m, w, workspace[w].owner)
                           /\ member[m].role = "OWNER"

(* An account is a member of a workspace at most once, however many        *)
(* invites to it are accepted at the same time.                            *)
OneMembershipPerUser ==
  \A m, n \in MemberIds :
    /\ member[m].st = "live"
    /\ IsMemberRow(n, member[m].ws, member[m].user)
    => m = n

(* A row that appears in an existing workspace consumes an invite to that  *)
(* account for that workspace, which existed until then and is ACCEPTED in *)
(* the same commit: a cancelled invite, or one deleted with its workspace, *)
(* admits nobody, even when it was validated before.                       *)
JoinStep ==
  \A m \in MemberIds :
    /\ member[m].st = "free"
    /\ member'[m].st = "live"
    /\ workspace[member'[m].ws].st # "free"
    => \E i \in InviteIds :
         /\ InviteExists(i)
         /\ invite'[i].st = "ACCEPTED"
         /\ invite[i].ws = member'[m].ws
         /\ invite[i].email = member'[m].user
         /\ invite[i].role = member'[m].role

JoinConsumesInvite == [][JoinStep]_vars

(* A request that passed the guard of one workspace writes rows of that    *)
(* workspace only, whatever ids its path and its body name.                *)
StaysInWorkspace ==
  [][\A r \in Requests :
       pc[r] \notin {"idle", "guard"} /\ pc'[r] # pc[r] /\ arg[r].ws # Null =>
         /\ \A w \in WorkspaceIds \ {arg[r].ws} : workspace'[w] = workspace[w]
         /\ \A m \in MemberIds :
              member'[m] # member[m]
                => arg[r].ws = IF member[m].st = "free" THEN member'[m].ws
                                                        ELSE member[m].ws
         /\ \A i \in InviteIds :
              invite'[i] # invite[i]
                => arg[r].ws = IF invite[i].st = "free" THEN invite'[i].ws
                                                        ELSE invite[i].ws]_vars

-----------------------------------------------------------------------------
(* What a test and an assertion of the code say, one request at a time,    *)
(* and interleavings break                                                 *)

(* "should throw ConflictException if workspace has other members": a      *)
(* workspace is deleted only while its owner is the one member.            *)
DeletedOnlyWhenAlone ==
  [][\A w \in WorkspaceIds :
       LiveWorkspace(w) /\ workspace'[w].st = "deleted"
         => Cardinality(MembersOf(w)) = 1]_vars

(* `workspace!.id` in acceptInvite: an invite that is being accepted       *)
(* belongs to a workspace that is not deleted, since the deletion of a     *)
(* workspace takes its invites along.                                      *)
AcceptFindsWorkspace ==
  \A r \in Requests : pc[r] = "accept.find" => LiveWorkspace(arg[r].ws)

=============================================================================
