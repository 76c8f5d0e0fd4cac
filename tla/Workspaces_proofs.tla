-------------------------- MODULE Workspaces_proofs --------------------------
(***************************************************************************)
(* For any accounts, workspaces, rows and requests in flight: a workspace  *)
(* keeps its creator as an OWNER, nobody is a member twice, and who joins  *)
(* consumes an invite.  The invariants say nothing of requests, so they    *)
(* are strengthened with what each request may rely on at each await.      *)
(***************************************************************************)
EXTENDS Workspaces, TLAPS

Exists(w) == workspace[w].st # "free"

(* Foreign keys: a row's workspace has been created. *)
ForeignKeys ==
  /\ \A m \in MemberIds : member[m].st = "live" => Exists(member[m].ws)
  /\ \A i \in InviteIds : InviteExists(i) => Exists(invite[i].ws)

IsCreatorRow(m) ==
  member[m].st = "live" /\ member[m].user = workspace[member[m].ws].owner

Inserted == {"accept.find", "accept.commit"}
Accepting == {"accept.member", "accept.tx"} \cup InAcceptTx
OpensInvite == {"accept", "reject", "expire", "reject.write"} \cup Accepting
Guarded == Steps \ ({"idle", "account.delete"} \cup OpensInvite)
MemberWrites == {"updateRole.write", "remove.check", "remove.delete",
                 "leave.delete"}

(* What request r knows where it stands: later steps rely on it, although  *)
(* other requests have run since r learnt it.                              *)
Knows(r) ==
  /\ pc[r] # "idle" => arg[r].user \in Users
  /\ pc[r] \in Guarded \cup Accepting
       => arg[r].ws \in WorkspaceIds /\ Exists(arg[r].ws)
  /\ pc[r] = "guard" => arg[r].op \in Routes
  /\ pc[r] = "leaveWorkspace"
       => arg[r].role = "OWNER" \/ arg[r].user # workspace[arg[r].ws].owner
  /\ pc[r] \in MemberWrites
       => /\ arg[r].mem \in MemberIds
          /\ member[arg[r].mem].st # "free"
          /\ ~IsCreatorRow(arg[r].mem)
  /\ pc[r] = "invite.create" => arg[r].target \in Users
  /\ pc[r] \in OpensInvite \cup {"cancel.delete"}
       => arg[r].inv \in InviteIds /\ invite[arg[r].inv].st # "free"
  /\ pc[r] \in Accepting /\ InviteExists(arg[r].inv)
       => /\ invite[arg[r].inv].ws = arg[r].ws
          /\ invite[arg[r].inv].email = arg[r].user
  /\ pc[r] \in InAcceptTx => InviteExists(arg[r].inv)
  /\ pc[r] \in Inserted => ~HasMember(arg[r].ws, arg[r].user)
  /\ arg[r].doomed # {} => pc[r] = "delete.commit"

(* The locks of two open transactions do not meet. *)
Apart(q, r) ==
  /\ pc[q] \in InAcceptTx => arg[q].inv \notin arg[r].doomed
  /\ pc[q] \in InAcceptTx /\ pc[r] \in InAcceptTx => arg[q].inv # arg[r].inv
  /\ pc[q] \in Inserted /\ pc[r] \in Inserted
       => ~(arg[q].ws = arg[r].ws /\ arg[q].user = arg[r].user)

AllKnow == \A r \in Requests : Knows(r)
AllApart == \A q, r \in Requests : q # r => Apart(q, r)

IInv ==
  /\ TypeOK
  /\ ForeignKeys
  /\ CreatorIsOwner
  /\ OneMembershipPerUser
  /\ AllKnow
  /\ AllApart

-----------------------------------------------------------------------------
(* Initially no row exists and every request is idle. *)
LEMMA InitIInv == Init => IInv
<1> SUFFICES ASSUME Init PROVE IInv
  OBVIOUS
<1>1. TypeOK
  BY DEF Init, TypeOK, NoArgs, Args, Steps, Routes, Roles, WorkspaceRow, FreeMember,
         FreeInvite, FreeWorkspace
<1>2. ForeignKeys /\ CreatorIsOwner /\ OneMembershipPerUser
  BY DEF Init, ForeignKeys, InviteExists, CreatorIsOwner, OneMembershipPerUser,
         FreeMember, FreeInvite, FreeWorkspace
<1>3. AllKnow
  BY DEF Init, AllKnow, Knows, NoArgs, Guarded, OpensInvite, Accepting, InAcceptTx,
         Inserted, MemberWrites
<1>4. AllApart
  BY DEF Init, AllApart, Apart, NoArgs, InAcceptTx, Inserted
<1> QED
  BY <1>1, <1>2, <1>3, <1>4 DEF IInv

(* A step that writes no table keeps the invariant when what r knows at    *)
(* its new place is true, and its locks meet no other's.                   *)
LEMMA ContinueKeeps ==
  ASSUME IInv, NEW r \in Requests, NEW step \in Steps, NEW a \in Args,
         Continue(r, step, a),
         Knows(r)',
         \A q \in Requests \ {r} : Apart(q, r)' /\ Apart(r, q)'
  PROVE  IInv'
<1> USE DEF Continue, Goto, tables
<1>1. /\ pc'[r] = step /\ arg'[r] = a
      /\ \A q \in Requests \ {r} : pc'[q] = pc[q] /\ arg'[q] = arg[q]
  BY DEF IInv, TypeOK
<1>2. TypeOK'
  BY DEF IInv, TypeOK
<1>3. (ForeignKeys /\ CreatorIsOwner /\ OneMembershipPerUser)'
  BY DEF IInv, ForeignKeys, InviteExists, Exists, CreatorIsOwner, IsMemberRow,
         OneMembershipPerUser
<1>4. AllKnow'
  <2> SUFFICES ASSUME NEW q \in Requests, q # r PROVE Knows(q)'
    BY DEF AllKnow
  <2> QED
    BY <1>1 DEF IInv, AllKnow, Knows, Exists, InviteExists, IsCreatorRow, HasMember,
                IsMemberRow
<1>5. AllApart'
  <2> SUFFICES ASSUME NEW q \in Requests, NEW s \in Requests, q # s
               PROVE  Apart(q, s)'
    BY DEF AllApart
  <2>1. CASE q = r \/ s = r
    BY <2>1
  <2>2. CASE q # r /\ s # r
    BY <1>1, <2>2 DEF IInv, AllApart, Apart
  <2> QED BY <2>1, <2>2
<1> QED
  BY <1>2, <1>3, <1>4, <1>5 DEF IInv

LEMMA NoArgsType == NoArgs \in Args /\ "idle" \in Steps
BY DEF NoArgs, Args, Steps, Roles

(* An idle request knows nothing and holds no lock. *)
LEMMA IdleKnows ==
  ASSUME TypeOK, NEW r \in Requests, Finish(r)
  PROVE  /\ pc'[r] = "idle" /\ arg'[r] = NoArgs
         /\ \A q \in Requests \ {r} : pc'[q] = pc[q] /\ arg'[q] = arg[q]
         /\ Knows(r)'
         /\ \A q \in Requests \ {r} : Apart(q, r)' /\ Apart(r, q)'
<1>1. /\ pc'[r] = "idle" /\ arg'[r] = NoArgs
      /\ \A q \in Requests \ {r} : pc'[q] = pc[q] /\ arg'[q] = arg[q]
  BY DEF Finish, Goto, TypeOK
<1>2. Knows(r)'
  BY <1>1 DEF Knows, NoArgs, Guarded, OpensInvite, Accepting, InAcceptTx, Inserted,
              MemberWrites
<1>3. \A q \in Requests \ {r} : Apart(q, r)' /\ Apart(r, q)'
  BY <1>1 DEF Apart, NoArgs, InAcceptTx, Inserted
<1> QED
  BY <1>1, <1>2, <1>3

LEMMA AnswerKeeps ==
  ASSUME IInv, NEW r \in Requests, Answer(r)
  PROVE  IInv'
BY NoArgsType, IdleKnows, ContinueKeeps DEF Answer, Finish, Continue, IInv

(* A step that takes no lock only has to account for what r knows next. *)
LEMMA PlainStepKeeps ==
  ASSUME IInv, NEW r \in Requests, NEW step \in Steps \ InAcceptTx, NEW a \in Args,
         Continue(r, step, a),
         a.doomed = {},
         Knows(r)'
  PROVE  IInv'
<1>1. pc'[r] = step /\ arg'[r] = a
  BY DEF Continue, Goto, IInv, TypeOK
<1>2. \A q \in Requests \ {r} : Apart(q, r)' /\ Apart(r, q)'
  BY <1>1 DEF Apart, Inserted, InAcceptTx
<1> QED
  BY <1>2, ContinueKeeps

-----------------------------------------------------------------------------
(* Steps that only read *)

LEMMA ArriveKeeps ==
  ASSUME IInv, NEW r \in Requests, NEW u \in Users, NEW w \in WorkspaceIds,
         NEW op \in Routes, Arrive(r, u, w, op)
  PROVE  IInv'
<1>1. CASE LiveWorkspace(w)
  <2> DEFINE a == [NoArgs EXCEPT !.op = op, !.user = u, !.ws = w]
  <2>1. Continue(r, "guard", a)
    BY <1>1 DEF Arrive
  <2>2. a \in Args /\ a.doomed = {} /\ "guard" \in Steps \ InAcceptTx
    BY DEF NoArgs, Args, Roles, Steps, InAcceptTx
  <2>3. pc'[r] = "guard" /\ arg'[r] = a /\ workspace' = workspace
    BY <2>1 DEF Continue, Goto, IInv, TypeOK, tables
  <2>4. Knows(r)'
    BY <1>1, <2>3 DEF Knows, NoArgs, Exists, LiveWorkspace, MemberWrites, OpensInvite,
                      Accepting, InAcceptTx, Inserted
  <2> QED
    BY <2>1, <2>2, <2>4, PlainStepKeeps
<1>2. CASE UNCHANGED vars
  BY <1>2 DEF vars, IInv, TypeOK, ForeignKeys, CreatorIsOwner, OneMembershipPerUser,
              AllKnow, AllApart, Knows, Apart, Exists, InviteExists, IsCreatorRow,
              HasMember, IsMemberRow
<1> QED
  BY <1>1, <1>2 DEF Arrive

LEMMA GuardKeeps ==
  ASSUME IInv, NEW r \in Requests, Guard(r)
  PROVE  IInv'
<1>1. CASE Answer(r)
  BY <1>1, AnswerKeeps
<1>2. ASSUME NEW m \in MemberIds, IsMemberRow(m, arg[r].ws, arg[r].user),
             Continue(r, arg[r].op, [arg[r] EXCEPT !.op = Null, !.role = member[m].role])
      PROVE  IInv'
  <2> DEFINE a == [arg[r] EXCEPT !.op = Null, !.role = member[m].role]
  <2>1. pc[r] = "guard" /\ arg[r] \in Args /\ arg[r].op \in Routes /\ Knows(r)
    BY DEF Guard, IInv, TypeOK, AllKnow, Knows
  <2>2. member[m] \in MemberRow
    BY <1>2 DEF IInv, TypeOK, IsMemberRow, FreeMember, GoneMember
  <2>3. a \in Args /\ arg[r].op \in Steps \ InAcceptTx /\ a.doomed = {}
    BY <2>1, <2>2 DEF Args, MemberRow, Steps, Routes, InAcceptTx, Knows
  <2>4. /\ pc'[r] = arg[r].op /\ arg'[r] = a
        /\ workspace' = workspace /\ member' = member /\ invite' = invite
    BY <1>2 DEF Continue, Goto, IInv, TypeOK, tables
  <2>5. arg[r].ws \in WorkspaceIds /\ Exists(arg[r].ws) /\ arg[r].user \in Users
    BY <2>1 DEF Knows, Guarded, Steps, Routes, OpensInvite, Accepting, InAcceptTx
  <2>6. arg[r].user = workspace[arg[r].ws].owner => member[m].role = "OWNER"
    BY <1>2, <2>5 DEF IInv, CreatorIsOwner, OneMembershipPerUser, Exists, IsMemberRow
  <2>7. Knows(r)'
    BY <2>1, <2>3, <2>4, <2>5, <2>6
       DEF Knows, Exists, MemberWrites, OpensInvite, Accepting, InAcceptTx, Inserted,
           Routes, Args
  <2> QED
    BY <1>2, <2>3, <2>7, PlainStepKeeps
<1> QED
  BY <1>1, <1>2 DEF Guard

(* Steps that keep the arguments and go on inside one handler. *)
LEMMA DeleteReadKeeps ==
  ASSUME IInv, NEW r \in Requests, DeleteCheckOwner(r) \/ DeleteCount(r)
  PROVE  IInv'
<1>1. CASE Answer(r)
  BY <1>1, AnswerKeeps
<1>2. ASSUME NEW step \in {"delete.count", "delete.tx"}, Continue(r, step, arg[r]),
             pc[r] \in {"delete", "delete.count"}
      PROVE  IInv'
  <2>1. arg[r] \in Args /\ step \in Steps \ InAcceptTx /\ Knows(r) /\ arg[r].doomed = {}
    BY <1>2 DEF IInv, TypeOK, AllKnow, Knows, Steps, InAcceptTx
  <2>2. pc'[r] = step /\ arg'[r] = arg[r] /\ workspace' = workspace
    BY <1>2 DEF Continue, Goto, IInv, TypeOK, tables
  <2>3. Knows(r)'
    BY <1>2, <2>1, <2>2 DEF Knows, Exists, MemberWrites, OpensInvite, Accepting,
                            InAcceptTx, Inserted, Guarded, Steps, Routes
  <2> QED
    BY <1>2, <2>1, <2>3, PlainStepKeeps
<1> QED
  BY <1>1, <1>2 DEF DeleteCheckOwner, DeleteCount

LEMMA DeleteInvitesKeeps ==
  ASSUME IInv, NEW r \in Requests, DeleteInvites(r)
  PROVE  IInv'
<1> DEFINE doomed == {i \in InviteIds : InviteExists(i) /\ invite[i].ws = arg[r].ws}
           a == [arg[r] EXCEPT !.doomed = doomed]
<1>1. /\ pc[r] = "delete.tx" /\ Continue(r, "delete.commit", a)
      /\ \A i \in doomed : ~LockedByOther(i, r)
  BY DEF DeleteInvites
<1>2. arg[r] \in Args /\ a \in Args /\ "delete.commit" \in Steps /\ Knows(r)
  BY DEF IInv, TypeOK, AllKnow, Args, Steps
<1>3. /\ pc'[r] = "delete.commit" /\ arg'[r] = a /\ arg'[r].doomed = doomed
      /\ workspace' = workspace
      /\ \A q \in Requests \ {r} : pc'[q] = pc[q] /\ arg'[q] = arg[q]
  BY <1>1, <1>2 DEF Continue, Goto, IInv, TypeOK, tables, Args
<1>4. Knows(r)'
  BY <1>1, <1>2, <1>3 DEF Knows, Exists, MemberWrites, OpensInvite, Accepting,
                          InAcceptTx, Inserted, Guarded, Steps, Args
<1>5. \A q \in Requests \ {r} : Apart(q, r)' /\ Apart(r, q)'
  BY <1>1, <1>3 DEF Apart, Inserted, InAcceptTx, LockedByOther
<1> QED
  BY <1>1, <1>2, <1>4, <1>5, ContinueKeeps

LEMMA UpdateRoleCheckKeeps ==
  ASSUME IInv, NEW r \in Requests, NEW m \in MemberIds, NEW role \in GivenRoles,
         UpdateRoleCheck(r, m, role)
  PROVE  IInv'
<1>1. CASE Answer(r)
  BY <1>1, AnswerKeeps
<1> DEFINE a == [arg[r] EXCEPT !.mem = m, !.role = role]
<1>2. CASE /\ member[m].st = "live"
           /\ member[m].ws = arg[r].ws
           /\ member[m].role # "OWNER"
           /\ Continue(r, "updateRole.write", a)
  <2>1. arg[r] \in Args /\ Knows(r) /\ pc[r] = "updateMemberRole"
    BY DEF IInv, TypeOK, AllKnow, UpdateRoleCheck
  <2>2. a \in Args /\ a.doomed = {} /\ a.mem = m /\ "updateRole.write" \in Steps \ InAcceptTx
    BY <2>1, ConstantsAssumption DEF Args, Knows, Steps, InAcceptTx, Roles
  <2>3. /\ pc'[r] = "updateRole.write" /\ arg'[r] = a
        /\ workspace' = workspace /\ member' = member
    BY <1>2 DEF Continue, Goto, IInv, TypeOK, tables
  <2>4. arg[r].ws \in WorkspaceIds /\ Exists(arg[r].ws) /\ arg[r].user \in Users
    BY <2>1 DEF Knows, Guarded, Steps, Routes, OpensInvite, Accepting, InAcceptTx
  <2>5. ~IsCreatorRow(m)
    BY <1>2, <2>4 DEF IsCreatorRow, IInv, CreatorIsOwner, OneMembershipPerUser, Exists,
                      IsMemberRow
  <2>6. Knows(r)'
    BY <1>2, <2>1, <2>2, <2>3, <2>4, <2>5
       DEF Knows, Exists, IsCreatorRow, OpensInvite, Accepting, InAcceptTx, Inserted, Args
  <2> QED
    BY <1>2, <2>2, <2>6, PlainStepKeeps
<1> QED
  BY <1>1, <1>2 DEF UpdateRoleCheck

LEMMA RemoveCheckTargetKeeps ==
  ASSUME IInv, NEW r \in Requests, NEW m \in MemberIds, RemoveCheckTarget(r, m)
  PROVE  IInv'
<1>1. CASE Answer(r)
  BY <1>1, AnswerKeeps
<1> DEFINE a == [arg[r] EXCEPT !.mem = m, !.target = member[m].user]
<1>2. CASE /\ member[m].st = "live"
           /\ member[m].ws = arg[r].ws
           /\ member[m].role # "OWNER"
           /\ Continue(r, "remove.check", a)
  <2>1. arg[r] \in Args /\ Knows(r) /\ pc[r] = "removeMember"
    BY DEF IInv, TypeOK, AllKnow, RemoveCheckTarget
  <2>2. member[m] \in MemberRow
    BY <1>2 DEF IInv, TypeOK, FreeMember, GoneMember
  <2>3. a \in Args /\ a.doomed = {} /\ a.mem = m /\ "remove.check" \in Steps \ InAcceptTx
    BY <2>1, <2>2 DEF Args, Knows, Steps, InAcceptTx, MemberRow
  <2>4. /\ pc'[r] = "remove.check" /\ arg'[r] = a
        /\ workspace' = workspace /\ member' = member
    BY <1>2 DEF Continue, Goto, IInv, TypeOK, tables
  <2>5. arg[r].ws \in WorkspaceIds /\ Exists(arg[r].ws) /\ arg[r].user \in Users
    BY <2>1 DEF Knows, Guarded, Steps, Routes, OpensInvite, Accepting, InAcceptTx
  <2>6. ~IsCreatorRow(m)
    BY <1>2, <2>5 DEF IsCreatorRow, IInv, CreatorIsOwner, OneMembershipPerUser, Exists,
                      IsMemberRow
  <2>7. Knows(r)'
    BY <1>2, <2>1, <2>3, <2>4, <2>5, <2>6
       DEF Knows, Exists, IsCreatorRow, OpensInvite, Accepting, InAcceptTx, Inserted, Args
  <2> QED
    BY <1>2, <2>3, <2>7, PlainStepKeeps
<1> QED
  BY <1>1, <1>2 DEF RemoveCheckTarget

LEMMA RemoveCheckRecordsKeeps ==
  ASSUME IInv, NEW r \in Requests, RemoveCheckRecords(r)
  PROVE  IInv'
<1>1. CASE Answer(r)
  BY <1>1, AnswerKeeps
<1>2. CASE Continue(r, "remove.delete", arg[r])
  <2>1. arg[r] \in Args /\ Knows(r) /\ arg[r].doomed = {} /\ pc[r] = "remove.check"
    BY DEF IInv, TypeOK, AllKnow, Knows, RemoveCheckRecords
  <2>2. /\ pc'[r] = "remove.delete" /\ arg'[r] = arg[r]
        /\ workspace' = workspace /\ member' = member
    BY <1>2 DEF Continue, Goto, IInv, TypeOK, tables
  <2>3. Knows(r)'
    BY <2>1, <2>2 DEF Knows, Exists, IsCreatorRow, OpensInvite, Accepting, InAcceptTx,
                      Inserted, MemberWrites, Guarded, Steps
  <2> QED
    BY <1>2, <2>1, <2>3, PlainStepKeeps DEF Steps, InAcceptTx
<1> QED
  BY <1>1, <1>2 DEF RemoveCheckRecords

LEMMA LeaveFindKeeps ==
  ASSUME IInv, NEW r \in Requests, LeaveFind(r)
  PROVE  IInv'
<1>1. CASE Answer(r)
  BY <1>1, AnswerKeeps
<1>2. ASSUME NEW m \in MemberIds, IsMemberRow(m, arg[r].ws, arg[r].user),
             arg[r].role # "OWNER",
             Continue(r, "leave.delete", [arg[r] EXCEPT !.mem = m])
      PROVE  IInv'
  <2> DEFINE a == [arg[r] EXCEPT !.mem = m]
  <2>1. arg[r] \in Args /\ Knows(r) /\ pc[r] = "leaveWorkspace"
    BY DEF IInv, TypeOK, AllKnow, LeaveFind
  <2>2. a \in Args /\ a.doomed = {} /\ a.mem = m /\ "leave.delete" \in Steps \ InAcceptTx
    BY <2>1 DEF Args, Knows, Steps, InAcceptTx
  <2>3. /\ pc'[r] = "leave.delete" /\ arg'[r] = a
        /\ workspace' = workspace /\ member' = member
    BY <1>2 DEF Continue, Goto, IInv, TypeOK, tables
  <2>4. arg[r].ws \in WorkspaceIds /\ Exists(arg[r].ws) /\ arg[r].user \in Users
    BY <2>1 DEF Knows, Guarded, Steps, Routes, OpensInvite, Accepting, InAcceptTx
  <2>5. ~IsCreatorRow(m)
    BY <1>2, <2>1 DEF IsCreatorRow, IsMemberRow, Knows
  <2>6. Knows(r)'
    BY <1>2, <2>1, <2>2, <2>3, <2>4, <2>5
       DEF Knows, Exists, IsCreatorRow, IsMemberRow, OpensInvite, Accepting, InAcceptTx,
           Inserted, Args
  <2> QED
    BY <1>2, <2>2, <2>6, PlainStepKeeps
<1> QED
  BY <1>1, <1>2 DEF LeaveFind

LEMMA InviteReadKeeps ==
  ASSUME IInv, NEW r \in Requests, NEW email \in Users,
         InviteGetWorkspace(r) \/ InviteFindPending(r, email)
  PROVE  IInv'
<1>1. CASE Answer(r)
  BY <1>1, AnswerKeeps
<1>2. ASSUME NEW step \in {"invite.pending", "invite.create"}, NEW target,
             step = "invite.create" => target \in Users,
             target \in Users \cup {Null},
             pc[r] \in {"createInvite", "invite.pending"},
             Continue(r, step, [arg[r] EXCEPT !.target = target])
      PROVE  IInv'
  <2> DEFINE a == [arg[r] EXCEPT !.target = target]
  <2>1. arg[r] \in Args /\ Knows(r)
    BY DEF IInv, TypeOK, AllKnow
  <2>2. a \in Args /\ a.doomed = {} /\ a.target = target /\ step \in Steps \ InAcceptTx
    BY <1>2, <2>1 DEF Args, Knows, Steps, InAcceptTx
  <2>3. pc'[r] = step /\ arg'[r] = a /\ workspace' = workspace
    BY <1>2 DEF Continue, Goto, IInv, TypeOK, tables
  <2>4. Knows(r)'
    BY <1>2, <2>1, <2>2, <2>3
       DEF Knows, Exists, MemberWrites, Guarded, Steps, Routes, OpensInvite, Accepting,
           InAcceptTx, Inserted, Args
  <2> QED
    BY <1>2, <2>2, <2>4, PlainStepKeeps
<1>3. CASE /\ pc[r] = "createInvite"
           /\ Continue(r, "invite.pending", arg[r])
  <2>1. /\ arg[r] = [arg[r] EXCEPT !.target = arg[r].target]
        /\ arg[r].target \in Users \cup {Null}
    BY DEF IInv, TypeOK, Args
  <2> QED
    BY <1>2, <1>3, <2>1
<1> QED
  BY <1>1, <1>2, <1>3 DEF InviteGetWorkspace, InviteFindPending

LEMMA CancelFindKeeps ==
  ASSUME IInv, NEW r \in Requests, NEW i \in InviteIds, CancelFind(r, i)
  PROVE  IInv'
<1>1. CASE Answer(r)
  BY <1>1, AnswerKeeps
<1> DEFINE a == [arg[r] EXCEPT !.inv = i]
<1>2. CASE PendingInvite(i, arg[r].ws) /\ Continue(r, "cancel.delete", a)
  <2>1. arg[r] \in Args /\ Knows(r) /\ pc[r] = "cancelInvite"
    BY DEF IInv, TypeOK, AllKnow, CancelFind
  <2>2. a \in Args /\ a.doomed = {} /\ a.inv = i /\ "cancel.delete" \in Steps \ InAcceptTx
    BY <2>1 DEF Args, Knows, Steps, InAcceptTx
  <2>3. /\ pc'[r] = "cancel.delete" /\ arg'[r] = a
        /\ workspace' = workspace /\ invite' = invite
    BY <1>2 DEF Continue, Goto, IInv, TypeOK, tables
  <2>4. Knows(r)'
    BY <1>2, <2>1, <2>2, <2>3
       DEF Knows, Exists, MemberWrites, Guarded, Steps, Routes, OpensInvite, Accepting,
           InAcceptTx, Inserted, Args, PendingInvite
  <2> QED
    BY <1>2, <2>2, <2>4, PlainStepKeeps
<1> QED
  BY <1>1, <1>2 DEF CancelFind

LEMMA OpenInviteKeeps ==
  ASSUME IInv, NEW r \in Requests, NEW u \in Users, NEW i \in InviteIds,
         NEW step \in {"accept", "reject"}, OpenInvite(r, u, i, step)
  PROVE  IInv'
<1> DEFINE a == [NoArgs EXCEPT !.user = u, !.inv = i]
<1>1. a \in Args /\ a.doomed = {} /\ a.user = u /\ a.inv = i /\ step \in Steps \ InAcceptTx
  BY DEF NoArgs, Args, Roles, Steps, InAcceptTx
<1>2. Continue(r, step, a) /\ invite[i].st # "free"
  BY DEF OpenInvite
<1>3. pc'[r] = step /\ arg'[r] = a /\ invite' = invite
  BY <1>2 DEF Continue, Goto, IInv, TypeOK, tables
<1>4. Knows(r)'
  BY <1>1, <1>2, <1>3 DEF Knows, MemberWrites, Guarded, Steps, Routes, OpensInvite,
                          Accepting, InAcceptTx, Inserted
<1> QED
  BY <1>1, <1>2, <1>4, PlainStepKeeps

LEMMA validateInviteKeeps ==
  ASSUME IInv, NEW r \in Requests, validateInvite(r)
  PROVE  IInv'
<1> DEFINE i == arg[r].inv
<1>1. /\ pc[r] \in {"accept", "reject"} /\ arg[r] \in Args /\ Knows(r)
      /\ arg[r].doomed = {} /\ i \in InviteIds
  BY DEF IInv, TypeOK, AllKnow, Knows, validateInvite, OpensInvite
<1>2. CASE Answer(r)
  BY <1>2, AnswerKeeps
<1>3. CASE Continue(r, "expire", arg[r])
  <2>1. pc'[r] = "expire" /\ arg'[r] = arg[r] /\ invite' = invite
    BY <1>3 DEF Continue, Goto, IInv, TypeOK, tables
  <2>2. Knows(r)'
    BY <1>1, <2>1 DEF Knows, MemberWrites, Guarded, Steps, Routes, OpensInvite,
                      Accepting, InAcceptTx, Inserted
  <2> QED
    BY <1>1, <1>3, <2>2, PlainStepKeeps DEF Steps, InAcceptTx
<1>4. ASSUME invite[i].st \in {"PENDING", "EXPIRED"}, invite[i].email = arg[r].user,
             NEW step \in {"accept.member", "reject.write"},
             Continue(r, step, [arg[r] EXCEPT !.ws = invite[i].ws])
      PROVE  IInv'
  <2> DEFINE a == [arg[r] EXCEPT !.ws = invite[i].ws]
  <2>1. invite[i] \in InviteRow /\ Exists(invite[i].ws)
    BY <1>1, <1>4 DEF IInv, TypeOK, ForeignKeys, InviteExists, FreeInvite, GoneInvite
  <2>2. a \in Args /\ a.doomed = {} /\ a.ws = invite[i].ws /\ step \in Steps \ InAcceptTx
    BY <1>1, <2>1 DEF Args, InviteRow, Steps, InAcceptTx
  <2>3. pc'[r] = step /\ arg'[r] = a /\ invite' = invite /\ workspace' = workspace
    BY <1>4 DEF Continue, Goto, IInv, TypeOK, tables
  <2>4. Knows(r)'
    BY <1>1, <1>4, <2>1, <2>2, <2>3
       DEF Knows, MemberWrites, Guarded, Steps, Routes, OpensInvite, Accepting,
           InAcceptTx, Inserted, InviteRow, Exists, InviteExists, Args
  <2> QED
    BY <1>4, <2>2, <2>4, PlainStepKeeps
<1> QED
  BY <1>2, <1>3, <1>4 DEF validateInvite

(* The four reads and waits of acceptInvite keep the arguments: what each  *)
(* of them adds is a fact about the tables or about the other requests.    *)
LEMMA AcceptStepKeeps ==
  ASSUME IInv, NEW r \in Requests,
         NEW step \in {"accept.tx", "accept.insert", "accept.find", "accept.commit"},
         pc[r] \in {"accept.member", "accept.tx", "accept.insert", "accept.find"},
         Continue(r, step, arg[r]),
         step \in InAcceptTx => InviteExists(arg[r].inv),
         step \in Inserted => ~HasMember(arg[r].ws, arg[r].user),
         step \in InAcceptTx =>
           pc[r] \in InAcceptTx \/ ~LockedByOther(arg[r].inv, r),
         step \in Inserted =>
           pc[r] \in Inserted \/ ~InsertedByOther(arg[r].ws, arg[r].user, r)
  PROVE  IInv'
<1>1. arg[r] \in Args /\ Knows(r) /\ arg[r].doomed = {} /\ step \in Steps
  BY DEF IInv, TypeOK, AllKnow, Knows, Steps, InAcceptTx
<1>2. /\ pc'[r] = step /\ arg'[r] = arg[r]
      /\ \A q \in Requests \ {r} : pc'[q] = pc[q] /\ arg'[q] = arg[q]
      /\ workspace' = workspace /\ member' = member /\ invite' = invite
  BY DEF Continue, Goto, IInv, TypeOK, tables
<1>3. Knows(r)'
  BY <1>1, <1>2 DEF Knows, MemberWrites, Guarded, Steps, Routes, OpensInvite, Accepting,
                    InAcceptTx, Inserted, Exists, InviteExists, HasMember, IsMemberRow
<1>4. ASSUME NEW q \in Requests \ {r} PROVE Apart(q, r)' /\ Apart(r, q)'
  <2>1. Apart(q, r) /\ Apart(r, q)
    BY DEF IInv, AllApart
  <2>2. step \in InAcceptTx =>
          /\ arg[r].inv \notin arg[q].doomed
          /\ pc[q] \in InAcceptTx => arg[q].inv # arg[r].inv
    BY <2>1 DEF Apart, LockedByOther
  <2>3. step \in Inserted /\ pc[q] \in Inserted
          => ~(arg[q].ws = arg[r].ws /\ arg[q].user = arg[r].user)
    BY <2>1 DEF Apart, InsertedByOther, Inserted
  <2>4. pc[q] \in InAcceptTx => arg[q].inv \notin arg[r].doomed
    BY <1>1
  <2> QED
    BY <1>2, <2>2, <2>3, <2>4 DEF Apart
<1> QED
  BY <1>1, <1>3, <1>4, ContinueKeeps

LEMMA AcceptReadKeeps ==
  ASSUME IInv, NEW r \in Requests,
         \/ AcceptCheckMember(r) \/ AcceptUpdate(r) \/ AcceptInsert(r) \/ AcceptFind(r)
  PROVE  IInv'
<1> USE DEF InAcceptTx, Inserted
<1>1. Knows(r)
  BY DEF IInv, AllKnow
<1>2. CASE Answer(r)
  BY <1>2, AnswerKeeps
<1>3. CASE AcceptCheckMember(r) /\ ~Answer(r)
  BY <1>3, AcceptStepKeeps DEF AcceptCheckMember
<1>4. CASE AcceptUpdate(r) /\ ~Answer(r)
  BY <1>4, AcceptStepKeeps DEF AcceptUpdate
<1>5. CASE AcceptInsert(r) /\ ~Answer(r)
  BY <1>1, <1>5, AcceptStepKeeps DEF AcceptInsert, Knows
<1>6. CASE AcceptFind(r) /\ ~Answer(r)
  BY <1>1, <1>6, AcceptStepKeeps DEF AcceptFind, Knows
<1> QED
  BY <1>2, <1>3, <1>4, <1>5, <1>6

LEMMA UnchangedKeeps ==
  ASSUME IInv, UNCHANGED vars
  PROVE  IInv'
BY DEF vars, IInv, TypeOK, ForeignKeys, CreatorIsOwner, OneMembershipPerUser, AllKnow,
       AllApart, Knows, Apart, Exists, InviteExists, IsCreatorRow, HasMember, IsMemberRow

LEMMA DeleteAccountCheckKeeps ==
  ASSUME IInv, NEW r \in Requests, NEW u \in Closers, DeleteAccountCheck(r, u)
  PROVE  IInv'
<1> DEFINE a == [NoArgs EXCEPT !.user = u]
<1>1. CASE UNCHANGED vars
  BY <1>1, UnchangedKeeps
<1>2. CASE Continue(r, "account.delete", a)
  <2>1. /\ a \in Args /\ a.doomed = {} /\ a.user \in Users
        /\ "account.delete" \in Steps \ InAcceptTx
    BY ConstantsAssumption DEF NoArgs, Args, Roles, Steps, InAcceptTx
  <2>2. pc'[r] = "account.delete" /\ arg'[r] = a
    BY <1>2 DEF Continue, Goto, IInv, TypeOK
  <2>3. Knows(r)'
    BY <2>1, <2>2 DEF Knows, MemberWrites, Guarded, Steps, Routes, OpensInvite,
                      Accepting, InAcceptTx, Inserted
  <2> QED
    BY <1>2, <2>1, <2>3, PlainStepKeeps
<1> QED
  BY <1>1, <1>2 DEF DeleteAccountCheck

-----------------------------------------------------------------------------
(* Steps that write a table *)

(* The last write of a request: the others keep their places.  What is     *)
(* left to show is what the new tables mean.                               *)
LEMMA FinishKeeps ==
  ASSUME IInv, NEW r \in Requests, Finish(r), pc[r] # "idle",
         workspace' \in [WorkspaceIds -> WorkspaceRow \cup {FreeWorkspace}],
         member' \in [MemberIds -> MemberRow \cup {FreeMember, GoneMember}],
         invite' \in [InviteIds -> InviteRow \cup {FreeInvite, GoneInvite}],
         deletedUsers' \subseteq Users,
         ForeignKeys', CreatorIsOwner', OneMembershipPerUser',
         \A q \in Requests \ {r} : Knows(q)'
  PROVE  IInv'
<1>1. TypeOK'
  BY NoArgsType DEF Finish, Goto, IInv, TypeOK
<1>2. /\ Knows(r)'
      /\ \A q \in Requests \ {r} : Apart(q, r)' /\ Apart(r, q)'
      /\ \A q \in Requests \ {r} : pc'[q] = pc[q] /\ arg'[q] = arg[q]
  BY IdleKnows DEF IInv
<1>3. AllKnow'
  BY <1>2 DEF AllKnow
<1>4. AllApart'
  <2> SUFFICES ASSUME NEW q \in Requests, NEW s \in Requests, q # s
               PROVE  Apart(q, s)'
    BY DEF AllApart
  <2>1. CASE q = r \/ s = r
    BY <1>2, <2>1
  <2>2. CASE q # r /\ s # r
    BY <1>2, <2>2 DEF IInv, AllApart, Apart
  <2> QED BY <2>1, <2>2
<1> QED
  BY <1>1, <1>3, <1>4 DEF IInv

LEMMA DeleteAccountWriteKeeps ==
  ASSUME IInv, NEW r \in Requests, DeleteAccountWrite(r)
  PROVE  IInv'
<1>1. /\ Finish(r) /\ pc[r] # "idle" /\ arg[r].user \in Users
      /\ deletedUsers' = deletedUsers \cup {arg[r].user}
      /\ workspace' = workspace /\ member' = member /\ invite' = invite
  BY DEF DeleteAccountWrite, IInv, AllKnow, Knows
<1>2. \A q \in Requests \ {r} : pc'[q] = pc[q] /\ arg'[q] = arg[q]
  BY <1>1, IdleKnows DEF IInv
<1>3. \A q \in Requests \ {r} : Knows(q)'
  BY <1>1, <1>2 DEF IInv, AllKnow, Knows, Exists, InviteExists, IsCreatorRow, HasMember,
                    IsMemberRow
<1>4. (ForeignKeys /\ CreatorIsOwner /\ OneMembershipPerUser)'
  BY <1>1 DEF IInv, ForeignKeys, InviteExists, Exists, CreatorIsOwner, IsMemberRow,
              OneMembershipPerUser
<1> QED
  BY <1>1, <1>3, <1>4, FinishKeeps DEF IInv, TypeOK

LEMMA UpdateRoleWriteKeeps ==
  ASSUME IInv, NEW r \in Requests, UpdateRoleWrite(r)
  PROVE  IInv'
<1> DEFINE m == arg[r].mem
<1>1. CASE Answer(r)
  BY <1>1, AnswerKeeps
<1>2. CASE /\ member[m].st = "live"
           /\ member' = [member EXCEPT ![m].role = arg[r].role]
           /\ Finish(r)
           /\ UNCHANGED <<workspace, invite, deletedUsers>>
  <2>1. /\ pc[r] = "updateRole.write" /\ m \in MemberIds /\ ~IsCreatorRow(m)
        /\ arg[r].role \in Roles
    BY DEF UpdateRoleWrite, IInv, TypeOK, AllKnow, Knows, MemberWrites, Args
  <2>2. member[m] \in MemberRow
    BY <1>2, <2>1 DEF IInv, TypeOK, FreeMember, GoneMember
  <2>3. /\ member' \in [MemberIds -> MemberRow \cup {FreeMember, GoneMember}]
        /\ \A n \in MemberIds : /\ member'[n].st = member[n].st
                                /\ member'[n].ws = member[n].ws
                                /\ member'[n].user = member[n].user
                                /\ n # m => member'[n].role = member[n].role
    BY <1>2, <2>1, <2>2 DEF IInv, TypeOK, MemberRow
  <2>4. (ForeignKeys /\ OneMembershipPerUser)'
    BY <1>2, <2>3 DEF IInv, ForeignKeys, InviteExists, Exists, IsMemberRow,
                      OneMembershipPerUser
  <2>5. CreatorIsOwner'
    <3> SUFFICES ASSUME NEW w \in WorkspaceIds, workspace[w].st # "free"
                 PROVE  \E n \in MemberIds : /\ IsMemberRow(n, w, workspace[w].owner)'
                                             /\ member'[n].role = "OWNER"
      BY <1>2 DEF CreatorIsOwner, IsMemberRow
    <3>1. PICK n \in MemberIds : /\ IsMemberRow(n, w, workspace[w].owner)
                                 /\ member[n].role = "OWNER"
      BY DEF IInv, CreatorIsOwner
    <3>2. n # m
      BY <2>1, <3>1 DEF IsCreatorRow, IsMemberRow
    <3> QED
      BY <1>2, <2>3, <3>1, <3>2 DEF IsMemberRow
  <2>6. \A q \in Requests \ {r} : Knows(q)'
    <3> SUFFICES ASSUME NEW q \in Requests \ {r} PROVE Knows(q)'
      OBVIOUS
    <3>1. pc'[q] = pc[q] /\ arg'[q] = arg[q] /\ Knows(q)
      BY <1>2, IdleKnows DEF IInv, AllKnow
    <3> QED
      BY <1>2, <2>3, <3>1 DEF Knows, Exists, InviteExists, IsCreatorRow, HasMember,
                              IsMemberRow
  <2> QED
    BY <1>2, <2>1, <2>3, <2>4, <2>5, <2>6, FinishKeeps DEF IInv, TypeOK
<1> QED
  BY <1>1, <1>2 DEF UpdateRoleWrite

LEMMA DeleteMemberKeeps ==
  ASSUME IInv, NEW r \in Requests, DeleteMember(r)
  PROVE  IInv'
<1> DEFINE m == arg[r].mem
<1>1. CASE Answer(r)
  BY <1>1, AnswerKeeps
<1>2. CASE /\ member[m].st = "live"
           /\ member' = [member EXCEPT ![m] = GoneMember]
           /\ Finish(r)
           /\ UNCHANGED <<workspace, invite, deletedUsers>>
  <2>1. pc[r] # "idle" /\ m \in MemberIds /\ ~IsCreatorRow(m)
    BY DEF DeleteMember, IInv, AllKnow, Knows, MemberWrites
  <2>2. /\ member' \in [MemberIds -> MemberRow \cup {FreeMember, GoneMember}]
        /\ member'[m].st = "gone"
        /\ \A n \in MemberIds \ {m} : member'[n] = member[n]
    BY <1>2, <2>1 DEF IInv, TypeOK, GoneMember, FreeMember
  <2>3. (ForeignKeys /\ OneMembershipPerUser)'
    BY <1>2, <2>1, <2>2 DEF IInv, ForeignKeys, InviteExists, Exists, IsMemberRow,
                      OneMembershipPerUser
  <2>4. CreatorIsOwner'
    <3> SUFFICES ASSUME NEW w \in WorkspaceIds, workspace[w].st # "free"
                 PROVE  \E n \in MemberIds : /\ IsMemberRow(n, w, workspace[w].owner)'
                                             /\ member'[n].role = "OWNER"
      BY <1>2 DEF CreatorIsOwner, IsMemberRow
    <3>1. PICK n \in MemberIds : /\ IsMemberRow(n, w, workspace[w].owner)
                                 /\ member[n].role = "OWNER"
      BY DEF IInv, CreatorIsOwner
    <3>2. n # m
      BY <2>1, <3>1 DEF IsCreatorRow, IsMemberRow
    <3> QED
      BY <1>2, <2>2, <3>1, <3>2 DEF IsMemberRow
  <2>5. \A q \in Requests \ {r} : Knows(q)'
    <3> SUFFICES ASSUME NEW q \in Requests \ {r} PROVE Knows(q)'
      OBVIOUS
    <3>1. pc'[q] = pc[q] /\ arg'[q] = arg[q] /\ Knows(q)
      BY <1>2, IdleKnows DEF IInv, AllKnow
    <3> QED
      BY <1>2, <2>1, <2>2, <3>1 DEF Knows, Exists, InviteExists, IsCreatorRow, HasMember,
                              IsMemberRow
  <2> QED
    BY <1>2, <2>1, <2>2, <2>3, <2>4, <2>5, FinishKeeps DEF IInv, TypeOK
<1> QED
  BY <1>1, <1>2 DEF DeleteMember

LEMMA InviteCreateKeeps ==
  ASSUME IInv, NEW r \in Requests, NEW i \in InviteIds, NEW role \in GivenRoles,
         InviteCreate(r, i, role)
  PROVE  IInv'
<1> DEFINE row == [st |-> "PENDING", ws |-> arg[r].ws, email |-> arg[r].target,
                   role |-> role, lapsed |-> FALSE]
<1>1. /\ pc[r] = "invite.create" /\ invite[i].st = "free"
      /\ invite' = [invite EXCEPT ![i] = row] /\ Finish(r)
      /\ workspace' = workspace /\ member' = member /\ deletedUsers' = deletedUsers
  BY DEF InviteCreate
<1>2. arg[r].ws \in WorkspaceIds /\ Exists(arg[r].ws) /\ arg[r].target \in Users
  BY <1>1 DEF IInv, AllKnow, Knows, Guarded, Steps, OpensInvite, Accepting, InAcceptTx
<1>3. row \in InviteRow /\ row.ws = arg[r].ws
  BY <1>2, ConstantsAssumption DEF InviteRow, Roles, InviteStatus
<1>4. /\ invite' \in [InviteIds -> InviteRow \cup {FreeInvite, GoneInvite}]
      /\ invite'[i] = row
      /\ \A j \in InviteIds \ {i} : invite'[j] = invite[j]
  BY <1>1, <1>3 DEF IInv, TypeOK
<1>5. (ForeignKeys /\ CreatorIsOwner /\ OneMembershipPerUser)'
  BY <1>1, <1>2, <1>3, <1>4 DEF IInv, ForeignKeys, InviteExists, Exists, CreatorIsOwner,
                                IsMemberRow, OneMembershipPerUser
<1>6. \A q \in Requests \ {r} : Knows(q)'
  <2> SUFFICES ASSUME NEW q \in Requests \ {r} PROVE Knows(q)'
    OBVIOUS
  <2>1. pc'[q] = pc[q] /\ arg'[q] = arg[q] /\ Knows(q)
    BY <1>1, IdleKnows DEF IInv, AllKnow
  <2>2. pc[q] \in OpensInvite \cup {"cancel.delete"} => arg[q].inv # i
    BY <1>1, <2>1 DEF Knows
  <2> QED
    BY <1>1, <1>4, <2>1, <2>2
       DEF Knows, Exists, InviteExists, IsCreatorRow, HasMember, IsMemberRow,
           OpensInvite, Accepting, InAcceptTx
<1> QED
  BY <1>1, <1>4, <1>5, <1>6, FinishKeeps DEF IInv, TypeOK

(* Cancelling, expiring and rejecting wait for the row's lock, so they     *)
(* never touch an invite that an open transaction is accepting.            *)
LEMMA WriteInviteKeeps ==
  ASSUME IInv, NEW r \in Requests, CancelDelete(r) \/ ExpireWrite(r) \/ RejectWrite(r)
  PROVE  IInv'
<1> DEFINE i == arg[r].inv
<1>1. CASE Answer(r)
  BY <1>1, AnswerKeeps
<1>2. pc[r] \in {"cancel.delete", "expire", "reject.write"} /\ i \in InviteIds
  BY DEF CancelDelete, ExpireWrite, RejectWrite, IInv, AllKnow, Knows, OpensInvite
<1>3. ASSUME NEW row, ~LockedByOther(i, r), InviteExists(i),
             row = GoneInvite \/ \E st \in {"EXPIRED", "REJECTED"} : row = WithStatus(i, st),
             invite' = [invite EXCEPT ![i] = row], Finish(r),
             UNCHANGED <<workspace, member, deletedUsers>>
      PROVE  IInv'
  <2>1. invite[i] \in InviteRow
    BY <1>2, <1>3 DEF IInv, TypeOK, InviteExists, FreeInvite, GoneInvite
  <2>2. /\ row \in InviteRow \cup {GoneInvite}
        /\ row.st # "free"
        /\ row.st = "gone" \/ (row.ws = invite[i].ws /\ row.email = invite[i].email)
    BY <1>3, <2>1 DEF WithStatus, InviteRow, InviteStatus, GoneInvite, FreeInvite
  <2>3. /\ invite' \in [InviteIds -> InviteRow \cup {FreeInvite, GoneInvite}]
        /\ invite'[i] = row
        /\ \A j \in InviteIds \ {i} : invite'[j] = invite[j]
    BY <1>2, <1>3, <2>2 DEF IInv, TypeOK
  <2>4. (ForeignKeys /\ CreatorIsOwner /\ OneMembershipPerUser)'
    BY <1>2, <1>3, <2>2, <2>3
       DEF IInv, ForeignKeys, InviteExists, Exists, CreatorIsOwner, IsMemberRow,
           OneMembershipPerUser
  <2>5. \A q \in Requests \ {r} : Knows(q)'
    <3> SUFFICES ASSUME NEW q \in Requests \ {r} PROVE Knows(q)'
      OBVIOUS
    <3>1. pc'[q] = pc[q] /\ arg'[q] = arg[q] /\ Knows(q)
      BY <1>3, IdleKnows DEF IInv, AllKnow
    <3>2. pc[q] \in InAcceptTx => arg[q].inv # i
      BY <1>3 DEF LockedByOther
    <3> QED
      BY <1>3, <2>2, <2>3, <3>1, <3>2
         DEF Knows, Exists, InviteExists, IsCreatorRow, HasMember, IsMemberRow,
             OpensInvite, Accepting
  <2> QED
    BY <1>2, <1>3, <2>3, <2>4, <2>5, FinishKeeps DEF IInv, TypeOK
<1> QED
  BY <1>1, <1>3 DEF CancelDelete, ExpireWrite, RejectWrite, WriteInvite

LEMMA DeleteCommitKeeps ==
  ASSUME IInv, NEW r \in Requests, DeleteCommit(r)
  PROVE  IInv'
<1> DEFINE w == arg[r].ws
<1>1. /\ pc[r] = "delete.commit" /\ Finish(r)
      /\ invite' = [i \in InviteIds |-> IF i \in arg[r].doomed THEN GoneInvite
                                                               ELSE invite[i]]
      /\ workspace' = [workspace EXCEPT ![w].st = "deleted"]
      /\ member' = member /\ deletedUsers' = deletedUsers
  BY DEF DeleteCommit
<1>2. w \in WorkspaceIds /\ Exists(w)
  BY <1>1 DEF IInv, AllKnow, Knows, Guarded, Steps, OpensInvite, Accepting, InAcceptTx
<1>3. /\ workspace' \in [WorkspaceIds -> WorkspaceRow \cup {FreeWorkspace}]
      /\ \A v \in WorkspaceIds : /\ workspace'[v].owner = workspace[v].owner
                                 /\ Exists(v)' <=> Exists(v)
  BY <1>1, <1>2 DEF IInv, TypeOK, WorkspaceRow, FreeWorkspace, Exists
<1>4. /\ invite' \in [InviteIds -> InviteRow \cup {FreeInvite, GoneInvite}]
      /\ \A i \in InviteIds :
           invite'[i] = IF i \in arg[r].doomed THEN GoneInvite ELSE invite[i]
      /\ GoneInvite.st = "gone"
  BY <1>1 DEF IInv, TypeOK, GoneInvite, FreeInvite
<1>5. ForeignKeys'
  <2>1. \A m \in MemberIds : member[m].st = "live" => member[m].ws \in WorkspaceIds
    BY DEF IInv, TypeOK, MemberRow, FreeMember, GoneMember
  <2>2. \A i \in InviteIds : InviteExists(i) => invite[i].ws \in WorkspaceIds
    BY DEF IInv, TypeOK, InviteRow, FreeInvite, GoneInvite, InviteExists
  <2> QED
    BY <1>1, <1>3, <1>4, <2>1, <2>2 DEF IInv, ForeignKeys, InviteExists
<1>6. (CreatorIsOwner /\ OneMembershipPerUser)'
  BY <1>1, <1>3 DEF IInv, CreatorIsOwner, OneMembershipPerUser, IsMemberRow, Exists
<1>7. \A q \in Requests \ {r} : Knows(q)'
  <2> SUFFICES ASSUME NEW q \in Requests \ {r} PROVE Knows(q)'
    OBVIOUS
  <2>1. pc'[q] = pc[q] /\ arg'[q] = arg[q] /\ Knows(q)
    BY <1>1, IdleKnows DEF IInv, AllKnow
  <2>2. pc[q] \in InAcceptTx => arg[q].inv \notin arg[r].doomed
    BY DEF IInv, AllApart, Apart
  <2>3. pc[q] = "leaveWorkspace" => arg[q].ws \in WorkspaceIds
    BY <2>1 DEF Knows, Guarded, Steps, Routes, OpensInvite, Accepting, InAcceptTx
  <2>4. pc[q] \in MemberWrites /\ member[arg[q].mem].st = "live"
          => member[arg[q].mem].ws \in WorkspaceIds
    BY <2>1 DEF Knows, IInv, TypeOK, MemberRow, FreeMember, GoneMember
  <2>5. ASSUME pc[q] \in OpensInvite \cup {"cancel.delete"}
        PROVE  /\ arg[q].inv \in InviteIds
               /\ invite'[arg[q].inv].st # "free"
               /\ InviteExists(arg[q].inv)' => invite'[arg[q].inv] = invite[arg[q].inv]
               /\ arg[q].inv \notin arg[r].doomed
                    => invite'[arg[q].inv] = invite[arg[q].inv]
    BY <1>4, <2>1, <2>5 DEF Knows, InviteExists
  <2> QED
    BY <1>1, <1>3, <2>1, <2>2, <2>3, <2>4, <2>5
       DEF Knows, InviteExists, IsCreatorRow, HasMember, IsMemberRow, OpensInvite,
           Accepting
<1> QED
  BY <1>1, <1>3, <1>4, <1>5, <1>6, <1>7, FinishKeeps DEF IInv, TypeOK

LEMMA AcceptCommitKeeps ==
  ASSUME IInv, NEW r \in Requests, NEW m \in MemberIds, AcceptCommit(r, m)
  PROVE  IInv'
<1> DEFINE i == arg[r].inv
           row == [st |-> "live", ws |-> arg[r].ws, user |-> arg[r].user,
                   role |-> invite[i].role]
<1>1. /\ pc[r] = "accept.commit" /\ member[m].st = "free" /\ Finish(r)
      /\ member' = [member EXCEPT ![m] = row]
      /\ invite' = [invite EXCEPT ![i].st = "ACCEPTED"]
      /\ workspace' = workspace /\ deletedUsers' = deletedUsers
  BY DEF AcceptCommit
<1>2. /\ arg[r].ws \in WorkspaceIds /\ Exists(arg[r].ws) /\ arg[r].user \in Users
      /\ i \in InviteIds /\ InviteExists(i)
      /\ ~HasMember(arg[r].ws, arg[r].user)
  BY <1>1 DEF IInv, AllKnow, Knows, OpensInvite, Accepting, InAcceptTx, Inserted
<1>3. invite[i] \in InviteRow
  BY <1>2 DEF IInv, TypeOK, InviteExists, FreeInvite, GoneInvite
<1>4. /\ invite' \in [InviteIds -> InviteRow \cup {FreeInvite, GoneInvite}]
      /\ \A j \in InviteIds : /\ invite'[j].ws = invite[j].ws
                              /\ invite'[j].email = invite[j].email
                              /\ InviteExists(j)' <=> InviteExists(j)
                              /\ invite[j].st # "free" => invite'[j].st # "free"
  BY <1>1, <1>2, <1>3 DEF IInv, TypeOK, InviteRow, InviteStatus, InviteExists
<1>5. row \in MemberRow /\ row.st = "live" /\ row.ws = arg[r].ws /\ row.user = arg[r].user
  BY <1>2, <1>3 DEF MemberRow, InviteRow
<1>6. /\ member' \in [MemberIds -> MemberRow \cup {FreeMember, GoneMember}]
      /\ member'[m] = row
      /\ \A n \in MemberIds \ {m} : member'[n] = member[n]
  BY <1>1, <1>5 DEF IInv, TypeOK
<1>7. ForeignKeys'
  BY <1>1, <1>2, <1>4, <1>5, <1>6 DEF IInv, ForeignKeys, Exists
<1>8. CreatorIsOwner'
  <2> SUFFICES ASSUME NEW w \in WorkspaceIds, workspace[w].st # "free"
               PROVE  \E n \in MemberIds : /\ IsMemberRow(n, w, workspace[w].owner)'
                                           /\ member'[n].role = "OWNER"
    BY <1>1 DEF CreatorIsOwner, IsMemberRow
  <2>1. PICK n \in MemberIds : /\ IsMemberRow(n, w, workspace[w].owner)
                               /\ member[n].role = "OWNER"
    BY DEF IInv, CreatorIsOwner
  <2> QED
    BY <1>1, <1>6, <2>1 DEF IsMemberRow
<1>9. OneMembershipPerUser'
  BY <1>2, <1>5, <1>6 DEF IInv, OneMembershipPerUser, IsMemberRow, HasMember
<1>10. \A q \in Requests \ {r} : Knows(q)'
  <2> SUFFICES ASSUME NEW q \in Requests \ {r} PROVE Knows(q)'
    OBVIOUS
  <2>1. pc'[q] = pc[q] /\ arg'[q] = arg[q] /\ Knows(q)
    BY <1>1, IdleKnows DEF IInv, AllKnow
  <2>2. pc[q] \in Inserted => ~(arg[q].ws = arg[r].ws /\ arg[q].user = arg[r].user)
    BY <1>1 DEF IInv, AllApart, Apart, Inserted
  <2>3. pc[q] \in Inserted => ~HasMember(arg[q].ws, arg[q].user)'
    BY <1>5, <1>6, <2>1, <2>2 DEF Knows, HasMember, IsMemberRow
  <2>4. pc[q] \in MemberWrites => arg[q].mem # m
    BY <1>1, <2>1 DEF Knows
  <2> QED
    BY <1>1, <1>4, <1>6, <2>1, <2>3, <2>4
       DEF Knows, Exists, IsCreatorRow, OpensInvite, Accepting, InAcceptTx
<1> QED
  BY <1>1, <1>4, <1>6, <1>7, <1>8, <1>9, <1>10, FinishKeeps DEF IInv, TypeOK

(* A new workspace has no other row yet, so its creator's is the only one. *)
LEMMA CreateKeeps ==
  ASSUME IInv, NEW u \in Users, NEW w \in WorkspaceIds, NEW m \in MemberIds,
         Create(u, w, m)
  PROVE  IInv'
<1> DEFINE row == [st |-> "live", ws |-> w, user |-> u, role |-> "OWNER"]
           new == [st |-> "live", owner |-> u]
<1>1. /\ ~Exists(w) /\ member[m].st = "free"
      /\ workspace' = [workspace EXCEPT ![w] = new]
      /\ member' = [member EXCEPT ![m] = row]
      /\ UNCHANGED <<invite, deletedUsers, pc, arg>>
  BY DEF Create, Exists
<1>2. /\ new \in WorkspaceRow /\ new.st = "live" /\ new.owner = u
      /\ row \in MemberRow /\ row.st = "live" /\ row.ws = w /\ row.user = u
      /\ row.role = "OWNER"
  BY DEF WorkspaceRow, MemberRow, Roles
<1>3. /\ workspace'[w] = new /\ Exists(w)'
      /\ \A v \in WorkspaceIds \ {w} : workspace'[v] = workspace[v]
      /\ member'[m] = row
      /\ \A n \in MemberIds \ {m} : member'[n] = member[n]
  BY <1>1, <1>2 DEF IInv, TypeOK, Exists
<1>4. TypeOK'
  BY <1>1, <1>2 DEF IInv, TypeOK
<1>5. /\ \A n \in MemberIds : member[n].st = "live" =>
           member[n].ws \in WorkspaceIds \ {w}
      /\ \A i \in InviteIds : InviteExists(i) => invite[i].ws \in WorkspaceIds \ {w}
  BY <1>1 DEF IInv, TypeOK, ForeignKeys, Exists, MemberRow, FreeMember, GoneMember,
              InviteRow, FreeInvite, GoneInvite, InviteExists
<1>6. ForeignKeys'
  BY <1>1, <1>2, <1>3, <1>5 DEF IInv, ForeignKeys, InviteExists, Exists
<1>7. CreatorIsOwner'
  <2> SUFFICES ASSUME NEW v \in WorkspaceIds, workspace'[v].st # "free"
               PROVE  \E n \in MemberIds : /\ IsMemberRow(n, v, workspace[v].owner)'
                                           /\ member'[n].role = "OWNER"
    BY DEF CreatorIsOwner, IsMemberRow
  <2>1. CASE v = w
    BY <1>2, <1>3, <2>1 DEF IsMemberRow
  <2>2. CASE v # w
    <3>1. PICK n \in MemberIds : /\ IsMemberRow(n, v, workspace[v].owner)
                                 /\ member[n].role = "OWNER"
      BY <1>3, <2>2 DEF IInv, CreatorIsOwner
    <3> QED
      BY <1>1, <1>3, <2>2, <3>1 DEF IsMemberRow
  <2> QED BY <2>1, <2>2
<1>8. OneMembershipPerUser'
  BY <1>2, <1>3, <1>5 DEF IInv, OneMembershipPerUser, IsMemberRow
<1>9. AllKnow'
  <2> SUFFICES ASSUME NEW q \in Requests PROVE Knows(q)'
    BY DEF AllKnow
  <2>1. pc'[q] = pc[q] /\ arg'[q] = arg[q] /\ Knows(q) /\ invite' = invite
    BY <1>1 DEF IInv, AllKnow
  <2>2. pc[q] \in Guarded \cup Accepting
          => arg[q].ws \in WorkspaceIds \ {w} /\ Exists(arg[q].ws)'
    BY <1>1, <1>3, <2>1 DEF Knows, Exists
  <2>3. pc[q] = "leaveWorkspace" => pc[q] \in Guarded
    BY DEF Guarded, Steps, Routes, OpensInvite, Accepting, InAcceptTx
  <2>4. pc[q] \in MemberWrites =>
          /\ arg[q].mem \in MemberIds \ {m}
          /\ member[arg[q].mem].st = "live" => member[arg[q].mem].ws \in WorkspaceIds \ {w}
    BY <1>1, <1>5, <2>1 DEF Knows
  <2>5. pc[q] \in Inserted => ~HasMember(arg[q].ws, arg[q].user)'
    BY <1>2, <1>3, <2>1, <2>2 DEF Knows, HasMember, IsMemberRow, Inserted, Accepting,
                                  InAcceptTx
  <2> QED
    BY <1>1, <1>3, <2>1, <2>2, <2>3, <2>4, <2>5 DEF Knows, InviteExists, IsCreatorRow
<1>10. AllApart'
  BY <1>1 DEF IInv, AllApart, Apart
<1> QED
  BY <1>4, <1>6, <1>7, <1>8, <1>9, <1>10 DEF IInv

LEMMA LapseKeeps ==
  ASSUME IInv, NEW i \in InviteIds, Lapse(i)
  PROVE  IInv'
<1>1. /\ invite[i].st \in {"PENDING", "EXPIRED"}
      /\ invite' = [invite EXCEPT ![i].lapsed = TRUE]
      /\ UNCHANGED <<workspace, member, deletedUsers, pc, arg>>
  BY DEF Lapse
<1>2. invite[i] \in InviteRow
  BY <1>1 DEF IInv, TypeOK, FreeInvite, GoneInvite
<1>3. /\ invite' \in [InviteIds -> InviteRow \cup {FreeInvite, GoneInvite}]
      /\ \A j \in InviteIds : /\ invite'[j].st = invite[j].st
                              /\ invite'[j].ws = invite[j].ws
                              /\ invite'[j].email = invite[j].email
  BY <1>1, <1>2 DEF IInv, TypeOK, InviteRow
<1>4. TypeOK'
  BY <1>1, <1>3 DEF IInv, TypeOK
<1>5. (ForeignKeys /\ CreatorIsOwner /\ OneMembershipPerUser)'
  BY <1>1, <1>3 DEF IInv, ForeignKeys, InviteExists, Exists, CreatorIsOwner, IsMemberRow,
                    OneMembershipPerUser
<1>6. AllKnow'
  <2> SUFFICES ASSUME NEW q \in Requests PROVE Knows(q)'
    BY DEF AllKnow
  <2>1. pc'[q] = pc[q] /\ arg'[q] = arg[q] /\ Knows(q)
    BY <1>1 DEF IInv, AllKnow
  <2> QED
    BY <1>1, <1>3, <2>1 DEF Knows, Exists, InviteExists, IsCreatorRow, HasMember,
                            IsMemberRow, OpensInvite, Accepting, InAcceptTx
<1>7. AllApart'
  BY <1>1 DEF IInv, AllApart, Apart
<1> QED
  BY <1>4, <1>5, <1>6, <1>7 DEF IInv

LEMMA NextKeeps == IInv /\ [Next]_vars => IInv'
<1> SUFFICES ASSUME IInv, [Next]_vars PROVE IInv'
  OBVIOUS
<1>1. ASSUME NEW u \in Users, NEW w \in WorkspaceIds, NEW m \in MemberIds,
             Create(u, w, m)
      PROVE  IInv'
  BY <1>1, CreateKeeps
<1>2. ASSUME NEW i \in InviteIds, Lapse(i) PROVE IInv'
  BY <1>2, LapseKeeps
<1>3. ASSUME NEW r \in Requests, Start(r) PROVE IInv'
  BY <1>3, ArriveKeeps, OpenInviteKeeps, DeleteAccountCheckKeeps DEF Start
<1>4. ASSUME NEW r \in Requests, InviteGetWorkspace(r) PROVE IInv'
  <2>1. arg[r].user \in Users
    BY <1>4 DEF InviteGetWorkspace, IInv, AllKnow, Knows
  <2> QED
    BY <1>4, <2>1, InviteReadKeeps
<1>5. ASSUME NEW r \in Requests, Handler(r) PROVE IInv'
  BY <1>4, <1>5, GuardKeeps, DeleteReadKeeps, DeleteInvitesKeeps, DeleteCommitKeeps,
     UpdateRoleCheckKeeps, UpdateRoleWriteKeeps, RemoveCheckTargetKeeps,
     RemoveCheckRecordsKeeps, LeaveFindKeeps, DeleteMemberKeeps, InviteReadKeeps,
     InviteCreateKeeps, CancelFindKeeps, WriteInviteKeeps, validateInviteKeeps,
     AcceptReadKeeps, AcceptCommitKeeps, DeleteAccountWriteKeeps, AnswerKeeps
     DEF Handler, Fail
<1>6. CASE UNCHANGED vars
  BY <1>6, UnchangedKeeps
<1> QED
  BY <1>1, <1>2, <1>3, <1>5, <1>6 DEF Next

(* The strengthened invariant holds in every state. *)
THEOREM Invariance == Spec => []IInv
BY InitIInv, NextKeeps, PTL DEF Spec

-----------------------------------------------------------------------------
(* Every table and every request in flight stays well-typed: the updates   *)
(* by id of rows that may be gone never bring one back.                    *)
THEOREM TypeCorrect == Spec => []TypeOK
<1>1. IInv => TypeOK
  BY DEF IInv
<1> QED
  BY <1>1, Invariance, PTL

(* The creator of a workspace is one of its OWNERs in every state, though  *)
(* updateMemberRole, removeMember and leaveWorkspace write on old reads.   *)
THEOREM CreatorAlwaysOwner == Spec => []CreatorIsOwner
<1>1. IInv => CreatorIsOwner
  BY DEF IInv
<1> QED
  BY <1>1, Invariance, PTL

(* acceptInvite never makes an account a member twice. *)
THEOREM NeverTwiceMember == Spec => []OneMembershipPerUser
<1>1. IInv => OneMembershipPerUser
  BY DEF IInv
<1> QED
  BY <1>1, Invariance, PTL

(* Only Create and AcceptCommit insert a row, whatever its id. *)
LEMMA Inserts ==
  ASSUME IInv, Next, NEW m \in MemberIds,
         member[m].st = "free", member'[m].st = "live"
  PROVE  \/ \E u \in Users, w \in WorkspaceIds : Create(u, w, m)
         \/ \E r \in Requests : AcceptCommit(r, m)
<1>1. ASSUME NEW u \in Users, NEW w \in WorkspaceIds, NEW n \in MemberIds,
             Create(u, w, n)
      PROVE  n = m
  BY <1>1 DEF Create, IInv, TypeOK
<1>2. ASSUME NEW r \in Requests, NEW n \in MemberIds, AcceptCommit(r, n)
      PROVE  n = m
  BY <1>2 DEF AcceptCommit, IInv, TypeOK
<1>3. ASSUME NEW r \in Requests, UpdateRoleWrite(r) \/ DeleteMember(r)
      PROVE  FALSE
  <2>1. arg[r].mem \in MemberIds \/ Answer(r)
    BY <1>3 DEF IInv, AllKnow, Knows, MemberWrites, UpdateRoleWrite, DeleteMember
  <2>2. member[arg[r].mem].st = "live" \/ Answer(r)
    BY <1>3 DEF UpdateRoleWrite, DeleteMember
  <2>3. ~Answer(r)
    BY DEF Answer, tables
  <2>4. member'[m] = member[m]
    BY <1>3, <2>1, <2>2, <2>3 DEF UpdateRoleWrite, DeleteMember, IInv, TypeOK
  <2> QED
    BY <2>4
<1>4. ASSUME member' = member PROVE FALSE
  BY <1>4
<1>5. ASSUME NEW r \in Requests, Start(r) PROVE FALSE
  BY <1>4, <1>5 DEF Start, Arrive, OpenInvite, DeleteAccountCheck, Continue, tables, vars
<1>6. ASSUME NEW r \in Requests, Handler(r) PROVE \E n \in MemberIds : AcceptCommit(r, n)
  <2>1. ~Answer(r) /\ \A step, a : ~Continue(r, step, a)
    BY <1>4 DEF Answer, Continue, tables
  <2>2. ~(Guard(r) \/ DeleteCheckOwner(r) \/ DeleteCount(r) \/ DeleteInvites(r) \/ Fail(r))
    BY <2>1 DEF Guard, DeleteCheckOwner, DeleteCount, DeleteInvites, Fail
  <2>3. ~(DeleteCommit(r) \/ DeleteAccountWrite(r))
    BY <1>4 DEF DeleteCommit, DeleteAccountWrite
  <2>4. \A n \in MemberIds, role \in Roles :
          ~(UpdateRoleCheck(r, n, role) \/ RemoveCheckTarget(r, n))
    BY <2>1 DEF UpdateRoleCheck, RemoveCheckTarget
  <2>5. ~(RemoveCheckRecords(r) \/ LeaveFind(r) \/ InviteGetWorkspace(r))
    BY <2>1 DEF RemoveCheckRecords, LeaveFind, InviteGetWorkspace
  <2>6. /\ \A email \in Users : ~InviteFindPending(r, email)
        /\ \A i \in InviteIds : ~CancelFind(r, i)
    BY <2>1 DEF InviteFindPending, CancelFind
  <2>7. \A i \in InviteIds, role \in Roles : ~InviteCreate(r, i, role)
    BY <1>4 DEF InviteCreate
  <2>8. ~(CancelDelete(r) \/ ExpireWrite(r) \/ RejectWrite(r))
    BY <1>4, <2>1 DEF CancelDelete, ExpireWrite, RejectWrite, WriteInvite
  <2>9. ~(validateInvite(r) \/ AcceptCheckMember(r) \/ AcceptUpdate(r)
            \/ AcceptInsert(r) \/ AcceptFind(r))
    BY <2>1 DEF validateInvite, AcceptCheckMember, AcceptUpdate, AcceptInsert, AcceptFind
  <2> QED
    BY <1>3, <1>6, <2>2, <2>3, <2>4, <2>5, <2>6, <2>7, <2>8, <2>9, ConstantsAssumption
       DEF Handler, Roles
<1>7. ASSUME NEW i \in InviteIds, Lapse(i) PROVE FALSE
  BY <1>4, <1>7 DEF Lapse
<1> QED
  BY <1>1, <1>2, <1>5, <1>6, <1>7 DEF Next

(* Nobody joins an existing workspace but by an invite to that account,    *)
(* with its role, that exists until the commit and is ACCEPTED by it.      *)
THEOREM JoinsByInvite == Spec => JoinConsumesInvite
<1>1. ASSUME IInv, Next PROVE JoinStep
  <2> SUFFICES ASSUME NEW m \in MemberIds, member[m].st = "free", member'[m].st = "live",
                      workspace[member'[m].ws].st # "free"
               PROVE  \E i \in InviteIds : /\ InviteExists(i)
                                           /\ invite'[i].st = "ACCEPTED"
                                           /\ invite[i].ws = member'[m].ws
                                           /\ invite[i].email = member'[m].user
                                           /\ invite[i].role = member'[m].role
    BY DEF JoinStep
  <2>1. ASSUME NEW u \in Users, NEW w \in WorkspaceIds, Create(u, w, m) PROVE FALSE
    BY <2>1 DEF Create, IInv, TypeOK
  <2>2. ASSUME NEW r \in Requests, AcceptCommit(r, m)
        PROVE  /\ arg[r].inv \in InviteIds
               /\ InviteExists(arg[r].inv)
               /\ invite'[arg[r].inv].st = "ACCEPTED"
               /\ invite[arg[r].inv].ws = member'[m].ws
               /\ invite[arg[r].inv].email = member'[m].user
               /\ invite[arg[r].inv].role = member'[m].role
    <3>1. Knows(r) /\ pc[r] = "accept.commit"
      BY <1>1, <2>2 DEF IInv, AllKnow, AcceptCommit
    <3>2. /\ arg[r].inv \in InviteIds /\ InviteExists(arg[r].inv)
          /\ invite[arg[r].inv].ws = arg[r].ws /\ invite[arg[r].inv].email = arg[r].user
      BY <3>1 DEF Knows, OpensInvite, Accepting, InAcceptTx
    <3>3. invite[arg[r].inv] \in InviteRow
      BY <1>1, <3>2 DEF IInv, TypeOK, InviteExists, FreeInvite, GoneInvite
    <3> QED
      BY <1>1, <2>2, <3>2, <3>3 DEF AcceptCommit, IInv, TypeOK, InviteRow
  <2> QED
    BY <1>1, <2>1, <2>2, Inserts
<1>2. IInv /\ [Next]_vars => [JoinStep]_vars
  BY <1>1
<1> QED
  BY <1>2, Invariance, PTL DEF Spec, JoinConsumesInvite


-----------------------------------------------------------------------------
(* The guard of a request looked at one workspace; what the request found  *)
(* since then, and will write, is of that one.  Knows says too little of   *)
(* the member it changes and of the invites it deletes or rejects.         *)
InWorkspace(r) ==
  /\ pc[r] \in {"accept", "reject", "expire"} => arg[r].ws = Null
  /\ pc[r] \in MemberWrites /\ member[arg[r].mem].st = "live"
       => member[arg[r].mem].ws = arg[r].ws
  /\ pc[r] \in {"cancel.delete", "reject.write"} /\ InviteExists(arg[r].inv)
       => invite[arg[r].inv].ws = arg[r].ws
  /\ \A i \in arg[r].doomed :
       invite[i].st # "free" /\ (InviteExists(i) => invite[i].ws = arg[r].ws)

AllInWorkspace == \A r \in Requests : InWorkspace(r)

(* Rows keep their workspace as long as they are there, and do not return. *)
RowsStay ==
  /\ \A m \in MemberIds :
       member[m].st # "free" /\ member'[m].st = "live"
         => member[m].st = "live" /\ member'[m].ws = member[m].ws
  /\ \A i \in InviteIds : invite[i].st # "free" =>
       /\ invite'[i].st # "free"
       /\ InviteExists(i)' => InviteExists(i) /\ invite'[i].ws = invite[i].ws

(* What a step changes is of the workspace w. *)
Within(w) ==
  /\ \A v \in WorkspaceIds \ {w} : workspace'[v] = workspace[v]
  /\ \A m \in MemberIds :
       member'[m] # member[m]
         => w = IF member[m].st = "free" THEN member'[m].ws ELSE member[m].ws
  /\ \A i \in InviteIds :
       invite'[i] # invite[i]
         => w = IF invite[i].st = "free" THEN invite'[i].ws ELSE invite[i].ws

WritesRows(r) ==
  \/ DeleteCommit(r) \/ UpdateRoleWrite(r) \/ DeleteMember(r)
  \/ CancelDelete(r) \/ ExpireWrite(r) \/ RejectWrite(r)
  \/ \E i \in InviteIds, role \in GivenRoles : InviteCreate(r, i, role)
  \/ \E m \in MemberIds : AcceptCommit(r, m)

LEMMA OthersRead ==
  ASSUME NEW r \in Requests, Start(r) \/ Handler(r), ~WritesRows(r)
  PROVE  UNCHANGED <<workspace, member, invite>>
<1>1. ASSUME Answer(r) \/ \E step, a : Continue(r, step, a)
      PROVE  UNCHANGED <<workspace, member, invite>>
  BY <1>1 DEF Answer, Continue, tables
<1>2. ASSUME \/ Guard(r) \/ DeleteCheckOwner(r) \/ DeleteCount(r) \/ DeleteInvites(r) \/ Fail(r)
             \/ RemoveCheckRecords(r) \/ LeaveFind(r) \/ InviteGetWorkspace(r)
      PROVE  UNCHANGED <<workspace, member, invite>>
  BY <1>1, <1>2 DEF Guard, DeleteCheckOwner, DeleteCount, DeleteInvites, Fail,
                    RemoveCheckRecords, LeaveFind, InviteGetWorkspace
<1>3. ASSUME NEW m \in MemberIds, NEW role \in GivenRoles,
             UpdateRoleCheck(r, m, role) \/ RemoveCheckTarget(r, m)
      PROVE  UNCHANGED <<workspace, member, invite>>
  BY <1>1, <1>3 DEF UpdateRoleCheck, RemoveCheckTarget
<1>4. ASSUME NEW m \in MemberIds, RemoveCheckTarget(r, m)
      PROVE  UNCHANGED <<workspace, member, invite>>
  BY <1>1, <1>4 DEF RemoveCheckTarget
<1>5. ASSUME NEW email \in Users, InviteFindPending(r, email)
      PROVE  UNCHANGED <<workspace, member, invite>>
  BY <1>1, <1>5 DEF InviteFindPending
<1>6. ASSUME NEW i \in InviteIds, CancelFind(r, i)
      PROVE  UNCHANGED <<workspace, member, invite>>
  BY <1>1, <1>6 DEF CancelFind
<1>7. ASSUME \/ validateInvite(r) \/ AcceptCheckMember(r) \/ AcceptUpdate(r)
             \/ AcceptInsert(r) \/ AcceptFind(r)
      PROVE  UNCHANGED <<workspace, member, invite>>
  BY <1>1, <1>7 DEF validateInvite, AcceptCheckMember, AcceptUpdate, AcceptInsert, AcceptFind
<1>8. ASSUME DeleteAccountWrite(r) PROVE UNCHANGED <<workspace, member, invite>>
  BY <1>8 DEF DeleteAccountWrite
<1>9. ASSUME Start(r) PROVE UNCHANGED <<workspace, member, invite>>
  BY <1>1, <1>9 DEF Start, Arrive, OpenInvite, DeleteAccountCheck, vars
<1> QED
  BY <1>2, <1>3, <1>4, <1>5, <1>6, <1>7, <1>8, <1>9 DEF Handler, WritesRows

(* The rows a request writes are those it found, or new ones. *)
LEMMA WriteEffect ==
  ASSUME IInv, NEW r \in Requests, InWorkspace(r), WritesRows(r)
  PROVE  RowsStay /\ (arg[r].ws # Null => Within(arg[r].ws))
<1> DEFINE w == arg[r].ws
<1>k. Knows(r)
  BY DEF IInv, AllKnow
<1>1. CASE UNCHANGED <<workspace, member, invite>>
  BY <1>1 DEF RowsStay, Within, InviteExists
<1>2. CASE DeleteCommit(r)
  <2>1. /\ invite' = [i \in InviteIds |-> IF i \in arg[r].doomed THEN GoneInvite ELSE invite[i]]
        /\ workspace' = [workspace EXCEPT ![w].st = "deleted"] /\ member' = member
    BY <1>2 DEF DeleteCommit
  <2>2. \A v \in WorkspaceIds \ {w} : workspace'[v] = workspace[v]
    BY <2>1 DEF IInv, TypeOK
  <2>3. \A i \in InviteIds :
          /\ i \in arg[r].doomed => invite'[i].st = "gone"
          /\ i \notin arg[r].doomed => invite'[i] = invite[i]
    BY <2>1 DEF GoneInvite, FreeInvite
  <2>4. \A i \in arg[r].doomed : invite[i].st # "free" /\ (InviteExists(i) => invite[i].ws = w)
    BY DEF InWorkspace
  <2>5. \A i \in InviteIds : i \in arg[r].doomed /\ invite'[i] # invite[i] => InviteExists(i)
    BY <2>1, <2>4 DEF IInv, TypeOK, InviteExists, InviteRow, InviteStatus, FreeInvite, GoneInvite
  <2>6. RowsStay
    BY <2>1, <2>3 DEF RowsStay, InviteExists
  <2>7. Within(w)
    BY <2>1, <2>2, <2>3, <2>4, <2>5 DEF Within, InviteExists
  <2> QED
    BY <2>6, <2>7
<1>3. ASSUME NEW m \in MemberIds, member[m].st = "live", member[m].ws = w,
             \A n \in MemberIds \ {m} : member'[n] = member[n],
             member'[m].st = "live" => member'[m].ws = w,
             workspace' = workspace, invite' = invite
      PROVE  RowsStay /\ Within(w)
  BY <1>3 DEF RowsStay, Within, InviteExists
<1>4. CASE UpdateRoleWrite(r) \/ DeleteMember(r)
  <2> DEFINE m == arg[r].mem
  <2>1. CASE Answer(r)
    BY <1>1, <2>1 DEF Answer, tables
  <2>2. CASE ~Answer(r)
    <3>1. /\ pc[r] \in MemberWrites /\ member[m].st = "live" /\ m \in MemberIds
          /\ workspace' = workspace /\ invite' = invite
          /\ \/ member' = [member EXCEPT ![m].role = arg[r].role]
             \/ member' = [member EXCEPT ![m] = GoneMember]
      BY <1>4, <1>k, <2>2 DEF UpdateRoleWrite, DeleteMember, MemberWrites, Knows
    <3>2. member[m].ws = w
      BY <3>1 DEF InWorkspace
    <3>3. \A n \in MemberIds \ {m} : member'[n] = member[n]
      BY <3>1 DEF IInv, TypeOK
    <3>4. member'[m].st = "live" => member'[m].ws = w
      <4>1. member[m] \in MemberRow
        BY <3>1 DEF IInv, TypeOK, FreeMember, GoneMember
      <4>2. \/ member'[m] = [member[m] EXCEPT !.role = arg[r].role]
            \/ member'[m].st = "gone"
        BY <3>1 DEF IInv, TypeOK, GoneMember, FreeMember
      <4> QED
        BY <3>2, <4>1, <4>2 DEF MemberRow
    <3> QED
      BY <1>3, <3>1, <3>2, <3>3, <3>4
  <2> QED
    BY <2>1, <2>2
<1>5. ASSUME NEW i \in InviteIds, InviteExists(i), w # Null => invite[i].ws = w,
             \A j \in InviteIds \ {i} : invite'[j] = invite[j],
             invite'[i].st # "free", InviteExists(i)' => invite'[i].ws = invite[i].ws,
             workspace' = workspace, member' = member
      PROVE  RowsStay /\ (w # Null => Within(w))
  BY <1>5 DEF RowsStay, Within, InviteExists
<1>6. CASE CancelDelete(r) \/ ExpireWrite(r) \/ RejectWrite(r)
  <2>1. CASE Answer(r)
    BY <1>1, <2>1 DEF Answer, tables
  <2>2. CASE ~Answer(r)
    <3>0. PICK i \in InviteIds : i = arg[r].inv
      BY <1>6, <1>k DEF CancelDelete, ExpireWrite, RejectWrite, Knows, OpensInvite
    <3>1. /\ pc[r] \in {"cancel.delete", "expire", "reject.write"}
          /\ InviteExists(i) /\ workspace' = workspace /\ member' = member
          /\ \/ invite' = [invite EXCEPT ![i] = GoneInvite]
             \/ invite' = [invite EXCEPT ![i] = WithStatus(i, "EXPIRED")]
             \/ invite' = [invite EXCEPT ![i] = WithStatus(i, "REJECTED")]
      BY <1>6, <1>k, <2>2, <3>0 DEF CancelDelete, ExpireWrite, RejectWrite, WriteInvite, Knows,
                              OpensInvite
    <3>2. w # Null => invite[i].ws = w
      BY <3>0, <3>1, <1>6, <1>k DEF InWorkspace, Knows, OpensInvite
    <3>3. \A j \in InviteIds \ {i} : invite'[j] = invite[j]
      BY <3>1 DEF IInv, TypeOK
    <3>4. invite'[i].st # "free" /\ (InviteExists(i)' => invite'[i].ws = invite[i].ws)
      <4>1. invite[i] \in InviteRow
        BY <3>1 DEF IInv, TypeOK, InviteExists, FreeInvite, GoneInvite
      <4>2. \/ invite'[i].st = "gone"
            \/ invite'[i] = [invite[i] EXCEPT !.st = "EXPIRED"]
            \/ invite'[i] = [invite[i] EXCEPT !.st = "REJECTED"]
        BY <3>1 DEF IInv, TypeOK, GoneInvite, FreeInvite, WithStatus
      <4>3. /\ invite'[i].st \in {"gone", "EXPIRED", "REJECTED"}
            /\ invite'[i].st # "gone" => invite'[i].ws = invite[i].ws
        BY <4>1, <4>2 DEF InviteRow
      <4> QED
        BY <4>3 DEF InviteExists
    <3> QED
      BY <1>5, <3>1, <3>2, <3>3, <3>4
  <2> QED
    BY <2>1, <2>2
<1>7. ASSUME NEW i \in InviteIds, NEW role \in GivenRoles, InviteCreate(r, i, role)
      PROVE  RowsStay /\ Within(w)
  <2>1. /\ invite[i].st = "free" /\ workspace' = workspace /\ member' = member
        /\ invite'[i].ws = w /\ \A j \in InviteIds \ {i} : invite'[j] = invite[j]
    BY <1>7 DEF InviteCreate, IInv, TypeOK
  <2> QED
    BY <2>1 DEF RowsStay, Within, InviteExists
<1>8. ASSUME NEW m \in MemberIds, AcceptCommit(r, m) PROVE RowsStay /\ Within(w)
  <2> DEFINE i == arg[r].inv
  <2>1. /\ pc[r] = "accept.commit" /\ i \in InviteIds /\ InviteExists(i) /\ invite[i].ws = w
    BY <1>8, <1>k DEF AcceptCommit, Knows, OpensInvite, Accepting, InAcceptTx
  <2>2. /\ member[m].st = "free" /\ member'[m].ws = w /\ workspace' = workspace
        /\ \A n \in MemberIds \ {m} : member'[n] = member[n]
        /\ invite'[i] = [invite[i] EXCEPT !.st = "ACCEPTED"]
        /\ \A j \in InviteIds \ {i} : invite'[j] = invite[j]
    BY <1>8, <2>1 DEF AcceptCommit, IInv, TypeOK
  <2>3. invite[i] \in InviteRow
    BY <2>1 DEF IInv, TypeOK, InviteExists, FreeInvite, GoneInvite
  <2>4. invite'[i].st = "ACCEPTED" /\ invite'[i].ws = w
    BY <2>1, <2>2, <2>3 DEF InviteRow
  <2> QED
    BY <2>1, <2>2, <2>4 DEF RowsStay, Within, InviteExists
<1> QED
  BY <1>2, <1>4, <1>6, <1>7, <1>8 DEF WritesRows

(* Every step of a request moves that request only. *)
LEMMA Moves ==
  ASSUME NEW r \in Requests, Start(r) \/ Handler(r)
  PROVE  (\E step, a : Goto(r, step, a)) \/ UNCHANGED <<pc, arg>>
<1>1. ASSUME Answer(r) \/ Finish(r) \/ \E step, a : Continue(r, step, a)
      PROVE  \E step, a : Goto(r, step, a)
  BY <1>1 DEF Answer, Finish, Continue
<1>2. ASSUME \/ Guard(r) \/ DeleteCheckOwner(r) \/ DeleteCount(r) \/ DeleteInvites(r) \/ Fail(r)
             \/ RemoveCheckRecords(r) \/ LeaveFind(r) \/ InviteGetWorkspace(r)
      PROVE  \E step, a : Goto(r, step, a)
  BY <1>1, <1>2 DEF Guard, DeleteCheckOwner, DeleteCount, DeleteInvites, Fail,
                    RemoveCheckRecords, LeaveFind, InviteGetWorkspace
<1>3. ASSUME NEW m \in MemberIds, NEW role \in GivenRoles, UpdateRoleCheck(r, m, role)
      PROVE  \E step, a : Goto(r, step, a)
  BY <1>1, <1>3 DEF UpdateRoleCheck
<1>4. ASSUME NEW m \in MemberIds, RemoveCheckTarget(r, m)
      PROVE  \E step, a : Goto(r, step, a)
  BY <1>1, <1>4 DEF RemoveCheckTarget
<1>5. ASSUME NEW email \in Users, InviteFindPending(r, email)
      PROVE  \E step, a : Goto(r, step, a)
  BY <1>1, <1>5 DEF InviteFindPending
<1>6. ASSUME NEW i \in InviteIds, CancelFind(r, i) PROVE \E step, a : Goto(r, step, a)
  BY <1>1, <1>6 DEF CancelFind
<1>7. ASSUME \/ validateInvite(r) \/ AcceptCheckMember(r) \/ AcceptUpdate(r)
             \/ AcceptInsert(r) \/ AcceptFind(r)
      PROVE  \E step, a : Goto(r, step, a)
  BY <1>1, <1>7 DEF validateInvite, AcceptCheckMember, AcceptUpdate, AcceptInsert, AcceptFind
<1>8. ASSUME \/ DeleteAccountWrite(r) \/ DeleteCommit(r) \/ UpdateRoleWrite(r) \/ DeleteMember(r)
             \/ CancelDelete(r) \/ ExpireWrite(r) \/ RejectWrite(r)
      PROVE  \E step, a : Goto(r, step, a)
  BY <1>1, <1>8 DEF DeleteAccountWrite, DeleteCommit, UpdateRoleWrite, DeleteMember,
                    CancelDelete, ExpireWrite, RejectWrite, WriteInvite
<1>9. ASSUME NEW i \in InviteIds, NEW role \in GivenRoles, InviteCreate(r, i, role)
      PROVE  \E step, a : Goto(r, step, a)
  BY <1>1, <1>9 DEF InviteCreate
<1>10. ASSUME NEW m \in MemberIds, AcceptCommit(r, m) PROVE \E step, a : Goto(r, step, a)
  BY <1>1, <1>10 DEF AcceptCommit
<1>11. ASSUME Start(r) PROVE (\E step, a : Goto(r, step, a)) \/ UNCHANGED <<pc, arg>>
  BY <1>1, <1>11 DEF Start, Arrive, OpenInvite, DeleteAccountCheck, vars
<1> QED
  BY <1>2, <1>3, <1>4, <1>5, <1>6, <1>7, <1>8, <1>9, <1>10, <1>11 DEF Handler

LEMMA RowsAlwaysStay == ASSUME IInv, AllInWorkspace, Next PROVE RowsStay
<1>1. ASSUME NEW u \in Users, NEW w \in WorkspaceIds, NEW m \in MemberIds, Create(u, w, m)
      PROVE  RowsStay
  <2>1. /\ member[m].st = "free" /\ invite' = invite
        /\ \A n \in MemberIds \ {m} : member'[n] = member[n]
    BY <1>1 DEF Create, IInv, TypeOK
  <2> QED
    BY <2>1 DEF RowsStay, InviteExists
<1>2. ASSUME NEW i \in InviteIds, Lapse(i) PROVE RowsStay
  <2>1. /\ invite[i].st \in {"PENDING", "EXPIRED"} /\ member' = member
        /\ invite' = [invite EXCEPT ![i].lapsed = TRUE]
    BY <1>2 DEF Lapse
  <2>2. invite[i] \in InviteRow
    BY <2>1 DEF IInv, TypeOK, FreeInvite, GoneInvite
  <2>3. \A j \in InviteIds : invite'[j].st = invite[j].st /\ invite'[j].ws = invite[j].ws
    BY <2>1, <2>2 DEF IInv, TypeOK, InviteRow
  <2> QED
    BY <2>1, <2>3 DEF RowsStay, InviteExists
<1>3. ASSUME NEW r \in Requests, Start(r) \/ Handler(r) PROVE RowsStay
  <2>1. CASE WritesRows(r)
    BY <2>1, WriteEffect DEF AllInWorkspace
  <2>2. CASE ~WritesRows(r)
    BY <1>3, <2>2, OthersRead DEF RowsStay, InviteExists
  <2> QED
    BY <2>1, <2>2
<1> QED
  BY <1>1, <1>2, <1>3 DEF Next

LEMMA InWorkspaceKept ==
  ASSUME IInv, RowsStay, NEW q \in Requests, InWorkspace(q), pc'[q] = pc[q], arg'[q] = arg[q]
  PROVE  InWorkspace(q)'
<1>1. Knows(q) /\ arg[q].doomed \subseteq InviteIds
  BY DEF IInv, AllKnow, TypeOK, Args
<1>2. ASSUME pc[q] \in MemberWrites, member'[arg[q].mem].st = "live"
      PROVE  member'[arg[q].mem].ws = arg[q].ws
  BY <1>1, <1>2 DEF Knows, RowsStay, InWorkspace
<1>3. ASSUME pc[q] \in {"cancel.delete", "reject.write"}, InviteExists(arg[q].inv)'
      PROVE  invite'[arg[q].inv].ws = arg[q].ws
  BY <1>1, <1>3 DEF Knows, RowsStay, InWorkspace, OpensInvite, InviteExists
<1>4. ASSUME NEW i \in arg[q].doomed
      PROVE  invite'[i].st # "free" /\ (InviteExists(i)' => invite'[i].ws = arg[q].ws)
  BY <1>1, <1>4 DEF RowsStay, InWorkspace
<1> QED
  BY <1>2, <1>3, <1>4 DEF InWorkspace, InviteExists

(* Where nothing was found that is still to be written *)
LEMMA NothingToWrite ==
  ASSUME NEW r, arg'[r].doomed = {},
         pc'[r] \notin {"accept", "reject", "expire", "cancel.delete", "reject.write"}
                       \cup MemberWrites
  PROVE  InWorkspace(r)'
BY DEF InWorkspace

LEMMA StepInWorkspace ==
  ASSUME IInv, NEW r \in Requests, InWorkspace(r), Start(r) \/ Handler(r),
         ~UNCHANGED <<pc, arg>>
  PROVE  InWorkspace(r)'
<1> USE DEF MemberWrites
<1>k. Knows(r) /\ arg[r] \in Args /\ pc[r] \in Steps
  BY DEF IInv, AllKnow, TypeOK
<1>1. ASSUME Finish(r) PROVE InWorkspace(r)'
  <2>1. pc'[r] = "idle" /\ arg'[r].doomed = {}
    BY <1>1 DEF Finish, Goto, NoArgs, IInv, TypeOK
  <2> QED
    BY <2>1, NothingToWrite
<1>2. ASSUME NEW step, NEW a, Continue(r, step, a)
      PROVE  /\ pc'[r] = step /\ arg'[r] = a
             /\ workspace' = workspace /\ member' = member /\ invite' = invite
  BY <1>2 DEF Continue, Goto, tables, IInv, TypeOK
<1>3. ASSUME NEW step, NEW a, Continue(r, step, a), a.doomed = {},
             step \notin {"accept", "reject", "expire", "cancel.delete", "reject.write"}
                         \cup MemberWrites
      PROVE  InWorkspace(r)'
  BY <1>2, <1>3, NothingToWrite
<1>4. CASE Start(r)
  <2>1. NoArgs.doomed = {} /\ NoArgs.ws = Null
    BY DEF NoArgs
  <2>2. ASSUME NEW u \in Users, NEW w \in WorkspaceIds, NEW op \in Routes, Arrive(r, u, w, op)
        PROVE  InWorkspace(r)'
    <3>1. Continue(r, "guard", [NoArgs EXCEPT !.op = op, !.user = u, !.ws = w])
      BY <2>2 DEF Arrive, vars
    <3>2. [NoArgs EXCEPT !.op = op, !.user = u, !.ws = w].doomed = {}
      BY DEF NoArgs
    <3> QED
      BY <1>3, <3>1, <3>2
  <2>3. ASSUME NEW u \in Closers, DeleteAccountCheck(r, u) PROVE InWorkspace(r)'
    <3>1. Continue(r, "account.delete", [NoArgs EXCEPT !.user = u])
      BY <2>3 DEF DeleteAccountCheck, vars
    <3> QED
      BY <1>3, <3>1 DEF NoArgs
  <2>4. ASSUME NEW u \in Users, NEW i \in InviteIds, NEW step \in {"accept", "reject"},
               OpenInvite(r, u, i, step)
        PROVE  InWorkspace(r)'
    <3>1. pc'[r] \in {"accept", "reject"} /\ arg'[r] = [NoArgs EXCEPT !.user = u, !.inv = i]
      BY <1>2, <2>4 DEF OpenInvite
    <3>2. arg'[r].doomed = {} /\ arg'[r].ws = Null
      BY <3>1 DEF NoArgs
    <3> QED
      BY <3>1, <3>2 DEF InWorkspace
  <2> QED
    BY <1>4, <2>2, <2>3, <2>4 DEF Start
<1>5. ASSUME pc[r] # "delete.commit" PROVE arg[r].doomed = {}
  BY <1>k, <1>5 DEF Knows
<1>6. CASE Guard(r)
  <2>1. CASE Answer(r)
    BY <1>1, <2>1 DEF Answer
  <2>2. ASSUME NEW m \in MemberIds,
               Continue(r, arg[r].op, [arg[r] EXCEPT !.op = Null, !.role = member[m].role])
        PROVE  InWorkspace(r)'
    <3>1. arg[r].op \in Routes /\ arg[r].doomed = {}
      BY <1>5, <1>6, <1>k DEF Guard, Knows
    <3>2. [arg[r] EXCEPT !.op = Null, !.role = member[m].role].doomed = {}
      BY <1>k, <3>1 DEF Args
    <3>3. arg[r].op \notin {"accept", "reject", "expire", "cancel.delete", "reject.write"}
                           \cup MemberWrites
      BY <3>1 DEF Routes
    <3> QED
      BY <1>3, <2>2, <3>2, <3>3
  <2> QED
    BY <1>6, <2>1, <2>2 DEF Guard
<1>7. CASE DeleteInvites(r)
  <2> DEFINE doomed == {i \in InviteIds : InviteExists(i) /\ invite[i].ws = arg[r].ws}
             a == [arg[r] EXCEPT !.doomed = doomed]
  <2>1. Continue(r, "delete.commit", a) /\ a.doomed = doomed /\ a.ws = arg[r].ws
    BY <1>7, <1>k DEF DeleteInvites, Args
  <2>2. pc'[r] = "delete.commit" /\ arg'[r] = a /\ invite' = invite
    BY <1>2, <2>1
  <2>3. \A i \in doomed : invite[i].st # "free" /\ invite[i].ws = arg[r].ws
    BY DEF InviteExists
  <2> HIDE DEF a, doomed
  <2> QED
    BY <2>1, <2>2, <2>3 DEF InWorkspace
<1>8. ASSUME NEW m \in MemberIds, NEW step \in MemberWrites, NEW a \in Args,
             Continue(r, step, a), a.mem = m, a.ws = arg[r].ws, a.doomed = {},
             member[m].st = "live" => member[m].ws = arg[r].ws
      PROVE  InWorkspace(r)'
  <2>1. pc'[r] = step /\ arg'[r] = a /\ member' = member
    BY <1>2, <1>8
  <2> QED
    BY <1>8, <2>1 DEF InWorkspace
<1>9. ASSUME NEW m \in MemberIds, NEW role \in GivenRoles, UpdateRoleCheck(r, m, role)
      PROVE  InWorkspace(r)'
  <2>1. CASE Answer(r)
    BY <1>1, <2>1 DEF Answer
  <2>2. CASE ~Answer(r)
    <3> DEFINE a == [arg[r] EXCEPT !.mem = m, !.role = role]
    <3>1. /\ Continue(r, "updateRole.write", a) /\ member[m].ws = arg[r].ws
          /\ arg[r].doomed = {}
      BY <1>5, <1>9, <2>2 DEF UpdateRoleCheck
    <3>2. a \in Args /\ a.mem = m /\ a.ws = arg[r].ws /\ a.doomed = {}
      BY <1>k, <3>1, ConstantsAssumption DEF Args, Roles
    <3> HIDE DEF a
    <3> QED
      BY <1>8, <3>1, <3>2
  <2> QED
    BY <2>1, <2>2
<1>10. ASSUME NEW m \in MemberIds, RemoveCheckTarget(r, m) PROVE InWorkspace(r)'
  <2>1. CASE Answer(r)
    BY <1>1, <2>1 DEF Answer
  <2>2. CASE ~Answer(r)
    <3> DEFINE a == [arg[r] EXCEPT !.mem = m, !.target = member[m].user]
    <3>1. /\ Continue(r, "remove.check", a) /\ member[m].st = "live"
          /\ member[m].ws = arg[r].ws /\ arg[r].doomed = {}
      BY <1>5, <1>10, <2>2 DEF RemoveCheckTarget
    <3>2. member[m].user \in Users
      BY <3>1 DEF IInv, TypeOK, MemberRow, FreeMember, GoneMember
    <3>3. a \in Args /\ a.mem = m /\ a.ws = arg[r].ws /\ a.doomed = {}
      BY <1>k, <3>1, <3>2 DEF Args
    <3> HIDE DEF a
    <3> QED
      BY <1>8, <3>1, <3>3
  <2> QED
    BY <2>1, <2>2
<1>11. CASE RemoveCheckRecords(r)
  <2>1. CASE Answer(r)
    BY <1>1, <2>1 DEF Answer
  <2>2. CASE ~Answer(r)
    <3>1. Continue(r, "remove.delete", arg[r]) /\ pc[r] = "remove.check"
      BY <1>11, <2>2 DEF RemoveCheckRecords
    <3>2. /\ arg[r].mem \in MemberIds /\ arg[r].doomed = {}
          /\ member[arg[r].mem].st = "live" => member[arg[r].mem].ws = arg[r].ws
      BY <1>5, <1>k, <3>1 DEF Knows, InWorkspace
    <3> QED
      BY <1>8, <1>k, <3>1, <3>2
  <2> QED
    BY <2>1, <2>2
<1>12. CASE LeaveFind(r)
  <2>1. CASE Answer(r)
    BY <1>1, <2>1 DEF Answer
  <2>2. ASSUME NEW m \in MemberIds, IsMemberRow(m, arg[r].ws, arg[r].user),
               Continue(r, "leave.delete", [arg[r] EXCEPT !.mem = m])
        PROVE  InWorkspace(r)'
    <3> DEFINE a == [arg[r] EXCEPT !.mem = m]
    <3>1. arg[r].doomed = {} /\ member[m].ws = arg[r].ws /\ Continue(r, "leave.delete", a)
      BY <1>5, <1>12, <2>2 DEF LeaveFind, IsMemberRow
    <3>2. a \in Args /\ a.mem = m /\ a.ws = arg[r].ws /\ a.doomed = {}
      BY <1>k, <3>1 DEF Args
    <3> HIDE DEF a
    <3> QED
      BY <1>8, <3>1, <3>2
  <2> QED
    BY <1>12, <2>1, <2>2 DEF LeaveFind
<1>13. ASSUME NEW i \in InviteIds, NEW step \in {"cancel.delete", "reject.write"}, NEW a,
              Continue(r, step, a), a.inv = i, a.ws = invite[i].ws, a.doomed = {}
       PROVE  InWorkspace(r)'
  <2>1. pc'[r] = step /\ arg'[r] = a /\ invite' = invite
    BY <1>2, <1>13
  <2> QED
    BY <1>13, <2>1 DEF InWorkspace, InviteExists
<1>14. ASSUME NEW i \in InviteIds, CancelFind(r, i) PROVE InWorkspace(r)'
  <2>1. CASE Answer(r)
    BY <1>1, <2>1 DEF Answer
  <2>2. CASE ~Answer(r)
    <3> DEFINE a == [arg[r] EXCEPT !.inv = i]
    <3>1. Continue(r, "cancel.delete", a) /\ invite[i].ws = arg[r].ws /\ arg[r].doomed = {}
      BY <1>5, <1>14, <2>2 DEF CancelFind, PendingInvite
    <3>2. a.inv = i /\ a.ws = invite[i].ws /\ a.doomed = {}
      BY <1>k, <3>1 DEF Args
    <3> HIDE DEF a
    <3> QED
      BY <1>13, <3>1, <3>2
  <2> QED
    BY <2>1, <2>2
<1>15. CASE validateInvite(r)
  <2> DEFINE i == arg[r].inv
             a == [arg[r] EXCEPT !.ws = invite[i].ws]
  <2>1. CASE Answer(r)
    BY <1>1, <2>1 DEF Answer
  <2>2. i \in InviteIds /\ arg[r].doomed = {} /\ arg[r].ws = Null
    BY <1>5, <1>15, <1>k DEF validateInvite, Knows, OpensInvite, InWorkspace
  <2>3. a.inv = i /\ a.ws = invite[i].ws /\ a.doomed = {}
    BY <1>k, <2>2 DEF Args
  <2>4. CASE Continue(r, "expire", arg[r])
    <3>1. pc'[r] = "expire" /\ arg'[r] = arg[r]
      BY <1>2, <2>4
    <3> QED
      BY <2>2, <3>1 DEF InWorkspace
  <2>5. CASE Continue(r, "accept.member", a)
    BY <1>3, <2>3, <2>5
  <2>6. CASE Continue(r, "reject.write", a)
    <3> HIDE DEF a, i
    <3> QED
      BY <1>13, <2>2, <2>3, <2>6
  <2> QED
    BY <1>15, <2>1, <2>4, <2>5, <2>6 DEF validateInvite
<1>16. CASE \/ DeleteCheckOwner(r) \/ DeleteCount(r) \/ InviteGetWorkspace(r)
            \/ AcceptCheckMember(r) \/ AcceptUpdate(r) \/ AcceptInsert(r) \/ AcceptFind(r)
  <2>1. CASE Answer(r)
    BY <1>1, <2>1 DEF Answer
  <2>2. arg[r].doomed = {}
    BY <1>5, <1>16 DEF DeleteCheckOwner, DeleteCount, InviteGetWorkspace, AcceptCheckMember,
                       AcceptUpdate, AcceptInsert, AcceptFind
  <2>3. ASSUME ~Answer(r)
        PROVE  \E step \in {"delete.count", "delete.tx", "invite.pending", "accept.tx",
                            "accept.insert", "accept.find", "accept.commit"} :
                 Continue(r, step, arg[r])
    BY <1>16, <2>3 DEF DeleteCheckOwner, DeleteCount, InviteGetWorkspace, AcceptCheckMember,
                       AcceptUpdate, AcceptInsert, AcceptFind
  <2> QED
    BY <1>3, <2>1, <2>2, <2>3
<1>17. ASSUME NEW email \in Users, InviteFindPending(r, email) PROVE InWorkspace(r)'
  <2>1. CASE Answer(r)
    BY <1>1, <2>1 DEF Answer
  <2>2. CASE ~Answer(r)
    <3>1. Continue(r, "invite.create", [arg[r] EXCEPT !.target = email]) /\ arg[r].doomed = {}
      BY <1>5, <1>17, <2>2 DEF InviteFindPending
    <3>2. [arg[r] EXCEPT !.target = email].doomed = {}
      BY <1>k, <3>1 DEF Args
    <3> QED
      BY <1>3, <3>1, <3>2
  <2> QED
    BY <2>1, <2>2
<1>18. CASE WritesRows(r) \/ DeleteAccountWrite(r) \/ Fail(r)
  <2>1. Finish(r)
    BY <1>18 DEF WritesRows, DeleteAccountWrite, Fail, Answer, DeleteCommit, UpdateRoleWrite,
                 DeleteMember, CancelDelete, ExpireWrite, RejectWrite, WriteInvite,
                 InviteCreate, AcceptCommit
  <2> QED
    BY <1>1, <2>1
<1> QED
  BY <1>4, <1>6, <1>7, <1>9, <1>10, <1>11, <1>12, <1>14, <1>15, <1>16, <1>17, <1>18
     DEF Handler, WritesRows

LEMMA AllInWorkspaceInv == /\ Init => AllInWorkspace
                           /\ IInv /\ AllInWorkspace /\ [Next]_vars => AllInWorkspace'
<1>1. Init => AllInWorkspace
  BY DEF Init, AllInWorkspace, InWorkspace, NoArgs, MemberWrites
<1>2. ASSUME IInv, AllInWorkspace, Next, NEW q \in Requests PROVE InWorkspace(q)'
  <2>1. RowsStay /\ InWorkspace(q)
    BY <1>2, RowsAlwaysStay DEF AllInWorkspace
  <2>2. CASE pc'[q] = pc[q] /\ arg'[q] = arg[q]
    BY <1>2, <2>1, <2>2, InWorkspaceKept
  <2>3. ASSUME NEW r \in Requests, Start(r) \/ Handler(r), ~(pc'[q] = pc[q] /\ arg'[q] = arg[q])
        PROVE  InWorkspace(q)'
    <3>1. PICK step, a : Goto(r, step, a)
      BY <2>3, Moves
    <3>2. q = r
      BY <1>2, <2>3, <3>1 DEF Goto, IInv, TypeOK
    <3> QED
      BY <1>2, <2>1, <2>3, <3>2, StepInWorkspace
  <2> QED
    BY <1>2, <2>2, <2>3 DEF Next, Create, Lapse
<1>3. IInv /\ AllInWorkspace /\ UNCHANGED vars => AllInWorkspace'
  BY DEF vars, AllInWorkspace, InWorkspace, InviteExists
<1> QED
  BY <1>1, <1>2, <1>3 DEF AllInWorkspace

(* WorkspaceMemberGuard and what the handlers read after it: a request     *)
(* writes rows of the workspace that was guarded, or none, for any number  *)
(* of requests and whatever they do to the rows in the meantime.           *)
THEOREM Contained == Spec => StaysInWorkspace
<1> DEFINE Stays ==
      \A r \in Requests :
        pc[r] \notin {"idle", "guard"} /\ pc'[r] # pc[r] /\ arg[r].ws # Null =>
          /\ \A w \in WorkspaceIds \ {arg[r].ws} : workspace'[w] = workspace[w]
          /\ \A m \in MemberIds :
               member'[m] # member[m]
                 => arg[r].ws = IF member[m].st = "free" THEN member'[m].ws
                                                         ELSE member[m].ws
          /\ \A i \in InviteIds :
               invite'[i] # invite[i]
                 => arg[r].ws = IF invite[i].st = "free" THEN invite'[i].ws
                                                         ELSE invite[i].ws
<1>1. ASSUME IInv, AllInWorkspace, Next PROVE Stays
  <2> SUFFICES ASSUME NEW r \in Requests, pc'[r] # pc[r], arg[r].ws # Null
               PROVE  Within(arg[r].ws)
    BY DEF Within
  <2>1. ASSUME NEW q \in Requests, Start(q) \/ Handler(q) PROVE q = r
    <3>1. PICK step, a : Goto(q, step, a)
      BY <2>1, Moves
    <3> QED
      BY <1>1, <3>1 DEF Goto, IInv, TypeOK
  <2>2. Start(r) \/ Handler(r)
    BY <1>1, <2>1 DEF Next, Create, Lapse
  <2>3. CASE WritesRows(r)
    BY <1>1, <2>3, WriteEffect DEF AllInWorkspace
  <2>4. CASE ~WritesRows(r)
    BY <2>2, <2>4, OthersRead DEF Within
  <2> QED
    BY <2>3, <2>4
<1>2. IInv /\ AllInWorkspace /\ [Next]_vars => [Stays]_vars
  BY <1>1
<1>3. Spec => [][Stays]_vars
  BY <1>2, Invariance, AllInWorkspaceInv, PTL DEF Spec
<1> QED
  BY <1>3 DEF StaysInWorkspace

-----------------------------------------------------------------------------
(* One request at a time: the workspace of an invite is not deleted, as    *)
(* the deletion of a workspace takes all its invites; nor is that of an    *)
(* invite that is being made or accepted.                                  *)
Settled(c) ==
  /\ \A i \in InviteIds : InviteExists(i) => LiveWorkspace(invite[i].ws)
  /\ pc[c] \in {"invite.pending", "invite.create"} \cup Accepting => LiveWorkspace(arg[c].ws)
  /\ pc[c] = "delete.commit" =>
       \A i \in InviteIds : InviteExists(i) /\ invite[i].ws = arg[c].ws => i \in arg[c].doomed

LEMMA SettledReads ==
  ASSUME IInv, NEW c \in Requests, Settled(c), Start(c) \/ Handler(c), ~WritesRows(c)
  PROVE  Settled(c)'
<1> USE DEF Accepting, InAcceptTx
<1>0. UNCHANGED <<workspace, member, invite>>
  BY OthersRead
<1>k. Knows(c) /\ arg[c] \in Args /\ pc[c] \in Steps
  BY DEF IInv, AllKnow, TypeOK
<1>1. ASSUME pc'[c] \notin {"invite.pending", "invite.create", "delete.commit"} \cup Accepting
      PROVE  Settled(c)'
  BY <1>0, <1>1 DEF Settled, LiveWorkspace, InviteExists
<1>2. ASSUME pc'[c] # "delete.commit", LiveWorkspace(arg'[c].ws) PROVE Settled(c)'
  BY <1>0, <1>2 DEF Settled, LiveWorkspace, InviteExists
<1>3. ASSUME NEW step, NEW a, Goto(c, step, a) PROVE pc'[c] = step /\ arg'[c] = a
  BY <1>3 DEF Goto, IInv, TypeOK
<1>4. CASE Finish(c)
  BY <1>1, <1>3, <1>4 DEF Finish
<1>5. CASE UNCHANGED <<pc, arg>>
  BY <1>0, <1>5 DEF Settled, LiveWorkspace, InviteExists
<1>6. CASE Start(c)
  <2>1. ASSUME NEW step \in {"guard", "accept", "reject", "account.delete"}, NEW a, Goto(c, step, a)
        PROVE  Settled(c)'
    BY <1>1, <1>3, <2>1
  <2> QED
    BY <1>5, <1>6, <2>1 DEF Start, Arrive, OpenInvite, DeleteAccountCheck, Continue, vars
<1>7. CASE Guard(c)
  <2>1. ASSUME NEW a, Goto(c, arg[c].op, a) PROVE Settled(c)'
    <3>1. arg[c].op \in Routes
      BY <1>7, <1>k DEF Guard, Knows
    <3> QED
      BY <1>1, <1>3, <2>1, <3>1 DEF Routes
  <2> QED
    BY <1>4, <1>7, <2>1 DEF Guard, Continue, Answer
<1>8. CASE DeleteInvites(c)
  <2> DEFINE doomed == {i \in InviteIds : InviteExists(i) /\ invite[i].ws = arg[c].ws}
             a == [arg[c] EXCEPT !.doomed = doomed]
  <2>1. Goto(c, "delete.commit", a) /\ a.doomed = doomed /\ a.ws = arg[c].ws
    BY <1>8, <1>k DEF DeleteInvites, Continue, Args
  <2>2. pc'[c] = "delete.commit" /\ arg'[c].doomed = doomed /\ arg'[c].ws = arg[c].ws
    BY <1>3, <2>1
  <2>3. \A i \in InviteIds : InviteExists(i) /\ invite[i].ws = arg[c].ws => i \in doomed
    OBVIOUS
  <2> HIDE DEF a, doomed
  <2> QED
    BY <1>0, <2>2, <2>3 DEF Settled, LiveWorkspace, InviteExists
<1>9. CASE validateInvite(c)
  <2> DEFINE i == arg[c].inv
             a == [arg[c] EXCEPT !.ws = invite[i].ws]
  <2>1. CASE Goto(c, "accept.member", a) /\ invite[i].st \in {"PENDING", "EXPIRED"}
    <3>1. i \in InviteIds /\ LiveWorkspace(invite[i].ws)
      BY <1>9, <1>k, <2>1 DEF validateInvite, Knows, OpensInvite, Settled, InviteExists
    <3>2. a.ws = invite[i].ws
      BY <1>k DEF Args
    <3>3. pc'[c] = "accept.member" /\ arg'[c].ws = invite[i].ws
      BY <1>3, <2>1, <3>2
    <3> QED
      BY <1>2, <3>1, <3>3
  <2>2. CASE \E b : Goto(c, "expire", b) \/ Goto(c, "reject.write", b)
    BY <1>1, <1>3, <2>2
  <2> QED
    BY <1>4, <1>9, <2>1, <2>2 DEF validateInvite, Continue, Answer
<1>10. CASE InviteGetWorkspace(c)
  <2>1. CASE LiveWorkspace(arg[c].ws) /\ Goto(c, "invite.pending", arg[c])
    BY <1>2, <1>3, <2>1
  <2> QED
    BY <1>4, <1>10, <2>1 DEF InviteGetWorkspace, Continue, Answer
<1>11. ASSUME NEW email \in Users, InviteFindPending(c, email) PROVE Settled(c)'
  <2> DEFINE a == [arg[c] EXCEPT !.target = email]
  <2>1. CASE Goto(c, "invite.create", a)
    <3>1. a.ws = arg[c].ws /\ LiveWorkspace(arg[c].ws)
      BY <1>11, <1>k DEF Args, InviteFindPending, Settled
    <3> QED
      BY <1>2, <1>3, <2>1, <3>1
  <2> QED
    BY <1>4, <1>11, <2>1 DEF InviteFindPending, Continue, Answer
<1>12. CASE AcceptCheckMember(c) \/ AcceptUpdate(c) \/ AcceptInsert(c) \/ AcceptFind(c)
  <2>1. LiveWorkspace(arg[c].ws)
    BY <1>12 DEF AcceptCheckMember, AcceptUpdate, AcceptInsert, AcceptFind, Settled
  <2>2. ASSUME NEW step \in Accepting, Goto(c, step, arg[c]) PROVE Settled(c)'
    BY <1>2, <1>3, <2>1, <2>2
  <2> QED
    BY <1>4, <1>12, <2>2 DEF AcceptCheckMember, AcceptUpdate, AcceptInsert, AcceptFind,
                             Continue, Answer
<1>13. CASE DeleteCheckOwner(c) \/ DeleteCount(c) \/ RemoveCheckRecords(c) \/ LeaveFind(c)
  <2>1. ASSUME NEW step \in {"delete.count", "delete.tx", "remove.delete", "leave.delete"}, NEW a,
               Goto(c, step, a)
        PROVE  Settled(c)'
    BY <1>1, <1>3, <2>1
  <2> QED
    BY <1>4, <1>13, <2>1 DEF DeleteCheckOwner, DeleteCount, RemoveCheckRecords, LeaveFind,
                             Continue, Answer
<1>14. ASSUME NEW m \in MemberIds, RemoveCheckTarget(c, m) \/ \E role \in GivenRoles : UpdateRoleCheck(c, m, role)
       PROVE  Settled(c)'
  <2>1. ASSUME NEW step \in {"remove.check", "updateRole.write"}, NEW a, Goto(c, step, a)
        PROVE  Settled(c)'
    BY <1>1, <1>3, <2>1
  <2> QED
    BY <1>4, <1>14, <2>1 DEF RemoveCheckTarget, UpdateRoleCheck, Continue, Answer
<1>15. ASSUME NEW i \in InviteIds, CancelFind(c, i) PROVE Settled(c)'
  <2>1. ASSUME NEW a, Goto(c, "cancel.delete", a) PROVE Settled(c)'
    BY <1>1, <1>3, <2>1
  <2> QED
    BY <1>4, <1>15, <2>1 DEF CancelFind, Continue, Answer
<1>16. CASE DeleteAccountWrite(c) \/ Fail(c)
  BY <1>4, <1>16 DEF DeleteAccountWrite, Fail, Answer
<1> QED
  BY <1>6, <1>7, <1>8, <1>9, <1>10, <1>11, <1>12, <1>13, <1>14, <1>15, <1>16 DEF Handler, WritesRows

LEMMA SettledWrites ==
  ASSUME IInv, AllInWorkspace, NEW c \in Requests, Settled(c), WritesRows(c)
  PROVE  Settled(c)'
<1>1. pc'[c] = "idle"
  BY DEF WritesRows, Answer, DeleteCommit, UpdateRoleWrite, DeleteMember, CancelDelete,
         ExpireWrite, RejectWrite, WriteInvite, InviteCreate, AcceptCommit, Finish, Goto,
         IInv, TypeOK
<1>2. RowsStay
  BY WriteEffect DEF AllInWorkspace
<1>k. Knows(c)
  BY DEF IInv, AllKnow
<1>3. ASSUME NEW i \in InviteIds, InviteExists(i)' PROVE workspace'[invite'[i].ws].st = "live"
  <2>1. ASSUME InviteExists(i) PROVE invite'[i].ws = invite[i].ws /\ LiveWorkspace(invite[i].ws)
    BY <1>2, <1>3, <2>1 DEF RowsStay, Settled, InviteExists
  <2>2. CASE DeleteCommit(c)
    <3>1. i \notin arg[c].doomed /\ InviteExists(i)
      BY <1>3, <2>2 DEF DeleteCommit, InviteExists, GoneInvite, FreeInvite
    <3>2. invite[i].ws # arg[c].ws
      BY <2>2, <3>1 DEF Settled, DeleteCommit
    <3>3. \A v \in WorkspaceIds \ {arg[c].ws} : workspace'[v] = workspace[v]
      BY <2>2 DEF DeleteCommit, IInv, TypeOK
    <3>4. invite[i].ws \in WorkspaceIds
      BY <3>1 DEF IInv, TypeOK, InviteExists, InviteRow, FreeInvite, GoneInvite
    <3> QED
      BY <2>1, <3>1, <3>2, <3>3, <3>4 DEF LiveWorkspace
  <2>3. ASSUME NEW j \in InviteIds, NEW role \in GivenRoles, InviteCreate(c, j, role)
        PROVE  workspace'[invite'[i].ws].st = "live"
    <3>1. CASE i = j
      <4>1. invite'[i].ws = arg[c].ws /\ LiveWorkspace(arg[c].ws) /\ workspace' = workspace
        BY <2>3, <3>1 DEF InviteCreate, IInv, TypeOK, Settled
      <4> QED
        BY <4>1 DEF LiveWorkspace
    <3>2. CASE i # j
      <4>1. invite'[i] = invite[i] /\ workspace' = workspace
        BY <2>3, <3>2 DEF InviteCreate, IInv, TypeOK
      <4> QED
        BY <1>3, <2>1, <4>1 DEF LiveWorkspace, InviteExists
    <3> QED
      BY <3>1, <3>2
  <2>4. CASE ~DeleteCommit(c) /\ \A j \in InviteIds, role \in GivenRoles : ~InviteCreate(c, j, role)
    <3>1. workspace' = workspace
      BY <2>4 DEF WritesRows, UpdateRoleWrite, DeleteMember, CancelDelete, ExpireWrite,
                  RejectWrite, WriteInvite, AcceptCommit, Answer, tables
    <3>2. InviteExists(i)
      <4>1. CASE invite' = invite
        BY <1>3, <4>1 DEF InviteExists
      <4>2. CASE invite[i].st # "free"
        BY <1>2, <1>3, <4>2 DEF RowsStay
      <4>3. CASE invite' # invite /\ invite[i].st = "free"
        <5>1. arg[c].inv \in InviteIds /\ InviteExists(arg[c].inv)
          BY <1>k, <2>4, <4>3 DEF WritesRows, UpdateRoleWrite, DeleteMember, CancelDelete,
             ExpireWrite, RejectWrite, WriteInvite, AcceptCommit, Answer, tables, Knows,
             OpensInvite, Accepting, InAcceptTx
        <5>2. i # arg[c].inv
          BY <4>3, <5>1 DEF InviteExists
        <5>3. invite'[i] = invite[i]
          BY <2>4, <4>3, <5>1, <5>2 DEF WritesRows, UpdateRoleWrite, DeleteMember, CancelDelete,
             ExpireWrite, RejectWrite, WriteInvite, AcceptCommit, Answer, tables, IInv, TypeOK
        <5> QED
          BY <1>3, <5>3 DEF InviteExists
      <4> QED
        BY <4>1, <4>2, <4>3
    <3> QED
      BY <2>1, <3>1, <3>2 DEF LiveWorkspace
  <2> QED
    BY <2>2, <2>3, <2>4
<1> QED
  BY <1>1, <1>3 DEF Settled, LiveWorkspace, Accepting, InAcceptTx

LEMMA SettledStays ==
  ASSUME NEW c \in Requests, Requests = {c}
  PROVE  /\ Init => Settled(c)
         /\ IInv /\ AllInWorkspace /\ Settled(c) /\ [Next]_vars => Settled(c)'
<1>1. Init => Settled(c)
  BY DEF Init, Settled, InviteExists, FreeInvite, Accepting, InAcceptTx
<1>2. ASSUME IInv, AllInWorkspace, Settled(c), Next PROVE Settled(c)'
  <2>1. ASSUME NEW u \in Users, NEW w \in WorkspaceIds, NEW m \in MemberIds, Create(u, w, m)
        PROVE  Settled(c)'
    <3>1. /\ workspace'[w].st = "live" /\ UNCHANGED <<invite, pc, arg>>
          /\ \A v \in WorkspaceIds \ {w} : workspace'[v] = workspace[v]
      BY <1>2, <2>1 DEF Create, IInv, TypeOK
    <3>2. \A i \in InviteIds : InviteExists(i) => invite[i].ws \in WorkspaceIds
      BY <1>2 DEF IInv, TypeOK, InviteExists, InviteRow, FreeInvite, GoneInvite
    <3>3. pc[c] \in {"invite.pending", "invite.create"} \cup Accepting => arg[c].ws \in WorkspaceIds
      <4>1. Knows(c)
        BY <1>2 DEF IInv, AllKnow
      <4> QED
        BY <4>1 DEF Knows, Guarded, Steps, OpensInvite, Accepting, InAcceptTx
    <3> QED
      BY <1>2, <3>1, <3>2, <3>3 DEF Settled, LiveWorkspace, InviteExists
  <2>2. ASSUME NEW i \in InviteIds, Lapse(i) PROVE Settled(c)'
    <3>1. /\ invite[i].st \in {"PENDING", "EXPIRED"} /\ UNCHANGED <<workspace, pc, arg>>
          /\ invite' = [invite EXCEPT ![i].lapsed = TRUE]
      BY <2>2 DEF Lapse
    <3>2. invite[i] \in InviteRow
      BY <1>2, <3>1 DEF IInv, TypeOK, FreeInvite, GoneInvite
    <3>3. \A j \in InviteIds : invite'[j].st = invite[j].st /\ invite'[j].ws = invite[j].ws
      BY <1>2, <3>1, <3>2 DEF IInv, TypeOK, InviteRow
    <3> QED
      BY <1>2, <3>1, <3>3 DEF Settled, LiveWorkspace, InviteExists
  <2> QED
    BY <1>2, <2>1, <2>2, SettledReads, SettledWrites DEF Next
<1>3. Settled(c) /\ UNCHANGED vars => Settled(c)'
  BY DEF vars, Settled, LiveWorkspace, InviteExists
<1> QED
  BY <1>1, <1>2, <1>3

(* acceptInvite, one request at a time: `workspace!.id` is never that of   *)
(* no row.  (Of two, one may make an invite while the other deletes.)      *)
THEOREM AcceptFinds ==
  ASSUME NEW c, Requests = {c}
  PROVE  Spec => []AcceptFindsWorkspace
<1>1. Settled(c) => AcceptFindsWorkspace
  BY DEF Settled, AcceptFindsWorkspace, Accepting, InAcceptTx
<1>2. /\ Init => Settled(c)
      /\ IInv /\ AllInWorkspace /\ Settled(c) /\ [Next]_vars => Settled(c)'
  BY SettledStays
<1> HIDE DEF Settled
<1> QED
  BY <1>1, <1>2, Invariance, AllInWorkspaceInv, PTL DEF Spec
=============================================================================
