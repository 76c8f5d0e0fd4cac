---------------------------- MODULE MCWorkspaces ----------------------------
(* Workspaces on small sets of model values.  The ids are interchangeable, *)
(* and so are the accounts and the requests.                               *)
EXTENDS Workspaces, TLC

MCSymmetry ==
  Permutations(Users) \cup Permutations(WorkspaceIds) \cup
  Permutations(MemberIds) \cup Permutations(InviteIds) \cup
  Permutations(Requests)

=============================================================================
