-------------------------- MODULE MCConversations --------------------------
(* One conversation, for TLC. *)
EXTENDS Conversations, TLC

MCSymmetry == Permutations(Requests)

=============================================================================
