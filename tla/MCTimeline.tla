----------------------------- MODULE MCTimeline -----------------------------
(* Instances of Timeline for TLC. *)
EXTENDS Timeline, TLC

(* Only ids that no action orders or names are permuted. *)
MCSymmetry == Permutations(EventIds) \cup Permutations(Stations) \cup Permutations(Requests)

=============================================================================
