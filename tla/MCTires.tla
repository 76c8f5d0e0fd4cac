------------------------------ MODULE MCTires ------------------------------
(* Instances of Tires.  All ids are interchangeable.                       *)
EXTENDS Tires, TLC

MCSymmetry ==
  Permutations(Requests) \cup Permutations(TireIds) \cup Permutations(VehicleIds)

=============================================================================
