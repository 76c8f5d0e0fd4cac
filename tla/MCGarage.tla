------------------------------ MODULE MCGarage -------------------------------
(* An instance of Garage.  Requests, TireIds and RowIds are sets of model  *)
(* values, interchangeable in every part that uses them; what is not, in   *)
(* some part or other, is a string.                                        *)
EXTENDS Garage, TLC

(* A .cfg has no negative numbers. *)
MCMinTotal == -1

MCSymmetry == Permutations(Requests) \cup Permutations(TireIds) \cup Permutations(RowIds)

=============================================================================
