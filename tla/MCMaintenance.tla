--------------------------- MODULE MCMaintenance ---------------------------
(* Instances of Maintenance.  Requests, intervals and reminders are        *)
(* interchangeable wherever no liveness is checked.                        *)
EXTENDS Maintenance, TLC

MCSymmetry ==
  Permutations(Requests) \cup Permutations(IntervalIds) \cup Permutations(ReminderIds)

=============================================================================
