----------------------------- MODULE MountedSet -----------------------------
(***************************************************************************)
(* What the tires of a vehicle promise: "a vehicle can only have one       *)
(* mounted set at a time" (tires.service.ts:129).  A vehicle has nothing   *)
(* mounted, or one tire row (a set of tires), which is mounted nowhere     *)
(* else; a step changes one vehicle.                                       *)
(***************************************************************************)
CONSTANTS Vehicles, Tires

VARIABLE mounted  \* what is mounted on each vehicle

Init == mounted = [v \in Vehicles |-> {}]

Mount(v, t) ==
  /\ \A w \in Vehicles \ {v} : t \notin mounted[w]
  /\ mounted' = [mounted EXCEPT ![v] = {t}]

Unmount(v) == mounted' = [mounted EXCEPT ![v] = {}]

Next == \E v \in Vehicles : Unmount(v) \/ \E t \in Tires : Mount(v, t)

Spec == Init /\ [][Next]_mounted

=============================================================================
