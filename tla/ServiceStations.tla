-------------------------- MODULE ServiceStations --------------------------
(***************************************************************************)
(* A user's list of service stations, as src/modules/service-stations      *)
(* changes it: every handler checks that the station is the user's own and *)
(* then writes, without a transaction.  The visits of a station are part   *)
(* of module Timeline.                                                     *)
(***************************************************************************)
EXTENDS Integers, FiniteSets

CONSTANTS
  Users,       \* owners of stations
  StationIds,  \* ids of service_stations rows
  Places,      \* Google place ids
  Requests,    \* HTTP requests that can be in flight together
  Null         \* no value: also a station that is no Google place

(* What the module asks of its constants. *)
ConstantsAssumption == Null \notin Users \cup StationIds \cup Places

VARIABLES
  station,  \* table service_stations
  toggles,  \* how often each station was toggled with success, mod 2: history
  met,      \* stations two toggles of which met: history
  pc, arg

vars == <<station, toggles, met, pc, arg>>

FreeStation == [st |-> "free", user |-> Null, place |-> Null, favorite |-> FALSE]
GoneStation == [FreeStation EXCEPT !.st = "gone"]
Station == [st : {"live"}, user : Users, place : Places \cup {Null}, favorite : BOOLEAN]

NoArgs == [user |-> Null, station |-> Null, place |-> Null, favorite |-> FALSE]

TypeOK ==
  /\ station \in [StationIds -> {FreeStation, GoneStation} \cup Station]
  /\ toggles \in [StationIds -> 0..1] /\ met \subseteq StationIds
  /\ pc \in [Requests -> {"idle", "insert", "update", "toggle", "delete"}]
  /\ arg \in [Requests -> [user : Users \cup {Null}, station : StationIds \cup {Null},
                           place : Places \cup {Null}, favorite : BOOLEAN]]

Init ==
  /\ station = [i \in StationIds |-> FreeStation]
  /\ toggles = [i \in StationIds |-> 0] /\ met = {}
  /\ pc = [r \in Requests |-> "idle"] /\ arg = [r \in Requests |-> NoArgs]

Goto(r, step, a) ==
  /\ pc' = [pc EXCEPT ![r] = step]
  /\ arg' = [arg EXCEPT ![r] = a]
Finish(r) == Goto(r, "idle", NoArgs)

Toggling(i) == {r \in Requests : pc[r] = "toggle" /\ arg[r].station = i}

(* create: the unique index on user and place, which null never matches,   *)
(* answers for it.                                                         *)
OpenCreate(r, u, place) ==
  /\ pc[r] = "idle"
  /\ Goto(r, "insert", [NoArgs EXCEPT !.user = u, !.place = place])
  /\ UNCHANGED <<station, toggles, met>>

Insert(r) ==
  /\ pc[r] = "insert"
  /\ \/ arg[r].place = Null
     \/ \A i \in StationIds : <<station[i].user, station[i].place>> # <<arg[r].user, arg[r].place>>
  /\ \E i \in StationIds :
       /\ station[i].st = "free"
       /\ station' = [station EXCEPT ![i] = [st |-> "live", user |-> arg[r].user,
                                             place |-> arg[r].place, favorite |-> FALSE]]
  /\ Finish(r)
  /\ UNCHANGED <<toggles, met>>

(* assertOwnership *)
Owns(u, i) == station[i].st = "live" /\ station[i].user = u

OpenUpdate(r, u, i) ==
  /\ pc[r] = "idle" /\ Owns(u, i)
  /\ Goto(r, "update", [NoArgs EXCEPT !.user = u, !.station = i])
  /\ UNCHANGED <<station, toggles, met>>

(* update sends neither the place nor the flag. *)
Update(r) ==
  /\ pc[r] = "update"
  /\ station[arg[r].station].st = "live"
  /\ Finish(r)
  /\ UNCHANGED <<station, toggles, met>>

(* toggleFavorite: the negation of what was read. *)
OpenToggle(r, u, i) ==
  /\ pc[r] = "idle" /\ Owns(u, i)
  /\ Goto(r, "toggle", [NoArgs EXCEPT !.user = u, !.station = i,
                                      !.favorite = ~station[i].favorite])
  /\ met' = IF Toggling(i) = {} THEN met ELSE met \cup {i}
  /\ UNCHANGED <<station, toggles>>

ToggleOn(r) ==  \* mutant: always sets the flag
  LET i == arg[r].station IN
  /\ pc[r] = "toggle"
  /\ station[i].st = "live"
  /\ station' = [station EXCEPT ![i].favorite = TRUE]
  /\ toggles' = [toggles EXCEPT ![i] = 1 - @]
  /\ Finish(r)
  /\ UNCHANGED met

Toggle(r) ==
  LET i == arg[r].station IN
  /\ pc[r] = "toggle"
  /\ station[i].st = "live"
  /\ station' = [station EXCEPT ![i].favorite = arg[r].favorite]
  /\ toggles' = [toggles EXCEPT ![i] = 1 - @]
  /\ Finish(r)
  /\ UNCHANGED met

OpenDelete(r, u, i) ==
  /\ pc[r] = "idle" /\ Owns(u, i)
  /\ Goto(r, "delete", [NoArgs EXCEPT !.user = u, !.station = i])
  /\ UNCHANGED <<station, toggles, met>>

Delete(r) ==
  /\ pc[r] = "delete"
  /\ station[arg[r].station].st = "live"
  /\ station' = [station EXCEPT ![arg[r].station] = GoneStation]
  /\ Finish(r)
  /\ UNCHANGED <<toggles, met>>

(* An await throws: the station is gone, the index refuses, or the         *)
(* database fails.                                                         *)
Fail(r) ==
  /\ pc[r] # "idle"
  /\ Finish(r)
  /\ UNCHANGED <<station, toggles, met>>

(* The routes of the controller *)
Open(r) ==
  \E u \in Users :
    \/ \E place \in Places \cup {Null} : OpenCreate(r, u, place)
    \/ \E i \in StationIds : OpenUpdate(r, u, i) \/ OpenToggle(r, u, i) \/ OpenDelete(r, u, i)

Next ==
  \E r \in Requests :
    Open(r) \/ Insert(r) \/ Update(r) \/ Toggle(r) \/ Delete(r) \/ Fail(r)

Spec == Init /\ [][Next]_vars

-----------------------------------------------------------------------------
(* The star of a station follows the number of clicks, as long as no two   *)
(* clicks overlap: each writes the negation of a value it read before.     *)
ToggledInStep ==
  \A i \in StationIds \ met :
    station[i].st = "live" => (station[i].favorite <=> toggles[i] = 1)

=============================================================================
