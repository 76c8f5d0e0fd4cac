-------------------------- MODULE Services_proofs ---------------------------
(***************************************************************************)
(* What the services of module Services keep, for any values of their      *)
(* constants.  Each part has an inductive invariant of its own, of which   *)
(* its section says why it is needed; that a step of one part leaves the   *)
(* others alone makes them invariants of ServicesSpec, at the end.         *)
(*                                                                         *)
(* The map of AuthRateLimitGuard comes first: it keeps, for every key, the *)
(* promise of RateWindow.  An entry that carries a block was counted past  *)
(* the limit, its block lasts at least as long as its window, and an entry *)
(* without one was never counted past the limit.                           *)
(***************************************************************************)
EXTENDS Services, Sequences, FiniteSetTheorems, SequenceTheorems, WellFoundedInduction, TLAPS

EntryInv(e) ==
  /\ e.started <= clock
  /\ e.until = 0 => e.count <= Limit
  /\ e.until # 0 => e.count = Limit + 1 /\ e.started + Window <= e.until

WindowInv == TypeOK /\ \A k \in Keys : attempts[k] # NoEntry => EntryInv(attempts[k])

-----------------------------------------------------------------------------
LEMMA WindowInitInv == Init => WindowInv
BY LimitsAssumption DEF Init, WindowInv, TypeOK

(* What a request starts from: an entry that is not blocked has no block,  *)
(* if its window still lasts.                                              *)
LEMMA CurrentEntry ==
  ASSUME WindowInv, NEW k \in Keys, ~Blocked(attempts[k])
  PROVE  /\ Current(k).count \in 0..Limit /\ Current(k).until = 0
         /\ Current(k).started \in 0..MaxNow /\ Current(k).started <= clock
         /\ clock - Current(k).started < Window
         /\ Counted(k) = [count |-> Current(k).count + 1,
                          started |-> Current(k).started, until |-> 0]
<1>1. CASE InWindow(attempts[k])
  <2>1. attempts[k] \in Entry /\ EntryInv(attempts[k]) /\ clock - attempts[k].started < Window
    BY <1>1 DEF WindowInv, TypeOK, InWindow
  <2>2. attempts[k].until = 0
    BY <2>1, LimitsAssumption DEF EntryInv, Entry, Blocked, WindowInv, TypeOK
  <2> QED
    BY <1>1, <2>1, <2>2, LimitsAssumption DEF Current, Counted, EntryInv, Entry
<1>2. CASE ~InWindow(attempts[k])
  BY <1>2, LimitsAssumption DEF Current, Counted, WindowInv, TypeOK
<1> QED
  BY <1>1, <1>2

LEMMA AllowInv == ASSUME WindowInv, NEW k \in Keys, Allow(k) PROVE WindowInv'
<1>1. /\ Counted(k) \in Entry /\ EntryInv(Counted(k))
      /\ clock' = clock /\ attempts' = Swept([attempts EXCEPT ![k] = Counted(k)])
  BY CurrentEntry, LimitsAssumption DEF Allow, Entry, EntryInv
<1>2. \A j \in Keys : attempts'[j] \in {NoEntry, attempts[j], Counted(k)}
                      /\ (attempts'[j] # NoEntry => EntryInv(attempts'[j]))
  BY <1>1 DEF Swept, WindowInv, TypeOK
<1>3. attempts' \in [Keys -> Entry \cup {NoEntry}]
  BY <1>1 DEF Swept, WindowInv, TypeOK
<1> QED
  BY <1>1, <1>2, <1>3 DEF WindowInv, TypeOK, EntryInv

(* Only a request past a full window is refused. *)
LEMMA RefusedEntry ==
  ASSUME WindowInv, NEW k \in Keys, Refuse(k)
  PROVE  /\ InWindow(attempts[k]) /\ attempts[k].count = Limit
         /\ attempts' = [attempts EXCEPT ![k] =
              [count |-> Limit + 1, started |-> attempts[k].started,
               until |-> clock + Block]]
<1>1. Current(k).count = Limit
  BY CurrentEntry, LimitsAssumption DEF Refuse
<1>2. InWindow(attempts[k]) /\ Current(k) = attempts[k]
  BY <1>1, LimitsAssumption DEF Current
<1>3. Counted(k) = [count |-> Limit + 1, started |-> attempts[k].started, until |-> 0]
  BY <1>1, <1>2, CurrentEntry DEF Refuse
<1>4. [Counted(k) EXCEPT !.until = clock + Block]
        = [count |-> Limit + 1, started |-> attempts[k].started, until |-> clock + Block]
  BY <1>3
<1> QED
  BY <1>1, <1>2, <1>4 DEF Refuse

LEMMA RefuseInv == ASSUME WindowInv, NEW k \in Keys, Refuse(k) PROVE WindowInv'
<1>1. /\ attempts[k] \in Entry /\ EntryInv(attempts[k]) /\ clock' = clock
      /\ clock \in 0..MaxNow
  BY RefusedEntry DEF Refuse, InWindow, WindowInv, TypeOK
<1>2. attempts'[k] \in Entry /\ EntryInv(attempts'[k])
  BY <1>1, RefusedEntry, LimitsAssumption DEF Entry, EntryInv, WindowInv, TypeOK
<1>3. attempts' \in [Keys -> Entry \cup {NoEntry}]
  BY <1>2, RefusedEntry DEF WindowInv, TypeOK
<1> QED
  BY <1>1, <1>2, <1>3, RefusedEntry DEF WindowInv, TypeOK, EntryInv

LEMMA WindowTickInv == ASSUME WindowInv, Tick PROVE WindowInv'
<1>1. clock \in 0..MaxNow /\ clock' = clock + 1 /\ clock' \in 0..MaxNow /\ attempts' = attempts
  BY LimitsAssumption DEF WindowInv, TypeOK, Tick
<1>2. \A k \in Keys : attempts[k] \in Entry \cup {NoEntry}
  BY DEF WindowInv, TypeOK
<1> QED
  BY <1>1, <1>2 DEF WindowInv, TypeOK, EntryInv, Entry

LEMMA WindowStepInv == WindowInv /\ [Next]_vars => WindowInv'
<1> SUFFICES ASSUME WindowInv, [Next]_vars PROVE WindowInv'
  OBVIOUS
<1>1. CASE UNCHANGED vars
  BY <1>1 DEF vars, WindowInv, TypeOK, EntryInv
<1>2. CASE Tick
  BY <1>2, WindowTickInv
<1>3. ASSUME NEW k \in Keys, Allow(k) \/ Refuse(k) \/ RefuseBlocked(k) PROVE WindowInv'
  BY <1>1, <1>3, AllowInv, RefuseInv DEF RefuseBlocked
<1> QED
  BY <1>1, <1>2, <1>3 DEF Next

LEMMA WindowInductive == Spec => []WindowInv
BY WindowInitInv, WindowStepInv, PTL DEF Spec

(* The map holds counts up to one past the limit, from the past.           *)
THEOREM TypeCorrect == Spec => []TypeOK
<1>1. WindowInv => TypeOK
  BY DEF WindowInv
<1> QED
  BY <1>1, WindowInductive, PTL

-----------------------------------------------------------------------------
(* The promise *)

quotas == [k \in Keys |-> Quota(attempts[k])]

LEMMA QuotaOfNone == ASSUME clock \in Nat PROVE Quota(NoEntry) = Promise!Idle
BY DEF Quota, Blocked, InWindow, NoEntry, Promise!Idle

(* The sweep takes only entries that no longer count. *)
LEMMA SweptIsIdle ==
  ASSUME WindowInv, NEW k \in Keys, NEW e \in Entry \cup {NoEntry}, ~Blocked(e),
         clock - e.started > Retention
  PROVE  Quota(e) = Promise!Idle
BY LimitsAssumption DEF Quota, InWindow, Promise!Idle, WindowInv, TypeOK, Entry, NoEntry

LEMMA AllowPromise ==
  ASSUME WindowInv, NEW k \in Keys, Allow(k)
  PROVE  Promise!Opens(k) \/ Promise!Counts(k)
<1> DEFINE e == Counted(k)
<1>1. /\ e \in Entry /\ e.until = 0 /\ e.count = Current(k).count + 1
      /\ e.started = Current(k).started /\ clock - e.started < Window
      /\ clock' = clock /\ clock \in Nat
  BY CurrentEntry, LimitsAssumption DEF Allow, Entry, WindowInv, TypeOK
<1>2. e # NoEntry
  BY <1>1 DEF Entry, NoEntry
<1>3. attempts'[k] = e
  BY <1>1, LimitsAssumption DEF Allow, Swept, Entry, WindowInv, TypeOK
<1>4. Quota(attempts[k])' = [used |-> e.count, left |-> e.started + Window - clock]
  BY <1>1, <1>2, <1>3 DEF Quota, Blocked, InWindow
<1>5. ASSUME NEW j \in Keys \ {k} PROVE Quota(attempts[j])' = Quota(attempts[j])
  <2>1. CASE attempts'[j] = attempts[j]
    BY <2>1, <1>1 DEF Quota, Blocked, InWindow
  <2>2. CASE attempts'[j] # attempts[j]
    <3>1. /\ attempts'[j] = NoEntry /\ ~Blocked(attempts[j])
          /\ clock - attempts[j].started > Retention
      BY <2>2 DEF Allow, Swept, WindowInv, TypeOK
    <3>2. Quota(attempts[j]) = Promise!Idle
      BY <3>1, SweptIsIdle DEF WindowInv, TypeOK
    <3>3. Quota(attempts[j])' = Promise!Idle
      BY <3>1, <1>1 DEF Quota, Blocked, InWindow, NoEntry, Promise!Idle
    <3> QED
      BY <3>2, <3>3
  <2> QED
    BY <2>1, <2>2
<1>6. CASE InWindow(attempts[k])
  <2>1. /\ attempts[k] = Current(k) /\ attempts[k].count \in 1..(Limit - 1)
        /\ e.count = attempts[k].count + 1 /\ e.started = attempts[k].started
    BY <1>1, <1>6, CurrentEntry, LimitsAssumption
       DEF Current, Allow, InWindow, WindowInv, TypeOK, Entry
  <2>2. Quota(attempts[k]) = [used |-> attempts[k].count,
                              left |-> e.started + Window - clock]
    BY <1>6, <2>1 DEF Allow, Quota
  <2>3. Quota(attempts[k])' = [Quota(attempts[k]) EXCEPT !.used = @ + 1]
    BY <1>4, <2>1, <2>2
  <2>4. quotas' = [quotas EXCEPT ![k] = [Quota(attempts[k]) EXCEPT !.used = @ + 1]]
    BY <1>5, <2>3 DEF quotas
  <2>5. quotas' = [quotas EXCEPT ![k].used = @ + 1]
    BY <2>4 DEF quotas
  <2> QED
    BY <2>1, <2>2, <2>5 DEF Promise!Counts, quotas
<1>7. CASE ~InWindow(attempts[k])
  <2>1. e.count = 1 /\ e.started = clock
    BY <1>1, <1>7 DEF Current
  <2>2. Quota(attempts[k]) = Promise!Idle
    BY <1>7 DEF Allow, Quota, Promise!Idle
  <2>3. Quota(attempts[k])' = [used |-> 1, left |-> Window]
    BY <1>4, <2>1, <1>1, LimitsAssumption
  <2> QED
    BY <1>5, <2>2, <2>3 DEF Promise!Opens, quotas
<1> QED
  BY <1>6, <1>7

LEMMA RefusePromise ==
  ASSUME WindowInv, NEW k \in Keys, Refuse(k)
  PROVE  Promise!Blocks(k)
<1>1. /\ clock \in Nat /\ clock' = clock /\ attempts'[k].until = clock + Block
      /\ \A j \in Keys \ {k} : attempts'[j] = attempts[j]
  BY RefusedEntry DEF Refuse, WindowInv, TypeOK
<1>2. Quota(attempts[k]).used = Limit
  BY RefusedEntry DEF Refuse, Quota
<1>3. Quota(attempts[k])' = [used |-> Limit + 1, left |-> Block]
  BY <1>1, LimitsAssumption DEF Quota, Blocked
<1>4. \A j \in Keys \ {k} : Quota(attempts[j])' = Quota(attempts[j])
  BY <1>1 DEF Quota, Blocked, InWindow
<1> QED
  BY <1>2, <1>3, <1>4 DEF Promise!Blocks, quotas

(* Time passes alike for what is counted and for what is promised. *)
LEMMA TickPromise == ASSUME WindowInv, Tick PROVE Promise!Passes
<1>1. clock \in Nat /\ clock' = clock + 1 /\ attempts' = attempts
  BY DEF WindowInv, TypeOK, Tick
<1>2. ASSUME NEW k \in Keys
      PROVE  Quota(attempts[k])' =
               IF Quota(attempts[k]).left <= 1 THEN Promise!Idle
               ELSE [Quota(attempts[k]) EXCEPT !.left = @ - 1]
  <2> DEFINE e == attempts[k]
  <2>1. CASE e = NoEntry
    BY <1>1, <2>1 DEF Quota, Blocked, InWindow, NoEntry, Promise!Idle
  <2>2. CASE e # NoEntry
    <3>1. e \in Entry /\ EntryInv(e) /\ e' = e
      BY <1>1, <2>2 DEF WindowInv, TypeOK
    <3>2. CASE e.until > clock + 1
      BY <1>1, <3>1, <3>2 DEF Quota, Blocked, Entry
    <3>3. CASE e.until = clock + 1
      BY <1>1, <2>2, <3>1, <3>3, LimitsAssumption
         DEF Quota, Blocked, InWindow, Entry, EntryInv, Promise!Idle
    <3>4. CASE e.until <= clock
      BY <1>1, <2>2, <3>1, <3>4, LimitsAssumption
         DEF Quota, Blocked, InWindow, Entry, EntryInv, Promise!Idle
    <3> QED
      BY <1>1, <3>1, <3>2, <3>3, <3>4 DEF Entry
  <2> QED
    BY <2>1, <2>2
<1> QED
  BY <1>2 DEF Promise!Passes, quotas

(* Whatever is forgotten, whenever the clock ticks: of every key the guard *)
(* lets through Limit requests of a window, then nothing for the length of *)
(* the block, then a new window.                                           *)
THEOREM Refinement == Spec => ImplementsWindow
<1>1. Init => Promise!Init
  BY QuotaOfNone DEF Init, Promise!Init
<1>2. WindowInv /\ [Next]_vars => [Promise!Next]_quotas
  <2> SUFFICES ASSUME WindowInv, [Next]_vars PROVE Promise!Next \/ UNCHANGED quotas
    OBVIOUS
  <2>1. CASE UNCHANGED vars
    BY <2>1 DEF vars, quotas, Quota, Blocked, InWindow
  <2>2. CASE Tick
    BY <2>2, TickPromise DEF Promise!Next
  <2>3. ASSUME NEW k \in Keys, Allow(k) \/ Refuse(k) \/ RefuseBlocked(k)
        PROVE  Promise!Next \/ UNCHANGED quotas
    BY <2>1, <2>3, AllowPromise, RefusePromise DEF RefuseBlocked, Promise!Next
  <2> QED
    BY <2>1, <2>2, <2>3 DEF Next
<1> QED
  BY <1>1, <1>2, WindowInductive, PTL DEF Spec, ImplementsWindow, Promise!Spec, quotas

-----------------------------------------------------------------------------
(* Favourite stations *)

LEMMA StationAssumption == St!ConstantsAssumption
BY ServicesAssumption

(* A toggle that met no other is alone at its station, and will write the  *)
(* negation of what is still there.                                        *)
StationInStep(i) ==
  /\ station[i].st = "free" => toggles[i] = 0 /\ St!Toggling(i) = {}
  /\ i \notin stationMet =>
       /\ \A q, r \in St!Toggling(i) : q = r
       /\ station[i].st = "live" =>
            /\ station[i].favorite <=> toggles[i] = 1
            /\ \A r \in St!Toggling(i) : stationArg[r].favorite <=> ~station[i].favorite

(* Whoever is past its first read names a station that is, or was, there. *)
StationNamed(r) ==
  /\ stationPc[r] \in {"update", "toggle", "delete"} =>
       stationArg[r].station \in StationIds /\ station[stationArg[r].station].st # "free"
  /\ stationPc[r] = "insert" => stationArg[r].user \in Owners

StationInv ==
  /\ St!TypeOK
  /\ \A r \in Requests : StationNamed(r)
  /\ \A i \in StationIds : StationInStep(i)

StationArgs == [user : Owners \cup {Null}, station : StationIds \cup {Null},
         place : Places \cup {Null}, favorite : BOOLEAN]
StationSteps == {"idle", "insert", "update", "toggle", "delete"}

LEMMA StationRows == St!NoArgs \in StationArgs /\ St!FreeStation.st = "free" /\ St!GoneStation.st = "gone"
BY DEF St!NoArgs, StationArgs, St!FreeStation, St!GoneStation

LEMMA StationInitInv == St!Init => StationInv
<1> SUFFICES ASSUME St!Init PROVE StationInv
  OBVIOUS
<1>1. St!TypeOK
  BY StationRows DEF St!Init, St!TypeOK, StationArgs
<1>2. \A i \in StationIds : station[i].st = "free" /\ toggles[i] = 0 /\ St!Toggling(i) = {}
  BY StationRows DEF St!Init, St!Toggling
<1>3. \A r \in Requests : StationNamed(r)
  BY DEF St!Init, StationNamed
<1> QED
  BY <1>1, <1>2, <1>3 DEF StationInv, StationInStep

(* A step that writes no station, and does not begin to toggle. *)
LEMMA StationSilent ==
  ASSUME StationInv, NEW r \in Requests, NEW p \in StationSteps, NEW a \in StationArgs, St!Goto(r, p, a),
         p # "toggle", UNCHANGED <<station, toggles, stationMet>>,
         p \in {"update", "delete"} => a.station \in StationIds /\ station[a.station].st # "free",
         p = "insert" => a.user \in Owners
  PROVE  StationInv'
<1>1. stationPc' = [stationPc EXCEPT ![r] = p] /\ stationArg' = [stationArg EXCEPT ![r] = a]
  BY DEF St!Goto
<1>2. St!TypeOK'
  BY <1>1 DEF StationInv, St!TypeOK, StationSteps, StationArgs
<1>3. \A q \in Requests : StationNamed(q)'
  BY <1>1 DEF StationInv, St!TypeOK, StationNamed
<1>4. ASSUME NEW i \in StationIds PROVE StationInStep(i)'
  <2>1. St!Toggling(i)' \subseteq St!Toggling(i) /\ \A q \in St!Toggling(i)' : stationArg'[q] = stationArg[q]
    BY <1>1 DEF StationInv, St!TypeOK, St!Toggling
  <2>2. StationInStep(i)
    BY DEF StationInv
  <2> QED
    BY <2>1, <2>2 DEF StationInStep
<1> QED
  BY <1>2, <1>3, <1>4 DEF StationInv

LEMMA StationInsertInv == ASSUME StationInv, NEW r \in Requests, St!Insert(r) PROVE StationInv'
<1>1. PICK i \in StationIds :
        /\ station[i].st = "free"
        /\ station' = [station EXCEPT ![i] = [st |-> "live", user |-> stationArg[r].user,
                                              place |-> stationArg[r].place, favorite |-> FALSE]]
  BY DEF St!Insert
<1>2. /\ stationPc' = [stationPc EXCEPT ![r] = "idle"] /\ stationArg' = [stationArg EXCEPT ![r] = St!NoArgs]
      /\ toggles' = toggles /\ stationMet' = stationMet /\ stationArg[r].user \in Owners
  BY DEF St!Insert, St!Finish, St!Goto, StationInv, StationNamed
<1>3. St!TypeOK'
  BY <1>1, <1>2, StationRows DEF StationInv, St!TypeOK, StationArgs, St!Station
<1>4. \A q \in Requests : StationNamed(q)'
  BY <1>1, <1>2 DEF StationInv, St!TypeOK, StationNamed
<1>5. ASSUME NEW j \in StationIds PROVE StationInStep(j)'
  <2>1. St!Toggling(j)' \subseteq St!Toggling(j) /\ \A q \in St!Toggling(j)' : stationArg'[q] = stationArg[q]
    BY <1>2 DEF StationInv, St!TypeOK, St!Toggling
  <2>2. StationInStep(j)
    BY DEF StationInv
  <2>3. CASE j # i
    BY <1>1, <1>2, <2>1, <2>2, <2>3 DEF StationInStep, StationInv, St!TypeOK
  <2>4. CASE j = i
    <3>1. station'[j].st = "live" /\ station'[j].favorite = FALSE
      BY <1>1, <2>4 DEF StationInv, St!TypeOK
    <3>2. toggles'[j] = 0 /\ St!Toggling(j)' = {}
      BY <1>1, <1>2, <2>1, <2>2, <2>4 DEF StationInStep
    <3> QED
      BY <3>1, <3>2 DEF StationInStep
  <2> QED
    BY <2>3, <2>4
<1> QED
  BY <1>3, <1>4, <1>5 DEF StationInv

LEMMA StationOpenToggleInv ==
  ASSUME StationInv, NEW r \in Requests, NEW u \in Owners, NEW i \in StationIds, St!OpenToggle(r, u, i)
  PROVE  StationInv'
<1> DEFINE a == [St!NoArgs EXCEPT !.user = u, !.station = i, !.favorite = ~station[i].favorite]
<1>1. a.station = i /\ (a.favorite <=> ~station[i].favorite) /\ a \in StationArgs
  BY DEF St!NoArgs, StationArgs
<1>2. /\ stationPc[r] = "idle" /\ station[i].st = "live"
      /\ stationPc' = [stationPc EXCEPT ![r] = "toggle"] /\ stationArg' = [stationArg EXCEPT ![r] = a]
      /\ stationMet' = (IF St!Toggling(i) = {} THEN stationMet ELSE stationMet \cup {i})
      /\ station' = station /\ toggles' = toggles
  BY DEF St!OpenToggle, St!Goto, St!Owns
<1> HIDE DEF a
<1>3. St!TypeOK'
  BY <1>1, <1>2 DEF StationInv, St!TypeOK, StationArgs
<1>4. \A q \in Requests : StationNamed(q)'
  BY <1>1, <1>2 DEF StationInv, St!TypeOK, StationNamed
<1>5. \A j : St!Toggling(j)' = IF j = i THEN St!Toggling(j) \cup {r} ELSE St!Toggling(j)
  BY <1>1, <1>2 DEF StationInv, St!TypeOK, St!Toggling
<1>6. r \notin St!Toggling(i) /\ stationArg'[r] = a /\ \A q \in Requests \ {r} : stationArg'[q] = stationArg[q]
  BY <1>2 DEF St!Toggling, StationInv, St!TypeOK
<1>7. ASSUME NEW j \in StationIds PROVE StationInStep(j)'
  <2>1. StationInStep(j)
    BY DEF StationInv
  <2>2. CASE j # i
    <3>1. /\ St!Toggling(j)' = St!Toggling(j) /\ \A q \in St!Toggling(j) : stationArg'[q] = stationArg[q]
          /\ station'[j] = station[j] /\ toggles'[j] = toggles[j]
      BY <1>2, <1>5, <1>6, <2>2 DEF St!Toggling
    <3>2. j \notin stationMet' => j \notin stationMet
      BY <1>2
    <3> QED
      BY <2>1, <3>1, <3>2 DEF StationInStep
  <2>3. CASE j = i /\ St!Toggling(i) = {}
    <3>1. St!Toggling(j)' = {r} /\ station'[j] = station[j] /\ toggles'[j] = toggles[j]
      BY <1>2, <1>5, <2>3
    <3>2. station'[j].st = "live" /\ (stationArg'[r].favorite <=> ~station'[j].favorite)
      BY <1>1, <1>2, <1>6, <2>3
    <3>3. j \notin stationMet' => (station'[j].favorite <=> toggles'[j] = 1)
      BY <1>2, <2>1, <2>3, <3>1 DEF StationInStep
    <3> QED
      BY <3>1, <3>2, <3>3 DEF StationInStep
  <2>4. CASE j = i /\ St!Toggling(i) # {}
    BY <1>2, <2>1, <2>4 DEF StationInStep
  <2> QED
    BY <2>2, <2>3, <2>4
<1> QED
  BY <1>3, <1>4, <1>7 DEF StationInv

LEMMA StationToggleInv == ASSUME StationInv, NEW r \in Requests, St!Toggle(r) PROVE StationInv'
<1> DEFINE i == stationArg[r].station
<1>1. /\ stationPc[r] = "toggle" /\ i \in StationIds /\ station[i].st = "live"
      /\ station' = [station EXCEPT ![i].favorite = stationArg[r].favorite]
      /\ toggles' = [toggles EXCEPT ![i] = 1 - @]
      /\ stationPc' = [stationPc EXCEPT ![r] = "idle"] /\ stationArg' = [stationArg EXCEPT ![r] = St!NoArgs]
      /\ stationMet' = stationMet /\ stationArg[r].favorite \in BOOLEAN
  BY DEF St!Toggle, St!Finish, St!Goto, StationInv, StationNamed, St!TypeOK
<1>2. /\ station'[i] = [station[i] EXCEPT !.favorite = stationArg[r].favorite]
      /\ \A j \in StationIds \ {i} : station'[j] = station[j]
      /\ DOMAIN station' = StationIds /\ station' = [j \in StationIds |-> station'[j]]
  BY <1>1 DEF StationInv, St!TypeOK
<1>3. station[i] \in St!Station
  BY <1>1, StationRows DEF StationInv, St!TypeOK
<1>4. /\ station'[i] \in St!Station /\ station'[i].st = "live"
      /\ station'[i].favorite = stationArg[r].favorite
  BY <1>1, <1>2, <1>3 DEF St!Station
<1>5. station' \in [StationIds -> {St!FreeStation, St!GoneStation} \cup St!Station]
  BY <1>2, <1>4 DEF StationInv, St!TypeOK
<1>6. /\ toggles'[i] = 1 - toggles[i] /\ toggles[i] \in 0..1
      /\ \A j \in StationIds \ {i} : toggles'[j] = toggles[j]
      /\ toggles' \in [StationIds -> 0..1]
  BY <1>1 DEF StationInv, St!TypeOK
<1>7. St!TypeOK'
  BY <1>1, <1>5, <1>6, StationRows DEF StationInv, St!TypeOK, StationArgs
<1>8. \A q \in Requests : StationNamed(q)'
  BY <1>1, <1>2, <1>4 DEF StationInv, St!TypeOK, StationNamed
<1>9. ASSUME NEW j \in StationIds PROVE StationInStep(j)'
  <2>1. St!Toggling(j)' = St!Toggling(j) \ {r} /\ \A q \in St!Toggling(j)' : stationArg'[q] = stationArg[q]
    BY <1>1 DEF StationInv, St!TypeOK, St!Toggling
  <2>2. StationInStep(j)
    BY DEF StationInv
  <2>3. CASE j # i
    BY <1>1, <1>2, <1>6, <2>1, <2>2, <2>3 DEF StationInStep
  <2>4. CASE j = i
    <3>1. j \notin stationMet => St!Toggling(j)' = {} /\ r \in St!Toggling(j)
      BY <1>1, <2>1, <2>2, <2>4 DEF StationInStep, St!Toggling
    <3>2. ASSUME j \notin stationMet
          PROVE  /\ station[j].favorite <=> toggles[j] = 1
                 /\ stationArg[r].favorite <=> ~station[j].favorite
      BY <1>1, <2>2, <2>4, <3>1, <3>2 DEF StationInStep
    <3>3. toggles'[j] = 1 <=> toggles[j] # 1
      BY <1>6, <2>4
    <3>4. station'[j].favorite = stationArg[r].favorite
      BY <1>4, <2>4
    <3>5. ASSUME j \notin stationMet PROVE station'[j].favorite <=> toggles'[j] = 1
      <4>1. station'[j].favorite <=> toggles[j] # 1
        BY <3>2, <3>4, <3>5
      <4> QED
        BY <3>3, <4>1
    <3> QED
      BY <1>1, <1>4, <2>4, <3>1, <3>5 DEF StationInStep
  <2> QED
    BY <2>3, <2>4
<1> QED
  BY <1>7, <1>8, <1>9 DEF StationInv

LEMMA StationDeleteInv == ASSUME StationInv, NEW r \in Requests, St!Delete(r) PROVE StationInv'
<1> DEFINE i == stationArg[r].station
<1>1. /\ stationPc[r] = "delete" /\ i \in StationIds
      /\ station' = [station EXCEPT ![i] = St!GoneStation]
      /\ stationPc' = [stationPc EXCEPT ![r] = "idle"] /\ stationArg' = [stationArg EXCEPT ![r] = St!NoArgs]
      /\ stationMet' = stationMet /\ toggles' = toggles
  BY DEF St!Delete, St!Finish, St!Goto, StationInv, StationNamed
<1>2. /\ station'[i].st = "gone" /\ \A j \in StationIds \ {i} : station'[j] = station[j]
  BY <1>1, StationRows DEF StationInv, St!TypeOK
<1>3. St!TypeOK'
  BY <1>1, StationRows DEF StationInv, St!TypeOK, StationArgs
<1>4. \A q \in Requests : StationNamed(q)'
  BY <1>1, <1>2 DEF StationInv, St!TypeOK, StationNamed
<1>5. ASSUME NEW j \in StationIds PROVE StationInStep(j)'
  <2>1. St!Toggling(j)' = St!Toggling(j) /\ \A q \in St!Toggling(j)' : stationArg'[q] = stationArg[q]
    BY <1>1 DEF StationInv, St!TypeOK, St!Toggling
  <2>2. StationInStep(j)
    BY DEF StationInv
  <2> QED
    BY <1>1, <1>2, <2>1, <2>2 DEF StationInStep
<1> QED
  BY <1>3, <1>4, <1>5 DEF StationInv

LEMMA StationNextInv == StationInv /\ [St!Next]_(St!vars) => StationInv'
<1> SUFFICES ASSUME StationInv, [St!Next]_(St!vars) PROVE StationInv'
  OBVIOUS
<1>1. CASE UNCHANGED St!vars
  BY <1>1 DEF St!vars, StationInv, St!TypeOK, StationNamed, StationInStep, St!Toggling
<1>2. ASSUME NEW r \in Requests, St!Update(r) \/ St!Fail(r) PROVE StationInv'
  BY <1>2, StationSilent, StationRows DEF St!Update, St!Fail, St!Finish, StationSteps
<1>3. ASSUME NEW r \in Requests, NEW u \in Owners, NEW place \in Places \cup {Null},
             St!OpenCreate(r, u, place)
      PROVE  StationInv'
  <2>1. /\ [St!NoArgs EXCEPT !.user = u, !.place = place] \in StationArgs
        /\ [St!NoArgs EXCEPT !.user = u, !.place = place].user = u
    BY DEF St!NoArgs, StationArgs
  <2> QED
    BY <1>3, <2>1, StationSilent DEF St!OpenCreate, StationSteps
<1>4. ASSUME NEW r \in Requests, NEW u \in Owners, NEW i \in StationIds,
             St!OpenUpdate(r, u, i) \/ St!OpenDelete(r, u, i)
      PROVE  StationInv'
  <2>1. /\ [St!NoArgs EXCEPT !.user = u, !.station = i] \in StationArgs
        /\ [St!NoArgs EXCEPT !.user = u, !.station = i].station = i
    BY DEF St!NoArgs, StationArgs
  <2> QED
    BY <1>4, <2>1, StationSilent DEF St!OpenUpdate, St!OpenDelete, St!Owns, StationSteps
<1> QED
  BY <1>1, <1>2, <1>3, <1>4, StationInsertInv, StationOpenToggleInv, StationToggleInv, StationDeleteInv DEF St!Next, St!Open

-----------------------------------------------------------------------------
(* The mails of the reminder cron *)

LEMMA MailAssumption == No!ConstantsAssumption
BY ServicesAssumption

Gone(m) == reminder[m].st = "gone"

(* Where the run of s stands. *)
RunInv(s) ==
  /\ server[s].at # "waits" => now % 2 = 1
  /\ ~No!Running(s) => server[s].todo = {}
  /\ server[s].at \in {"mail", "mark", "markFailed"} =>
       /\ server[s].cur \in Reminders \ server[s].todo
       /\ mailRow[server[s].cur][s] # "none" \/ Gone(server[s].cur)

(* Only runs that met another mail what was mailed. *)
OnceInv ==
  /\ \A q, s \in Servers : No!Running(q) /\ No!Running(s) => q = s
  /\ \A m \in Reminders :
       /\ mails[m] <= 1
       /\ mails[m] = 1 => No!AlreadySentToday(m) \/ Gone(m)
       /\ \A s \in Servers :
            /\ server[s].at = "mail" /\ server[s].cur = m => mails[m] = 0
            /\ m \in server[s].todo => mails[m] = 0 \/ Gone(m)

(* The run that is the last but one before m is d, or the last *)
Decides(m, t) == t % 2 = 1 /\ t \in {reminder[m].due - 2, reminder[m].due - 1}

InTimeInv(m) ==
  /\ \A s \in Servers : mailRow[m][s] # "none" => m \in told /\ now % 2 = 1
  /\ reminder[m].st = "ACTIVE" /\ reminder[m].since < reminder[m].due - 2 =>
       /\ now >= reminder[m].due => m \in told \cup excused
       /\ now = reminder[m].due - 1 /\ now % 2 = 0 => m \in told \cup excused
       /\ Decides(m, now) =>
            \A s \in Servers : server[s].at # "waits" => m \in told \cup excused \cup server[s].todo

MailInv ==
  /\ No!TypeOK
  /\ \A s \in Servers : RunInv(s)
  /\ ~met => OnceInv
  /\ \A m \in Reminders : InTimeInv(m)

-----------------------------------------------------------------------------
LEMMA RestType ==
  /\ No!Rest \in No!Runs /\ [No!Rest EXCEPT !.at = "over"] \in No!Runs
  /\ No!Rest.at = "waits" /\ No!Rest.todo = {}
  /\ [No!Rest EXCEPT !.at = "over"].at = "over" /\ [No!Rest EXCEPT !.at = "over"].todo = {}
BY DEF No!Rest, No!Runs

LEMMA LogRowType ==
  /\ No!FreeReminder.st = "free" /\ No!GoneReminder.st = "gone"
  /\ \A m \in Reminders : \A s \in Servers : No!NoRows[m][s] = "none"
  /\ No!NoRows \in [Reminders -> [Servers -> {"none", "PENDING", "SENT", "FAILED"}]]
BY DEF No!FreeReminder, No!GoneReminder, No!NoRows

LEMMA MailInitInv == No!Init => MailInv
<1> SUFFICES ASSUME No!Init PROVE MailInv
  OBVIOUS
<1>1. No!TypeOK
  <2>1. now \in 0..MaxInstant
    BY MailAssumption DEF No!Init, No!ConstantsAssumption
  <2>5. wanted \in BOOLEAN /\ met \in BOOLEAN
    BY DEF No!Init
  <2>2. server \in [Servers -> No!Runs]
    BY RestType DEF No!Init
  <2>3. mails \in [Reminders -> Nat] /\ told \subseteq Reminders /\ excused \subseteq Reminders
    BY DEF No!Init
  <2>4. /\ reminder \in [Reminders -> No!Reminder \cup {No!FreeReminder, No!GoneReminder}]
        /\ mailRow \in [Reminders -> [Servers -> {"none", "PENDING", "SENT", "FAILED"}]]
    BY LogRowType DEF No!Init
  <2> QED
    BY <2>1, <2>2, <2>3, <2>4, <2>5 DEF No!TypeOK
<1>2. \A s \in Servers : server[s].at = "waits" /\ server[s].todo = {}
  BY RestType DEF No!Init
<1>3. \A m \in Reminders : mails[m] = 0 /\ reminder[m].st = "free"
  BY LogRowType DEF No!Init
<1>4. \A m \in Reminders : \A s \in Servers : mailRow[m][s] = "none"
  BY LogRowType DEF No!Init
<1>5. \A s \in Servers : RunInv(s)
  BY <1>2 DEF RunInv
<1>6. OnceInv
  BY <1>2, <1>3, <1>4 DEF OnceInv, No!Running
<1>7. \A m \in Reminders : InTimeInv(m)
  BY <1>3, <1>4 DEF InTimeInv
<1> QED
  BY <1>1, <1>5, <1>6, <1>7 DEF MailInv

(* What others do to reminders *)
LEMMA ReminderType ==
  ASSUME No!TypeOK, NEW m \in Reminders
  PROVE  /\ reminder[m].st \in {"free", "gone", "ACTIVE", "off"}
         /\ reminder[m].due \in Int /\ reminder[m].since \in Int /\ now \in Int
         /\ told \subseteq Reminders /\ excused \subseteq Reminders
         /\ reminder[m].st \in {"ACTIVE", "off"} => reminder[m] \in No!Reminder
BY MailAssumption DEF No!TypeOK, No!Reminder, No!FreeReminder, No!GoneReminder, No!Instants, No!ConstantsAssumption

LEMMA SetDueInv ==
  ASSUME MailInv, NEW m \in Reminders, NEW d \in No!Instants, No!SetDue(m, d)
  PROVE  MailInv'
<1>1. /\ reminder[m].st # "gone" /\ now % 2 = 0 /\ d > now
      /\ reminder' = [reminder EXCEPT ![m] = [st |-> "ACTIVE", due |-> d, since |-> now]]
      /\ told' = told \ {m} /\ excused' = excused \ {m}
      /\ UNCHANGED <<now, wanted, mailRow, server, mails, met>>
  BY DEF No!SetDue
<1>2. /\ reminder'[m] = [st |-> "ACTIVE", due |-> d, since |-> now]
      /\ \A n \in Reminders \ {m} : reminder'[n] = reminder[n]
  BY <1>1 DEF MailInv, No!TypeOK
<1>3. No!TypeOK'
  BY <1>1 DEF MailInv, No!TypeOK, No!Reminder, No!Instants
<1>4. \A n \in Reminders : Gone(n)' <=> Gone(n)
  BY <1>1, <1>2 DEF Gone
<1>5. \A s \in Servers : RunInv(s)'
  BY <1>1, <1>4 DEF MailInv, RunInv, No!Running
<1>6. OnceInv => OnceInv'
  BY <1>1, <1>4 DEF OnceInv, No!Running, No!AlreadySentToday
<1>7. ASSUME NEW n \in Reminders PROVE InTimeInv(n)'
  <2>1. InTimeInv(n) /\ InTimeInv(m)
    BY DEF MailInv
  <2>2. CASE n # m
    <3>1. /\ reminder'[n] = reminder[n] /\ (n \in told' <=> n \in told)
          /\ (n \in excused' <=> n \in excused)
      BY <1>1, <1>2, <2>2
    <3> QED
      BY <1>1, <2>1, <3>1 DEF InTimeInv, Decides
  <2>3. CASE n = m
    <3>1. \A s \in Servers : mailRow'[n][s] = "none"
      BY <1>1, <2>1, <2>3 DEF InTimeInv
    <3>2. reminder'[n].due = d /\ reminder'[n].since = now /\ now' = now
      BY <1>1, <1>2, <2>3
    <3>3. now' < reminder'[n].due - 2 => /\ ~(now' >= reminder'[n].due)
                                         /\ now' # reminder'[n].due - 1
                                         /\ ~Decides(n, now)'
      <4>1. now \in Int /\ d \in Int
        BY MailAssumption DEF MailInv, No!TypeOK, No!Instants, No!ConstantsAssumption
      <4> QED
        BY <3>2, <4>1 DEF Decides
    <3> QED
      BY <3>1, <3>2, <3>3 DEF InTimeInv
  <2> QED
    BY <2>2, <2>3
<1> QED
  BY <1>1, <1>3, <1>5, <1>6, <1>7 DEF MailInv

LEMMA TurnOffInv ==
  ASSUME MailInv, NEW m \in Reminders, No!TurnOff(m)
  PROVE  MailInv'
<1>1. /\ reminder[m].st = "ACTIVE"
      /\ reminder' = [reminder EXCEPT ![m].st = "off"]
      /\ UNCHANGED <<now, wanted, mailRow, server, mails, told, excused, met>>
  BY DEF No!TurnOff, No!history
<1>2. /\ reminder'[m].st = "off" /\ reminder'[m].due = reminder[m].due
      /\ reminder'[m].since = reminder[m].since
      /\ \A n \in Reminders \ {m} : reminder'[n] = reminder[n]
  BY <1>1, ReminderType DEF MailInv, No!TypeOK, No!Reminder
<1>3. No!TypeOK'
  BY <1>1, ReminderType DEF MailInv, No!TypeOK, No!Reminder
<1>4. \A n \in Reminders : Gone(n)' <=> Gone(n)
  BY <1>1, <1>2 DEF Gone
<1>5. \A s \in Servers : RunInv(s)'
  BY <1>1, <1>4 DEF MailInv, RunInv, No!Running
<1>6. OnceInv => OnceInv'
  BY <1>1, <1>4 DEF OnceInv, No!Running, No!AlreadySentToday
<1>7. ASSUME NEW n \in Reminders PROVE InTimeInv(n)'
  <2>1. InTimeInv(n)
    BY DEF MailInv
  <2> QED
    BY <1>1, <1>2, <2>1 DEF InTimeInv, Decides
<1> QED
  BY <1>1, <1>3, <1>5, <1>6, <1>7 DEF MailInv

LEMMA MailDeleteInv ==
  ASSUME MailInv, NEW m \in Reminders, No!Delete(m)
  PROVE  MailInv'
<1>1. /\ reminder' = [reminder EXCEPT ![m] = No!GoneReminder]
      /\ mailRow' = [mailRow EXCEPT ![m] = No!NoRows[m]]
      /\ UNCHANGED <<now, wanted, server, mails, told, excused, met>>
  BY DEF No!Delete, No!history
<1>2. /\ reminder'[m].st = "gone" /\ \A s \in Servers : mailRow'[m][s] = "none"
      /\ \A n \in Reminders \ {m} : reminder'[n] = reminder[n] /\ mailRow'[n] = mailRow[n]
  BY <1>1, LogRowType DEF MailInv, No!TypeOK
<1>3. No!TypeOK'
  BY <1>1, LogRowType DEF MailInv, No!TypeOK
<1>4. Gone(m)' /\ \A n \in Reminders \ {m} : Gone(n)' <=> Gone(n)
  BY <1>2 DEF Gone
<1>5. \A s \in Servers : RunInv(s)'
  BY <1>1, <1>2, <1>4 DEF MailInv, RunInv, No!Running
<1>6. OnceInv => OnceInv'
  BY <1>1, <1>2, <1>4 DEF OnceInv, No!Running, No!AlreadySentToday
<1>7. ASSUME NEW n \in Reminders PROVE InTimeInv(n)'
  <2>1. InTimeInv(n)
    BY DEF MailInv
  <2> QED
    BY <1>1, <1>2, <2>1 DEF InTimeInv, Decides
<1> QED
  BY <1>1, <1>3, <1>5, <1>6, <1>7 DEF MailInv

LEMMA ChooseInv == MailInv /\ No!Choose => MailInv'
<1> SUFFICES ASSUME MailInv, No!Choose PROVE MailInv'
  OBVIOUS
<1>1. wanted' = ~wanted /\ UNCHANGED <<now, reminder, mailRow, server, mails, told, excused, met>>
  BY DEF No!Choose, No!history
<1>2. No!TypeOK'
  BY <1>1 DEF MailInv, No!TypeOK
<1>3. \A s \in Servers : RunInv(s)'
  BY <1>1 DEF MailInv, RunInv, No!Running, Gone
<1>4. OnceInv => OnceInv'
  BY <1>1 DEF OnceInv, No!Running, No!AlreadySentToday, Gone
<1>5. \A m \in Reminders : InTimeInv(m)'
  BY <1>1 DEF MailInv, InTimeInv, Decides
<1> QED
  BY <1>1, <1>2, <1>3, <1>4, <1>5 DEF MailInv

-----------------------------------------------------------------------------
(* The runs *)

(* A step of a run leaves nobody out that it had still to see, unless told *)
(* or excused, and inserts rows for whom it tells.                         *)
LEMMA InTimeKept ==
  ASSUME NEW m \in Reminders, InTimeInv(m), now' = now, reminder' = reminder,
         told \subseteq told', excused \subseteq excused',
         \A s \in Servers : mailRow'[m][s] # "none" =>
           mailRow[m][s] # "none" \/ (m \in told' /\ now % 2 = 1),
         Decides(m, now) => \A s \in Servers : server'[s].at # "waits" =>
           \/ m \in told' \cup excused' \cup server'[s].todo
           \/ server[s].at # "waits" /\ m \notin server[s].todo
  PROVE  InTimeInv(m)'
<1>1. Decides(m, now)' <=> Decides(m, now)
  BY DEF Decides
<1>2. \A s \in Servers : mailRow'[m][s] # "none" => m \in told' /\ now' % 2 = 1
  BY DEF InTimeInv
<1>3. ASSUME reminder'[m].st = "ACTIVE", reminder'[m].since < reminder'[m].due - 2
      PROVE  /\ now' >= reminder'[m].due => m \in told' \cup excused'
             /\ now' = reminder'[m].due - 1 /\ now' % 2 = 0 => m \in told' \cup excused'
             /\ Decides(m, now)' => \A s \in Servers : server'[s].at # "waits" =>
                                      m \in told' \cup excused' \cup server'[s].todo
  BY <1>1, <1>3 DEF InTimeInv
<1> QED
  BY <1>2, <1>3 DEF InTimeInv

(* Where a run is between two steps *)
LEMMA RunType ==
  ASSUME No!TypeOK, NEW s \in Servers
  PROVE  /\ server[s].at \in {"waits", "loop", "mail", "mark", "markFailed", "over"}
         /\ server[s].todo \subseteq Reminders /\ server[s].cur \in Reminders \cup {Null}
         /\ server = [server EXCEPT ![s] = server[s]]
         /\ server[s] = [at |-> server[s].at, todo |-> server[s].todo, cur |-> server[s].cur]
BY DEF No!TypeOK, No!Runs

LEMMA ServerStep ==
  ASSUME No!TypeOK, NEW s \in Servers,
         NEW at \in {"waits", "loop", "mail", "mark", "markFailed", "over"},
         NEW todo, todo \subseteq Reminders, NEW cur \in Reminders \cup {Null},
         server' = [server EXCEPT ![s] = [at |-> at, todo |-> todo, cur |-> cur]]
  PROVE  /\ server' \in [Servers -> No!Runs]
         /\ server'[s].at = at /\ server'[s].todo = todo /\ server'[s].cur = cur
         /\ \A q \in Servers \ {s} : server'[q] = server[q]
<1>1. [at |-> at, todo |-> todo, cur |-> cur] \in No!Runs
  BY DEF No!Runs
<1> QED
  BY <1>1 DEF No!TypeOK

(* Who must be told by the run of this hour is in its query. *)
LEMMA DueInTime ==
  ASSUME No!TypeOK, NEW m \in Reminders, InTimeInv(m),
         Decides(m, now), reminder[m].st = "ACTIVE", m \notin told
  PROVE  m \in No!Due
<1>1. ~No!AlreadySentToday(m)
  BY DEF InTimeInv, No!AlreadySentToday
<1>2. now \in Int /\ reminder[m].due \in Int
  BY ReminderType
<1>3. No!DaysLeft(m) = 1 /\ reminder[m].due >= now /\ reminder[m].due <= now + 2
  BY <1>2 DEF Decides, No!DaysLeft
<1>4. PICK most \in Thresholds : \A t \in Thresholds : t <= most
  BY MailAssumption DEF No!ConstantsAssumption
<1>5. most \in Int /\ most >= 1 /\ 1 \in Thresholds
  BY <1>4, MailAssumption DEF No!ConstantsAssumption
<1>6. reminder[m].due <= now + 2 * most
  BY <1>2, <1>3, <1>5
<1> QED
  BY <1>1, <1>3, <1>4, <1>5, <1>6 DEF No!Due

LEMMA BeginInv ==
  ASSUME MailInv, NEW s \in Servers, No!Begin(s)
  PROVE  MailInv'
<1> DEFINE all == IF wanted THEN No!Due ELSE {}
<1>1. /\ server[s].at = "waits" /\ now % 2 = 1
      /\ met' = (met \/ \E q \in Servers : No!Running(q))
      /\ excused' = IF wanted THEN excused ELSE excused \cup No!Due
      /\ UNCHANGED <<now, reminder, wanted, mailRow, mails, told>>
  BY DEF No!Begin
<1>2. No!Due \subseteq Reminders /\ all \subseteq Reminders
  BY DEF No!Due
<1>3. server' = [server EXCEPT ![s].at = "loop", ![s].todo = all]
  BY DEF No!Begin
<1>4. /\ server' \in [Servers -> No!Runs]
      /\ server'[s].at = "loop" /\ server'[s].todo = all
      /\ \A q \in Servers \ {s} : server'[q] = server[q]
  <2> HIDE DEF all
  <2>1. server \in [Servers -> No!Runs]
    BY DEF MailInv, No!TypeOK
  <2> QED
    BY <1>2, <1>3, <2>1 DEF No!Runs
<1>5. No!TypeOK'
  BY <1>1, <1>2, <1>4 DEF MailInv, No!TypeOK
<1>6. \A q \in Servers : RunInv(q)'
  BY <1>1, <1>4 DEF MailInv, RunInv, No!Running, Gone
<1>7. ASSUME ~met' PROVE OnceInv'
  <2>1. OnceInv /\ \A q \in Servers : ~No!Running(q)
    BY <1>1, <1>7 DEF MailInv
  <2>2. \A q \in Servers \ {s} : server'[q].at \notin {"loop", "mail", "mark", "markFailed"}
                                /\ server'[q].todo = {} /\ ~No!Running(q)'
    BY <1>4, <2>1, RunType DEF MailInv, RunInv, No!Running
  <2>3. ASSUME NEW m \in No!Due PROVE mails[m] = 0 \/ Gone(m)
    <3>1. ~No!AlreadySentToday(m) /\ m \in Reminders
      BY DEF No!Due
    <3>2. mails[m] <= 1 /\ (mails[m] = 1 => No!AlreadySentToday(m) \/ Gone(m))
      BY <2>1, <3>1 DEF OnceInv
    <3>3. mails[m] \in Nat
      BY <3>1 DEF MailInv, No!TypeOK
    <3> QED
      BY <3>1, <3>2, <3>3
  <2>4. \A m \in Reminders : Gone(m)' <=> Gone(m)
    BY <1>1 DEF Gone
  <2>5. \A m \in Reminders : No!AlreadySentToday(m)' <=> No!AlreadySentToday(m)
    BY <1>1 DEF No!AlreadySentToday
  <2> QED
    BY <1>1, <1>4, <2>1, <2>2, <2>3, <2>4, <2>5 DEF OnceInv
<1>8. ASSUME NEW m \in Reminders PROVE InTimeInv(m)'
  <2>1. InTimeInv(m)
    BY DEF MailInv
  <2>2. Decides(m, now) /\ reminder[m].st = "ACTIVE" /\ m \notin told => m \in No!Due
    BY <2>1, DueInTime DEF MailInv
  <2>3. CASE reminder[m].st = "ACTIVE"
    <3>1. Decides(m, now) => \A q \in Servers : server'[q].at # "waits" =>
            \/ m \in told' \cup excused' \cup server'[q].todo
            \/ server[q].at # "waits" /\ m \notin server[q].todo
      BY <1>1, <1>4, <2>2, <2>3
    <3> QED
      BY <1>1, <2>1, <3>1, InTimeKept
  <2>4. CASE reminder[m].st # "ACTIVE"
    BY <1>1, <2>1, <2>4 DEF InTimeInv
  <2> QED
    BY <2>3, <2>4
<1> QED
  BY <1>1, <1>5, <1>6, <1>7, <1>8 DEF MailInv

LEMMA LogInv ==
  ASSUME MailInv, NEW s \in Servers, NEW m \in Reminders, No!Log(s, m)
  PROVE  MailInv'
<1>1. /\ server[s].at = "loop" /\ m \in server[s].todo /\ reminder[m].st # "gone"
      /\ mailRow' = [mailRow EXCEPT ![m][s] = "PENDING"]
      /\ told' = told \cup {m}
      /\ UNCHANGED <<now, reminder, wanted, mails, excused, met>>
  BY DEF No!Log
<1>2. /\ server' \in [Servers -> No!Runs]
      /\ server'[s].at = "mail" /\ server'[s].todo = server[s].todo \ {m} /\ server'[s].cur = m
      /\ \A q \in Servers \ {s} : server'[q] = server[q]
  BY DEF No!Log, MailInv, No!TypeOK, No!Runs
<1>3. /\ mailRow' \in [Reminders -> [Servers -> {"none", "PENDING", "SENT", "FAILED"}]]
      /\ mailRow'[m][s] = "PENDING"
      /\ \A q \in Servers \ {s} : mailRow'[m][q] = mailRow[m][q]
      /\ \A n \in Reminders \ {m} : mailRow'[n] = mailRow[n]
  BY <1>1 DEF MailInv, No!TypeOK
<1>4. No!TypeOK'
  BY <1>1, <1>2, <1>3 DEF MailInv, No!TypeOK
<1>5. \A n \in Reminders : Gone(n)' <=> Gone(n)
  BY <1>1 DEF Gone
<1>6. \A q \in Servers : RunInv(q)'
  <2>1. RunInv(s)'
    BY <1>1, <1>2, <1>3 DEF MailInv, RunInv, No!Running
  <2>2. ASSUME NEW q \in Servers \ {s} PROVE RunInv(q)'
    <3>1. RunInv(q) /\ server'[q] = server[q]
      BY <1>2 DEF MailInv
    <3>2. \A n \in Reminders : mailRow'[n][q] = mailRow[n][q]
      BY <1>3
    <3> QED
      BY <1>1, <1>5, <3>1, <3>2 DEF RunInv, No!Running
  <2> QED
    BY <2>1, <2>2
<1>7. ASSUME ~met' PROVE OnceInv'
  <2>1. OnceInv /\ No!Running(s)
    BY <1>1, <1>7 DEF MailInv, No!Running
  <2>2. \A q \in Servers \ {s} : server'[q].at \in {"waits", "over"} /\ server'[q].todo = {}
    BY <1>2, <2>1 DEF OnceInv, MailInv, RunInv, No!Running
  <2>3. \A q, r \in Servers : No!Running(q)' /\ No!Running(r)' => q = r
    BY <2>2 DEF No!Running
  <2>4. mails'[m] = 0
    BY <1>1, <1>5, <2>1 DEF OnceInv, Gone
  <2>5. ASSUME NEW n \in Reminders, No!AlreadySentToday(n) PROVE No!AlreadySentToday(n)'
    <3>1. PICK q \in Servers : mailRow[n][q] # "none"
      BY <2>5 DEF No!AlreadySentToday
    <3>2. mailRow'[n][q] # "none"
      BY <1>3, <3>1
    <3> QED
      BY <3>2 DEF No!AlreadySentToday
  <2>6. ASSUME NEW n \in Reminders
        PROVE  /\ mails'[n] <= 1
               /\ mails'[n] = 1 => No!AlreadySentToday(n)' \/ Gone(n)'
    BY <1>1, <1>5, <2>1, <2>5 DEF OnceInv
  <2>7. ASSUME NEW n \in Reminders, NEW q \in Servers
        PROVE  /\ server'[q].at = "mail" /\ server'[q].cur = n => mails'[n] = 0
               /\ n \in server'[q].todo => mails'[n] = 0 \/ Gone(n)'
    BY <1>1, <1>2, <1>5, <2>1, <2>2, <2>4 DEF OnceInv
  <2> QED
    BY <2>3, <2>6, <2>7 DEF OnceInv
<1>8. ASSUME NEW n \in Reminders PROVE InTimeInv(n)'
  <2>1. InTimeInv(n)
    BY DEF MailInv
  <2>2. now % 2 = 1
    BY <1>1 DEF MailInv, RunInv
  <2> QED
    BY <1>1, <1>2, <1>3, <2>1, <2>2, InTimeKept
<1> QED
  BY <1>1, <1>4, <1>6, <1>7, <1>8 DEF MailInv

(* A step after which the run of s goes on or is over, that inserts no row *)
(* and sends no mail                                                       *)
LEMMA QuietInv ==
  ASSUME MailInv, NEW s \in Servers, now % 2 = 1,
         UNCHANGED <<now, reminder, wanted, mails, told, met>>,
         excused \subseteq excused', excused' \subseteq Reminders,
         mailRow' \in [Reminders -> [Servers -> {"none", "PENDING", "SENT", "FAILED"}]],
         \A m \in Reminders : \A q \in Servers : mailRow'[m][q] # "none" <=> mailRow[m][q] # "none",
         server' \in [Servers -> No!Runs],
         \A q \in Servers \ {s} : server'[q] = server[q],
         server'[s].at # "mail",
         ~No!Running(s) => ~No!Running(s)',
         ~No!Running(s)' => server'[s].todo = {},
         server'[s].at \in {"mark", "markFailed"} =>
           server[s].at \in {"mail", "mark", "markFailed"} /\ server'[s].cur = server[s].cur,
         server'[s].todo \subseteq server[s].todo,
         server[s].todo \subseteq server'[s].todo \cup excused',
         server[s].at = "waits" => \A m \in Reminders : Decides(m, now) /\ reminder[m].st = "ACTIVE" =>
                                     m \in told \cup excused'
  PROVE  MailInv'
<1>1. No!TypeOK'
  BY DEF MailInv, No!TypeOK
<1>2. \A m \in Reminders : Gone(m)' <=> Gone(m)
  BY DEF Gone
<1>3. \A q \in Servers : RunInv(q)'
  <2>1. ASSUME NEW q \in Servers \ {s} PROVE RunInv(q)'
    <3>1. RunInv(q) /\ server'[q] = server[q] /\ server[q].cur \in Reminders \cup {Null}
      BY RunType DEF MailInv
    <3> QED
      BY <1>2, <3>1 DEF RunInv, No!Running
  <2>2. RunInv(s)'
    BY <1>2 DEF MailInv, RunInv
  <2> QED
    BY <2>1, <2>2
<1>4. ASSUME ~met' PROVE OnceInv'
  <2>1. OnceInv
    BY <1>4 DEF MailInv
  <2>2. \A q \in Servers : No!Running(q)' => No!Running(q)
    BY DEF No!Running
  <2>3. \A m \in Reminders : No!AlreadySentToday(m)' <=> No!AlreadySentToday(m)
    BY DEF No!AlreadySentToday
  <2>4. \A q \in Servers : /\ server'[q].todo \subseteq server[q].todo
                         /\ server'[q].at = "mail" => server[q].at = "mail" /\ server'[q].cur = server[q].cur
    OBVIOUS
  <2> QED
    BY <1>2, <2>1, <2>2, <2>3, <2>4 DEF OnceInv
<1>5. ASSUME NEW m \in Reminders PROVE InTimeInv(m)'
  <2>1. InTimeInv(m)
    BY DEF MailInv
  <2>2. CASE reminder[m].st = "ACTIVE"
    <3>1. Decides(m, now) => \A q \in Servers : server'[q].at # "waits" =>
            \/ m \in told' \cup excused' \cup server'[q].todo
            \/ server[q].at # "waits" /\ m \notin server[q].todo
      BY <2>2
    <3> QED
      BY <2>1, <3>1, InTimeKept
  <2>3. CASE reminder[m].st # "ACTIVE"
    BY <2>1, <2>3 DEF InTimeInv
  <2> QED
    BY <2>2, <2>3
<1> QED
  BY <1>1, <1>3, <1>4, <1>5 DEF MailInv

LEMMA RunOverType ==
  ASSUME No!TypeOK, NEW s \in Servers, server' = [server EXCEPT ![s] = [No!Rest EXCEPT !.at = "over"]]
  PROVE  /\ server' \in [Servers -> No!Runs]
         /\ server'[s].at = "over" /\ server'[s].todo = {}
         /\ \A q \in Servers \ {s} : server'[q] = server[q]
BY RestType DEF No!TypeOK

LEMMA LogFailsInv ==
  ASSUME MailInv, NEW s \in Servers, NEW m \in Reminders, No!LogFails(s, m)
  PROVE  MailInv'
<1>1. /\ server[s].at = "loop" /\ m \in server[s].todo
      /\ excused' = excused \cup {m}
      /\ UNCHANGED <<now, reminder, wanted, mailRow, mails, told, met>>
  BY DEF No!LogFails
<1>2. /\ server' \in [Servers -> No!Runs]
      /\ server'[s].at = "loop" /\ server'[s].todo = server[s].todo \ {m}
      /\ \A q \in Servers \ {s} : server'[q] = server[q]
  BY DEF No!LogFails, MailInv, No!TypeOK, No!Runs
<1>3. now % 2 = 1 /\ excused \subseteq Reminders
  BY <1>1 DEF MailInv, RunInv, No!TypeOK
<1>4. mailRow' \in [Reminders -> [Servers -> {"none", "PENDING", "SENT", "FAILED"}]]
  BY <1>1 DEF MailInv, No!TypeOK
<1> QED
  BY <1>1, <1>2, <1>3, <1>4, QuietInv DEF No!Running

LEMMA MarkThrowsInv ==
  ASSUME MailInv, NEW s \in Servers, No!MarkThrows(s)
  PROVE  MailInv'
<1>1. server[s].at = "mark" /\ UNCHANGED <<now, reminder, wanted, mailRow, mails, told, excused, met>>
  BY DEF No!MarkThrows, No!history
<1>2. /\ server' \in [Servers -> No!Runs]
      /\ server'[s].at = "markFailed" /\ server'[s].todo = server[s].todo
      /\ server'[s].cur = server[s].cur
      /\ \A q \in Servers \ {s} : server'[q] = server[q]
  BY DEF No!MarkThrows, No!At, MailInv, No!TypeOK, No!Runs
<1>3. now % 2 = 1 /\ excused \subseteq Reminders
  BY <1>1 DEF MailInv, RunInv, No!TypeOK
<1>4. mailRow' \in [Reminders -> [Servers -> {"none", "PENDING", "SENT", "FAILED"}]]
  BY <1>1 DEF MailInv, No!TypeOK
<1> QED
  BY <1>1, <1>2, <1>3, <1>4, QuietInv DEF No!Running

LEMMA MarkedInv ==
  ASSUME MailInv, NEW s \in Servers, server[s].at \in {"mark", "markFailed"},
         NEW status \in {"none", "PENDING", "SENT", "FAILED"}, No!Marked(s, status),
         mailRow[server[s].cur][s] # "none" => status # "none",
         UNCHANGED <<now, reminder, wanted, mails, told, excused, met>>
  PROVE  MailInv'
<1> DEFINE m == server[s].cur
<1>1. m \in Reminders /\ now % 2 = 1 /\ excused \subseteq Reminders
  BY DEF MailInv, RunInv, No!TypeOK
<1>2. mailRow' = IF mailRow[m][s] = "none" THEN mailRow ELSE [mailRow EXCEPT ![m][s] = status]
  BY DEF No!Marked
<1>3. /\ server' \in [Servers -> No!Runs]
      /\ server'[s].at = "loop" /\ server'[s].todo = server[s].todo
      /\ \A q \in Servers \ {s} : server'[q] = server[q]
  BY DEF No!Marked, MailInv, No!TypeOK, No!Runs
<1>4. mailRow \in [Reminders -> [Servers -> {"none", "PENDING", "SENT", "FAILED"}]]
  BY DEF MailInv, No!TypeOK
<1>5. mailRow[m][s] # "none" => status # "none"
  OBVIOUS
<1> HIDE DEF m
<1>6. /\ mailRow' \in [Reminders -> [Servers -> {"none", "PENDING", "SENT", "FAILED"}]]
      /\ \A n \in Reminders : \A q \in Servers : mailRow'[n][q] # "none" <=> mailRow[n][q] # "none"
  BY <1>1, <1>2, <1>4, <1>5
<1> QED
  BY <1>1, <1>3, <1>6, QuietInv DEF No!Running

LEMMA MarkInv ==
  ASSUME MailInv, NEW s \in Servers, No!Mark(s)
  PROVE  MailInv'
<1>1. /\ server[s].at = "mark" /\ No!Marked(s, "SENT")
      /\ UNCHANGED <<now, reminder, wanted, mails, told, excused, met>>
  BY DEF No!Mark, No!history
<1> QED
  BY <1>1, MarkedInv

LEMMA MarkFailedInv ==
  ASSUME MailInv, NEW s \in Servers, NEW ok \in BOOLEAN, No!MarkFailed(s, ok)
  PROVE  MailInv'
<1> DEFINE status == IF ok THEN "FAILED" ELSE mailRow[server[s].cur][s]
<1>1. /\ server[s].at = "markFailed" /\ No!Marked(s, status)
      /\ UNCHANGED <<now, reminder, wanted, mails, told, excused, met>>
  BY DEF No!MarkFailed, No!history
<1>2. server[s].cur \in Reminders
  BY <1>1 DEF MailInv, RunInv
<1>3. status \in {"none", "PENDING", "SENT", "FAILED"}
  BY <1>2 DEF MailInv, No!TypeOK
<1>4. mailRow[server[s].cur][s] # "none" => status # "none"
  OBVIOUS
<1> HIDE DEF status
<1> QED
  BY <1>1, <1>3, <1>4, MarkedInv

LEMMA RunEndsInv ==
  ASSUME MailInv, NEW s \in Servers, No!End(s)
  PROVE  MailInv'
<1>1. /\ server[s].at = "loop" /\ server[s].todo = {}
      /\ server' = [server EXCEPT ![s] = [No!Rest EXCEPT !.at = "over"]]
      /\ UNCHANGED <<now, reminder, wanted, mailRow, mails, told, excused, met>>
  BY DEF No!End, No!history
<1>2. /\ server' \in [Servers -> No!Runs]
      /\ server'[s].at = "over" /\ server'[s].todo = {}
      /\ \A q \in Servers \ {s} : server'[q] = server[q]
  BY <1>1, RunOverType DEF MailInv
<1>3. now % 2 = 1 /\ excused \subseteq Reminders
  BY <1>1 DEF MailInv, RunInv, No!TypeOK
<1>4. mailRow' \in [Reminders -> [Servers -> {"none", "PENDING", "SENT", "FAILED"}]]
  BY <1>1 DEF MailInv, No!TypeOK
<1> QED
  BY <1>1, <1>2, <1>3, <1>4, QuietInv DEF No!Running

LEMMA MailsInv ==
  ASSUME MailInv, NEW s \in Servers, NEW sent \in BOOLEAN, NEW ok \in BOOLEAN, No!Mail(s, sent, ok)
  PROVE  MailInv'
<1> DEFINE m == server[s].cur
           step == IF ok THEN "mark" ELSE "markFailed"
<1>1. /\ server[s].at = "mail"
      /\ mails' = IF sent THEN [mails EXCEPT ![m] = @ + 1] ELSE mails
      /\ UNCHANGED <<now, reminder, wanted, mailRow, told, excused, met>>
  BY DEF No!Mail
<1>2. /\ server' \in [Servers -> No!Runs]
      /\ server'[s].at \in {"mark", "markFailed"} /\ server'[s].todo = server[s].todo
      /\ server'[s].cur = m
      /\ \A q \in Servers \ {s} : server'[q] = server[q]
  <2>1. server' = [server EXCEPT ![s].at = step] /\ step \in {"mark", "markFailed"}
    BY DEF No!Mail, No!At
  <2> HIDE DEF step
  <2> QED
    BY <2>1 DEF MailInv, No!TypeOK, No!Runs
<1>3. m \in Reminders /\ (No!AlreadySentToday(m) \/ Gone(m)) /\ now % 2 = 1
  BY <1>1 DEF MailInv, RunInv, No!AlreadySentToday
<1>4. mails \in [Reminders -> Nat]
  BY DEF MailInv, No!TypeOK
<1> HIDE DEF m
<1>5. /\ mails' \in [Reminders -> Nat]
      /\ mails'[m] \in {mails[m], mails[m] + 1}
      /\ \A n \in Reminders \ {m} : mails'[n] = mails[n]
  BY <1>1, <1>3, <1>4
<1>6. No!TypeOK'
  BY <1>1, <1>2, <1>5 DEF MailInv, No!TypeOK
<1>7. \A n \in Reminders : (Gone(n)' <=> Gone(n)) /\ (No!AlreadySentToday(n)' <=> No!AlreadySentToday(n))
  BY <1>1 DEF Gone, No!AlreadySentToday
<1>8. \A q \in Servers : RunInv(q)'
  BY <1>1, <1>2, <1>7 DEF MailInv, RunInv, No!Running, m
<1>9. ASSUME ~met' PROVE OnceInv'
  <2>1. OnceInv /\ No!Running(s) /\ mails[m] = 0
    BY <1>1, <1>3, <1>9 DEF MailInv, OnceInv, No!Running, m
  <2>2. \A q \in Servers \ {s} : server'[q].at \in {"waits", "over"} /\ server'[q].todo = {}
    BY <1>2, <2>1 DEF OnceInv, MailInv, RunInv, No!Running
  <2>3. \A q, r \in Servers : No!Running(q)' /\ No!Running(r)' => q = r
    BY <2>2 DEF No!Running
  <2>4. mails'[m] <= 1 /\ m \notin server'[s].todo
    BY <1>1, <1>2, <1>5, <2>1 DEF MailInv, RunInv, m
  <2>5. ASSUME NEW n \in Reminders
        PROVE  /\ mails'[n] <= 1
               /\ mails'[n] = 1 => No!AlreadySentToday(n)' \/ Gone(n)'
    BY <1>3, <1>5, <1>7, <2>1, <2>4 DEF OnceInv
  <2>6. ASSUME NEW n \in Reminders, NEW q \in Servers
        PROVE  /\ server'[q].at = "mail" /\ server'[q].cur = n => mails'[n] = 0
               /\ n \in server'[q].todo => mails'[n] = 0 \/ Gone(n)'
    BY <1>2, <1>5, <1>7, <2>1, <2>2, <2>4 DEF OnceInv
  <2> QED
    BY <2>3, <2>5, <2>6 DEF OnceInv
<1>10. ASSUME NEW n \in Reminders PROVE InTimeInv(n)'
  <2>1. InTimeInv(n)
    BY DEF MailInv
  <2> QED
    BY <1>1, <1>2, <2>1, InTimeKept
<1> QED
  BY <1>1, <1>6, <1>8, <1>9, <1>10 DEF MailInv

LEMMA MailCrashInv ==
  ASSUME MailInv, NEW s \in Servers, No!Crash(s)
  PROVE  MailInv'
<1> DEFINE all == IF server[s].at = "waits" THEN No!Due ELSE server[s].todo
<1>1. /\ server[s].at # "over" /\ now % 2 = 1 /\ excused' = excused \cup all
      /\ server' = [server EXCEPT ![s] = [No!Rest EXCEPT !.at = "over"]]
      /\ UNCHANGED <<now, reminder, wanted, mailRow, mails, told, met>>
  BY DEF No!Crash
<1>2. /\ server' \in [Servers -> No!Runs]
      /\ server'[s].at = "over" /\ server'[s].todo = {}
      /\ \A q \in Servers \ {s} : server'[q] = server[q]
  BY <1>1, RunOverType DEF MailInv
<1>3. excused \subseteq Reminders /\ excused' \subseteq Reminders /\ excused \subseteq excused'
  BY <1>1, RunType DEF MailInv, No!TypeOK, No!Due
<1>4. mailRow' \in [Reminders -> [Servers -> {"none", "PENDING", "SENT", "FAILED"}]]
  BY <1>1 DEF MailInv, No!TypeOK
<1>5. server[s].todo \subseteq server'[s].todo \cup excused'
  BY <1>1 DEF MailInv, RunInv, No!Running
<1>6. server[s].at = "waits" => \A m \in Reminders : Decides(m, now) /\ reminder[m].st = "ACTIVE" =>
                                  m \in told \cup excused'
  BY <1>1, DueInTime DEF MailInv
<1> QED
  BY <1>1, <1>2, <1>3, <1>4, <1>5, <1>6, QuietInv DEF No!Running

(* Half a day later *)
LEMMA MailTickInv == MailInv /\ No!Tick => MailInv'
<1> SUFFICES ASSUME MailInv, No!Tick PROVE MailInv'
  OBVIOUS
<1>1. /\ now < MaxInstant /\ now' = now + 1
      /\ now % 2 = 1 => \A s \in Servers : server[s].at = "over"
      /\ server' = [s \in Servers |-> No!Rest] /\ mailRow' = No!NoRows
      /\ mails' = [m \in Reminders |-> 0] /\ met' = FALSE
      /\ UNCHANGED <<reminder, wanted, told, excused>>
  BY DEF No!Tick
<1>2. now \in Int /\ MaxInstant \in Int /\ now >= 0
  BY MailAssumption DEF MailInv, No!TypeOK, No!ConstantsAssumption
<1>3. /\ \A s \in Servers : server'[s].at = "waits" /\ server'[s].todo = {}
      /\ \A m \in Reminders : mails'[m] = 0
      /\ \A m \in Reminders : \A s \in Servers : mailRow'[m][s] = "none"
  BY <1>1, RestType, LogRowType
<1>4. No!TypeOK'
  <2>1. now' \in 0..MaxInstant
    BY <1>1, <1>2
  <2>2. server' \in [Servers -> No!Runs]
    BY <1>1, RestType
  <2>3. mails' \in [Reminders -> Nat]
    BY <1>1
  <2>4. mailRow' \in [Reminders -> [Servers -> {"none", "PENDING", "SENT", "FAILED"}]]
    BY <1>1, LogRowType
  <2>5. /\ reminder' \in [Reminders -> No!Reminder \cup {No!FreeReminder, No!GoneReminder}]
        /\ told' \subseteq Reminders /\ excused' \subseteq Reminders
    BY <1>1 DEF MailInv, No!TypeOK
  <2>6. wanted' \in BOOLEAN /\ met' \in BOOLEAN
    BY <1>1 DEF MailInv, No!TypeOK
  <2> QED
    BY <2>1, <2>2, <2>3, <2>4, <2>5, <2>6 DEF No!TypeOK
<1>5. \A s \in Servers : RunInv(s)'
  BY <1>3 DEF RunInv
<1>6. OnceInv'
  BY <1>3 DEF OnceInv, No!Running
<1>7. ASSUME NEW m \in Reminders PROVE InTimeInv(m)'
  <2>1. InTimeInv(m) /\ reminder' = reminder /\ told' = told /\ excused' = excused
    BY <1>1 DEF MailInv
  <2>2. reminder[m].due \in Int /\ reminder[m].since \in Int
    BY ReminderType DEF MailInv
  <2>3. ASSUME reminder[m].st = "ACTIVE", reminder[m].since < reminder[m].due - 2,
               Decides(m, now)
        PROVE  m \in told \cup excused
    <3>1. now % 2 = 1
      BY <2>3 DEF Decides
    <3>2. PICK s \in Servers : TRUE
      BY MailAssumption DEF No!ConstantsAssumption
    <3>3. server[s].at = "over" /\ server[s].todo = {}
      BY <1>1, <3>1, <3>2 DEF MailInv, RunInv, No!Running
    <3> QED
      BY <2>1, <2>3, <3>2, <3>3 DEF InTimeInv
  <2>4. ASSUME reminder[m].st = "ACTIVE", reminder[m].since < reminder[m].due - 2,
               now + 1 >= reminder[m].due \/ (now + 1 = reminder[m].due - 1 /\ (now + 1) % 2 = 0)
        PROVE  m \in told \cup excused
    <3>1. CASE now >= reminder[m].due
      BY <2>1, <2>4, <3>1 DEF InTimeInv
    <3>2. CASE now = reminder[m].due - 1 /\ now % 2 = 0
      BY <2>1, <2>4, <3>2 DEF InTimeInv
    <3>3. CASE now % 2 = 1 /\ now \in {reminder[m].due - 2, reminder[m].due - 1}
      BY <2>3, <2>4, <3>3 DEF Decides
    <3> QED
      BY <1>2, <2>2, <2>4, <3>1, <3>2, <3>3
  <2> QED
    BY <1>1, <1>3, <2>1, <2>4 DEF InTimeInv
<1> QED
  BY <1>4, <1>5, <1>6, <1>7 DEF MailInv

LEMMA MailNextInv == MailInv /\ [No!Next]_(No!vars) => MailInv'
<1> SUFFICES ASSUME MailInv, [No!Next]_(No!vars) PROVE MailInv'
  OBVIOUS
<1>1. ASSUME NEW m \in Reminders, No!TurnOff(m) \/ No!Delete(m) PROVE MailInv'
  BY <1>1, TurnOffInv, MailDeleteInv
<1>2. ASSUME NEW m \in Reminders, NEW d \in No!Instants, No!SetDue(m, d) PROVE MailInv'
  BY <1>2, SetDueInv
<1>3. CASE No!Choose \/ No!Tick
  BY <1>3, ChooseInv, MailTickInv
<1>4. ASSUME NEW s \in Servers, No!Begin(s) \/ No!Mark(s) \/ No!MarkThrows(s) \/ No!End(s) \/ No!Crash(s)
      PROVE MailInv'
  BY <1>4, BeginInv, MarkInv, MarkThrowsInv, RunEndsInv, MailCrashInv
<1>5. ASSUME NEW s \in Servers, NEW m \in Reminders, No!Log(s, m) \/ No!LogFails(s, m) PROVE MailInv'
  BY <1>5, LogInv, LogFailsInv
<1>6. ASSUME NEW s \in Servers, NEW ok \in BOOLEAN, No!MarkFailed(s, ok) PROVE MailInv'
  BY <1>6, MarkFailedInv
<1>7. ASSUME NEW s \in Servers, NEW ok \in BOOLEAN, NEW sent \in BOOLEAN, No!Mail(s, sent, ok)
      PROVE MailInv'
  BY <1>7, MailsInv
<1>8. CASE UNCHANGED No!vars
  <2>1. UNCHANGED <<now, reminder, wanted, mailRow, server, mails, told, excused, met>>
    BY <1>8 DEF No!vars, No!history
  <2>2. No!TypeOK'
    BY <2>1 DEF MailInv, No!TypeOK
  <2>3. \A s \in Servers : RunInv(s)'
    BY <2>1 DEF MailInv, RunInv, No!Running, Gone
  <2>4. ~met' => OnceInv'
    BY <2>1 DEF MailInv, OnceInv, No!Running, No!AlreadySentToday, Gone
  <2>5. \A m \in Reminders : InTimeInv(m)'
    BY <2>1 DEF MailInv, InTimeInv, Decides
  <2> QED
    BY <2>2, <2>3, <2>4, <2>5 DEF MailInv
<1> QED
  BY <1>1, <1>2, <1>3, <1>4, <1>5, <1>6, <1>7, <1>8 DEF No!Next

LEMMA MailPromises == MailInv => No!MailedOnceADay /\ No!RemindedBeforeDue
<1> SUFFICES ASSUME MailInv PROVE No!MailedOnceADay /\ No!RemindedBeforeDue
  OBVIOUS
<1>1. No!MailedOnceADay
  BY DEF MailInv, OnceInv, No!MailedOnceADay
<1>2. No!RemindedBeforeDue
  BY ReminderType DEF MailInv, InTimeInv, No!RemindedBeforeDue
<1> QED
  BY <1>1, <1>2

-----------------------------------------------------------------------------
(* Questions and answers *)

LEMMA TalkAssumption == Co!ConstantsAssumption
BY ServicesAssumption

(* An instance has operators of its own for those its module extends. *)
LEMMA SameCardinality == \A S : Co!Cardinality(S) = Cardinality(S)
BY DEF Cardinality, Co!Cardinality

TalkRow == [owner : Users \cup {Null}, vehicle : BOOLEAN, messages : Seq(Co!Message)]
TalkArgs == [conv : Conversations \cup {Null}, turn : (1..MaxTurns) \cup {Null}, vehicle : BOOLEAN,
         history : {h \in Seq(Co!Message) : Len(h) <= HistoryWindow}]

TalkTypeOK ==
  /\ talk \in [Conversations -> TalkRow]
  /\ talkPc \in [Requests -> Co!Steps]
  /\ talkArg \in [Requests -> TalkArgs]
  /\ lost \subseteq Conversations \X (1..MaxTurns)

Asked(c) == Cardinality(Co!Questions(c))
Holds(r, c, n) == talkArg[r].conv = c /\ talkArg[r].turn = n
OpenTurn(c, n) == (\E r \in Requests : Holds(r, c, n)) \/ <<c, n>> \in lost

(* No turn is used that no question began. *)
Numbered(c) ==
  /\ talk[c].owner = Null => talk[c].messages = <<>>
  /\ \A i \in DOMAIN talk[c].messages : talk[c].messages[i].turn <= Asked(c)
  /\ \A n \in 1..MaxTurns : OpenTurn(c, n) => n <= Asked(c)

(* A turn that is open has no answer; a question whose turn is not has one. *)
Answered(c) ==
  \A n \in 1..MaxTurns :
    /\ OpenTurn(c, n) => Co!Answers(c, n) = {}
    /\ ~OpenTurn(c, n) =>
         \A i \in Co!Questions(c) : talk[c].messages[i].turn = n => \E j : Co!Answers(c, n) = {j}

(* Who works on a turn does so alone, and it is not given up. *)
AloneOnTurn(r) ==
  /\ talkPc[r] = "idle" => talkArg[r].turn = Null
  /\ talkPc[r] # "idle" => talkArg[r].conv \in Conversations /\ talk[talkArg[r].conv].owner # Null
  /\ talkPc[r] = "question" => talkArg[r].turn = Null
  /\ talkPc[r] \notin {"idle", "question"} => talkArg[r].turn # Null
  /\ talkArg[r].turn # Null =>
       /\ <<talkArg[r].conv, talkArg[r].turn>> \notin lost
       /\ \A q \in Requests :
            talkArg[q].conv = talkArg[r].conv /\ talkArg[q].turn = talkArg[r].turn => q = r

TalkInv ==
  /\ TalkTypeOK
  /\ \A c \in Conversations : Numbered(c) /\ Answered(c)
  /\ \A r \in Requests : AloneOnTurn(r)

-----------------------------------------------------------------------------
LEMMA TalkNoArgsType ==
  /\ Co!NoArgs.conv = Null /\ Co!NoArgs.turn = Null /\ Co!NoArgs \in TalkArgs
  /\ Co!FreeTalk.owner = Null /\ Co!FreeTalk.messages = <<>> /\ Co!FreeTalk \in TalkRow
<1>1. <<>> \in Seq(Co!Message) /\ Len(<<>>) = 0
  OBVIOUS
<1>2. HistoryWindow \in Nat
  BY TalkAssumption DEF Co!ConstantsAssumption
<1>3. <<>> \in {h \in Seq(Co!Message) : Len(h) <= HistoryWindow}
  BY <1>1, <1>2
<1> QED
  BY <1>1, <1>3 DEF Co!NoArgs, TalkArgs, Co!FreeTalk, TalkRow

LEMMA TalkArgType ==
  ASSUME TalkTypeOK, NEW r \in Requests
  PROVE  /\ talkArg[r].conv \in Conversations \cup {Null} /\ talkArg[r].turn \in (1..MaxTurns) \cup {Null}
         /\ talkArg[r].vehicle \in BOOLEAN
         /\ talkArg[r].history \in Seq(Co!Message) /\ Len(talkArg[r].history) <= HistoryWindow
         /\ Null \notin 1..MaxTurns
BY TalkAssumption DEF TalkTypeOK, TalkArgs, Co!ConstantsAssumption

LEMMA MessageType ==
  ASSUME TalkTypeOK, NEW c \in Conversations
  PROVE  /\ talk[c].messages \in Seq(Co!Message)
         /\ Len(talk[c].messages) \in Nat /\ DOMAIN talk[c].messages = 1..Len(talk[c].messages)
         /\ \A i \in DOMAIN talk[c].messages :
              /\ talk[c].messages[i].role \in {"USER", "ASSISTANT"}
              /\ talk[c].messages[i].turn \in 1..MaxTurns
<1>1. talk[c].messages \in Seq(Co!Message)
  BY DEF TalkTypeOK, TalkRow
<1>2. \A m \in Co!Message : m.role \in {"USER", "ASSISTANT"} /\ m.turn \in 1..MaxTurns
  BY DEF Co!Message
<1> QED
  BY <1>1, <1>2

(* A conversation has finitely many questions. *)
LEMMA QuestionsFinite ==
  ASSUME TalkTypeOK, NEW c \in Conversations
  PROVE  IsFiniteSet(Co!Questions(c)) /\ Asked(c) \in Nat
<1>1. Co!Questions(c) \subseteq 1..Len(talk[c].messages) /\ Len(talk[c].messages) \in Nat
  BY MessageType DEF Co!Questions
<1>2. IsFiniteSet(1..Len(talk[c].messages))
  BY <1>1, FS_Interval
<1> QED
  BY <1>1, <1>2, FS_Subset, FS_CardinalityType DEF Asked

(* A message more *)
LEMMA GrownType ==
  ASSUME TalkTypeOK, NEW c \in Conversations, NEW role \in {"USER", "ASSISTANT"},
         NEW n \in 1..MaxTurns, NEW isError \in BOOLEAN, Co!Grown(c, role, n, isError),
         NEW k, k = Len(talk[c].messages) + 1
  PROVE  /\ talk' \in [Conversations -> TalkRow]
         /\ talk'[c].owner = talk[c].owner
         /\ DOMAIN talk'[c].messages = DOMAIN talk[c].messages \cup {k}
         /\ k \notin DOMAIN talk[c].messages
         /\ \A i \in DOMAIN talk[c].messages : talk'[c].messages[i] = talk[c].messages[i]
         /\ talk'[c].messages[k].role = role /\ talk'[c].messages[k].turn = n
         /\ \A d \in Conversations \ {c} : talk'[d] = talk[d]
<1> DEFINE m == [role |-> role, turn |-> n, isError |-> isError]
           s == talk[c].messages
<1>1. m \in Co!Message /\ m.role = role /\ m.turn = n
  BY DEF Co!Message
<1>2. s \in Seq(Co!Message) /\ talk \in [Conversations -> TalkRow]
  BY MessageType DEF TalkTypeOK
<1>3. talk' = [talk EXCEPT ![c].messages = Append(s, m)]
  BY DEF Co!Grown
<1> HIDE DEF m
<1>4. /\ Append(s, m) \in Seq(Co!Message) /\ k \in Nat
      /\ DOMAIN Append(s, m) = DOMAIN s \cup {k} /\ k \notin DOMAIN s
      /\ \A i \in DOMAIN s : Append(s, m)[i] = s[i]
      /\ Append(s, m)[k] = m
  BY <1>1, <1>2
<1> DEFINE t == Append(s, m)
<1>5. t \in Seq(Co!Message) /\ talk' = [talk EXCEPT ![c].messages = t]
  BY <1>3, <1>4
<1> HIDE DEF t
<1>6. /\ talk' \in [Conversations -> TalkRow]
      /\ talk'[c].owner = talk[c].owner /\ talk'[c].messages = t
      /\ \A d \in Conversations \ {c} : talk'[d] = talk[d]
  BY <1>2, <1>5 DEF TalkRow
<1> QED
  BY <1>1, <1>4, <1>6 DEF t

(* What a question or an answer more does to the sets of them. *)
LEMMA GrownSets ==
  ASSUME TalkTypeOK, NEW c \in Conversations, NEW role \in {"USER", "ASSISTANT"},
         NEW n \in 1..MaxTurns, NEW isError \in BOOLEAN, Co!Grown(c, role, n, isError),
         NEW k, k = Len(talk[c].messages) + 1
  PROVE  /\ Co!Questions(c)' = IF role = "USER" THEN Co!Questions(c) \cup {k} ELSE Co!Questions(c)
         /\ \A l \in 1..MaxTurns :
              Co!Answers(c, l)' = IF role = "ASSISTANT" /\ l = n THEN Co!Answers(c, l) \cup {k}
                               ELSE Co!Answers(c, l)
         /\ Asked(c)' = IF role = "USER" THEN Asked(c) + 1 ELSE Asked(c)
         /\ \A d \in Conversations \ {c} :
              /\ Co!Questions(d)' = Co!Questions(d) /\ Asked(d)' = Asked(d)
              /\ \A l : Co!Answers(d, l)' = Co!Answers(d, l)
<1>1. /\ talk' \in [Conversations -> TalkRow]
      /\ DOMAIN talk'[c].messages = DOMAIN talk[c].messages \cup {k}
      /\ k \notin DOMAIN talk[c].messages
      /\ \A i \in DOMAIN talk[c].messages : talk'[c].messages[i] = talk[c].messages[i]
      /\ talk'[c].messages[k].role = role /\ talk'[c].messages[k].turn = n
      /\ \A d \in Conversations \ {c} : talk'[d] = talk[d]
  BY GrownType
<1>2. Co!Questions(c)' = IF role = "USER" THEN Co!Questions(c) \cup {k} ELSE Co!Questions(c)
  BY <1>1 DEF Co!Questions
<1>3. ASSUME NEW l \in 1..MaxTurns
      PROVE  Co!Answers(c, l)' = IF role = "ASSISTANT" /\ l = n THEN Co!Answers(c, l) \cup {k}
                              ELSE Co!Answers(c, l)
  BY <1>1 DEF Co!Answers
<1>4. k \notin Co!Questions(c)
  BY <1>1 DEF Co!Questions
<1>5. Asked(c)' = IF role = "USER" THEN Asked(c) + 1 ELSE Asked(c)
  BY <1>2, <1>4, QuestionsFinite, FS_AddElement DEF Asked
<1>6. \A d \in Conversations \ {c} :
        /\ Co!Questions(d)' = Co!Questions(d) /\ Asked(d)' = Asked(d)
        /\ \A l : Co!Answers(d, l)' = Co!Answers(d, l)
  BY <1>1 DEF Co!Questions, Co!Answers, Asked
<1> QED
  BY <1>2, <1>3, <1>5, <1>6

LEMMA TalkInitInv == Co!Init => TalkInv
<1> SUFFICES ASSUME Co!Init PROVE TalkInv
  OBVIOUS
<1>1. TalkTypeOK
  BY TalkNoArgsType DEF Co!Init, TalkTypeOK, Co!Steps
<1>2. /\ \A c \in Conversations : talk[c] = Co!FreeTalk
      /\ \A r \in Requests : talkArg[r] = Co!NoArgs /\ talkPc[r] = "idle"
      /\ lost = {}
  BY DEF Co!Init
<1>3. ASSUME NEW c \in Conversations PROVE Numbered(c) /\ Answered(c)
  <2>1. \A n \in 1..MaxTurns : ~OpenTurn(c, n)
    <3>1. Null \notin 1..MaxTurns
      BY TalkAssumption DEF Co!ConstantsAssumption
    <3> QED
      BY <1>2, <3>1, TalkNoArgsType DEF OpenTurn, Holds
  <2>2. talk[c].messages = <<>> /\ Co!Questions(c) = {}
    BY <1>2, TalkNoArgsType DEF Co!Questions
  <2> QED
    BY <2>1, <2>2 DEF Numbered, Answered
<1>4. \A r \in Requests : AloneOnTurn(r)
  BY <1>2, TalkNoArgsType DEF AloneOnTurn
<1> QED
  BY <1>1, <1>3, <1>4 DEF TalkInv

-----------------------------------------------------------------------------
(* Steps that store no message, and open and close no turn *)
LEMMA SameTurns ==
  ASSUME TalkInv, TalkTypeOK',
         \A c \in Conversations : /\ talk'[c].messages = talk[c].messages
                                  /\ talk'[c].owner = Null => talk[c].owner = Null,
         \A c \in Conversations : \A n \in 1..MaxTurns : OpenTurn(c, n)' <=> OpenTurn(c, n),
         \A r \in Requests : AloneOnTurn(r)'
  PROVE  TalkInv'
<1>1. ASSUME NEW c \in Conversations PROVE Numbered(c)' /\ Answered(c)'
  <2>1. Co!Questions(c)' = Co!Questions(c) /\ Asked(c)' = Asked(c)
    BY DEF Co!Questions, Asked
  <2>2. \A n : Co!Answers(c, n)' = Co!Answers(c, n)
    BY DEF Co!Answers
  <2>3. Numbered(c) /\ Answered(c)
    BY DEF TalkInv
  <2>4. Numbered(c)'
    BY <2>1, <2>3 DEF Numbered
  <2>5. Answered(c)'
    BY <2>1, <2>2, <2>3 DEF Answered, Co!Questions
  <2> QED
    BY <2>4, <2>5
<1> QED
  BY <1>1 DEF TalkInv

(* A step of r that stores nothing, and stays in its turn *)
LEMMA TalkMoveInv ==
  ASSUME TalkInv, NEW r \in Requests, NEW step \in Co!Steps, NEW a \in TalkArgs, Co!Goto(r, step, a),
         UNCHANGED <<talk, lost>>,
         a.turn = talkArg[r].turn, a.conv = talkArg[r].conv \/ (a.turn = Null /\ talkArg[r].turn = Null),
         step = "idle" => a.turn = Null,
         step # "idle" => a.conv \in Conversations /\ talk[a.conv].owner # Null,
         step = "question" => a.turn = Null,
         step \notin {"idle", "question"} => a.turn # Null
  PROVE  TalkInv'
<1>1. /\ talkPc' \in [Requests -> Co!Steps] /\ talkArg' \in [Requests -> TalkArgs]
      /\ talkPc'[r] = step /\ talkArg'[r] = a
      /\ \A q \in Requests \ {r} : talkPc'[q] = talkPc[q] /\ talkArg'[q] = talkArg[q]
  BY DEF Co!Goto, TalkInv, TalkTypeOK
<1>2. TalkTypeOK'
  BY <1>1 DEF TalkInv, TalkTypeOK
<1>3. \A q \in Requests : \A c, n : n # Null => (Holds(q, c, n)' <=> Holds(q, c, n))
  BY <1>1 DEF Holds
<1>4. \A c \in Conversations : \A n \in 1..MaxTurns : OpenTurn(c, n)' <=> OpenTurn(c, n)
  <2>1. Null \notin 1..MaxTurns
    BY TalkAssumption DEF Co!ConstantsAssumption
  <2> QED
    BY <1>3, <2>1 DEF OpenTurn
<1>5. ASSUME NEW q \in Requests PROVE AloneOnTurn(q)'
  <2>1. \A p \in Requests : AloneOnTurn(p)
    BY DEF TalkInv
  <2>2. \A p \in Requests : /\ talkArg'[p].turn = talkArg[p].turn
                            /\ talkArg'[p].turn # Null => talkArg'[p].conv = talkArg[p].conv
    BY <1>1
  <2>3. talkArg'[q].turn # Null =>
          /\ <<talkArg'[q].conv, talkArg'[q].turn>> \notin lost'
          /\ \A p \in Requests :
               talkArg'[p].conv = talkArg'[q].conv /\ talkArg'[p].turn = talkArg'[q].turn => p = q
    <3>1. talkArg[q].turn # Null =>
            /\ <<talkArg[q].conv, talkArg[q].turn>> \notin lost
            /\ \A p \in Requests : talkArg[p].conv = talkArg[q].conv /\ talkArg[p].turn = talkArg[q].turn => p = q
      BY <2>1 DEF AloneOnTurn
    <3>2. lost' = lost
      OBVIOUS
    <3> QED
      BY <2>2, <3>1, <3>2
  <2>4. /\ talkPc'[q] = "idle" => talkArg'[q].turn = Null
        /\ talkPc'[q] # "idle" => talkArg'[q].conv \in Conversations /\ talk'[talkArg'[q].conv].owner # Null
        /\ talkPc'[q] = "question" => talkArg'[q].turn = Null
        /\ talkPc'[q] \notin {"idle", "question"} => talkArg'[q].turn # Null
    <3>1. CASE q = r
      BY <1>1, <3>1
    <3>2. CASE q # r
      BY <1>1, <2>1, <3>2 DEF AloneOnTurn
    <3> QED
      BY <3>1, <3>2
  <2> QED
    BY <2>3, <2>4 DEF AloneOnTurn
<1> QED
  BY <1>2, <1>4, <1>5, SameTurns

LEMMA TalkCreateInv ==
  ASSUME TalkInv, NEW u \in Users, NEW c \in Conversations, NEW about \in BOOLEAN,
         Co!CreateConversation(u, c, about)
  PROVE  TalkInv'
<1> DEFINE new == [Co!FreeTalk EXCEPT !.owner = u, !.vehicle = about]
<1>1. /\ talk[c].owner = Null /\ talk' = [talk EXCEPT ![c] = new]
      /\ UNCHANGED <<talkPc, talkArg, lost>>
  BY DEF Co!CreateConversation
<1>2. new \in TalkRow /\ new.owner = u /\ new.messages = <<>> /\ u # Null
  <2>1. <<>> \in Seq(Co!Message)
    OBVIOUS
  <2> QED
    BY <2>1, TalkAssumption DEF Co!FreeTalk, TalkRow, Co!ConstantsAssumption
<1> HIDE DEF new
<1>3. TalkTypeOK'
  BY <1>1, <1>2 DEF TalkInv, TalkTypeOK
<1>4. talk[c].messages = <<>>
  BY <1>1 DEF TalkInv, Numbered
<1>5. \A d \in Conversations : /\ talk'[d].messages = talk[d].messages
                               /\ talk'[d].owner = Null => talk[d].owner = Null
  BY <1>1, <1>2, <1>4 DEF TalkInv, TalkTypeOK
<1>6. \A d \in Conversations : \A n \in 1..MaxTurns : OpenTurn(d, n)' <=> OpenTurn(d, n)
  BY <1>1 DEF OpenTurn, Holds
<1>7. \A r \in Requests : AloneOnTurn(r)'
  BY <1>1, <1>5 DEF TalkInv, AloneOnTurn
<1> QED
  BY <1>3, <1>5, <1>6, <1>7, SameTurns

LEMMA VehicleGoneInv ==
  ASSUME TalkInv, NEW c \in Conversations, Co!VehicleGone(c)
  PROVE  TalkInv'
<1>1. talk' = [talk EXCEPT ![c].vehicle = FALSE] /\ UNCHANGED <<talkPc, talkArg, lost>>
  BY DEF Co!VehicleGone
<1>2. /\ talk' \in [Conversations -> TalkRow]
      /\ \A d \in Conversations : /\ talk'[d].messages = talk[d].messages
                                  /\ talk'[d].owner = talk[d].owner
  BY <1>1 DEF TalkInv, TalkTypeOK, TalkRow
<1>3. TalkTypeOK'
  BY <1>1, <1>2 DEF TalkInv, TalkTypeOK
<1>6. \A d \in Conversations : \A n \in 1..MaxTurns : OpenTurn(d, n)' <=> OpenTurn(d, n)
  BY <1>1 DEF OpenTurn, Holds
<1>7. \A r \in Requests : AloneOnTurn(r)'
  BY <1>1, <1>2 DEF TalkInv, AloneOnTurn
<1> QED
  BY <1>2, <1>3, <1>6, <1>7, SameTurns

LEMMA OpenMessageInv ==
  ASSUME TalkInv, NEW r \in Requests, NEW u \in Users, NEW c \in Conversations, Co!OpenMessage(r, u, c)
  PROVE  TalkInv'
<1> DEFINE a == [Co!NoArgs EXCEPT !.conv = c, !.vehicle = talk[c].vehicle]
<1>1. /\ talkPc[r] = "idle" /\ talk[c].owner = u /\ Co!Goto(r, "question", a) /\ UNCHANGED <<talk, lost>>
  BY DEF Co!OpenMessage
<1>2. a \in TalkArgs /\ a.conv = c /\ a.turn = Null
  <2>1. talk[c].vehicle \in BOOLEAN
    BY DEF TalkInv, TalkTypeOK, TalkRow
  <2>2. Co!NoArgs.history \in {h \in Seq(Co!Message) : Len(h) <= HistoryWindow}
    BY TalkNoArgsType DEF TalkArgs
  <2> HIDE DEF a
  <2>3. a = [Co!NoArgs EXCEPT !.conv = c, !.vehicle = talk[c].vehicle]
    BY DEF a
  <2> QED
    BY <2>1, <2>2, <2>3 DEF Co!NoArgs, TalkArgs
<1>3. u # Null /\ "question" \in Co!Steps
  BY TalkAssumption DEF Co!ConstantsAssumption, Co!Steps
<1>4. talkArg[r].turn = Null
  BY <1>1 DEF TalkInv, AloneOnTurn
<1> HIDE DEF a
<1> QED
  BY <1>1, <1>2, <1>3, <1>4, TalkMoveInv

LEMMA SaveQuestionInv ==
  ASSUME TalkInv, NEW r \in Requests, Co!SaveQuestion(r)
  PROVE  TalkInv'
<1>0. talkArg[r].conv \in Conversations
  BY DEF Co!SaveQuestion, TalkInv, AloneOnTurn
<1>c. PICK c \in Conversations : c = talkArg[r].conv
  BY <1>0
<1>3. Asked(c) \in Nat /\ TalkTypeOK
  BY QuestionsFinite DEF TalkInv
<1>n. PICK n \in Nat : n = Asked(c) + 1
  BY <1>3
<1>k. PICK k : k = Len(talk[c].messages) + 1
  OBVIOUS
<1> DEFINE a == [talkArg[r] EXCEPT !.turn = n]
<1>1. /\ talkPc[r] = "question" /\ n <= MaxTurns /\ Co!Grown(c, "USER", n, FALSE)
      /\ Co!Goto(r, "prompt", a) /\ lost' = lost
  BY <1>c, <1>n, SameCardinality DEF Co!SaveQuestion, Asked
<1>2. talk[c].owner # Null /\ talkArg[r].turn = Null
  BY <1>1, <1>c DEF TalkInv, AloneOnTurn
<1>4. n \in 1..MaxTurns /\ n # Null
  BY <1>1, <1>3, <1>n, TalkAssumption DEF Co!ConstantsAssumption
<1>5. a \in TalkArgs /\ a.turn = n /\ a.conv = c
  BY <1>3, <1>4, <1>c DEF TalkTypeOK, TalkArgs
<1> HIDE DEF a
<1>6. /\ talkPc' \in [Requests -> Co!Steps] /\ talkArg' \in [Requests -> TalkArgs]
      /\ talkPc'[r] = "prompt" /\ talkArg'[r] = a
      /\ \A q \in Requests \ {r} : talkPc'[q] = talkPc[q] /\ talkArg'[q] = talkArg[q]
  BY <1>1, <1>3, <1>5 DEF Co!Goto, TalkTypeOK, Co!Steps
<1>7. /\ talk' \in [Conversations -> TalkRow]
      /\ talk'[c].owner = talk[c].owner
      /\ DOMAIN talk'[c].messages = DOMAIN talk[c].messages \cup {k}
      /\ k \notin DOMAIN talk[c].messages
      /\ \A i \in DOMAIN talk[c].messages : talk'[c].messages[i] = talk[c].messages[i]
      /\ talk'[c].messages[k].role = "USER" /\ talk'[c].messages[k].turn = n
      /\ \A d \in Conversations \ {c} : talk'[d] = talk[d]
  <2> DEFINE role == "USER"
             isError == FALSE
  <2>2. role \in {"USER", "ASSISTANT"} /\ isError \in BOOLEAN /\ Co!Grown(c, role, n, isError)
    BY <1>1
  <2> HIDE DEF role, isError
  <2>3. /\ talk' \in [Conversations -> TalkRow]
        /\ talk'[c].owner = talk[c].owner
        /\ DOMAIN talk'[c].messages = DOMAIN talk[c].messages \cup {k}
        /\ k \notin DOMAIN talk[c].messages
        /\ \A i \in DOMAIN talk[c].messages : talk'[c].messages[i] = talk[c].messages[i]
        /\ talk'[c].messages[k].role = role /\ talk'[c].messages[k].turn = n
        /\ \A d \in Conversations \ {c} : talk'[d] = talk[d]
    BY <1>3, <1>4, <1>k, <2>2, GrownType
  <2> QED
    BY <2>3 DEF role
<1>8. /\ Co!Questions(c)' = Co!Questions(c) \cup {k}
      /\ \A l \in 1..MaxTurns : Co!Answers(c, l)' = Co!Answers(c, l)
      /\ Asked(c)' = n
      /\ \A d \in Conversations \ {c} :
           /\ Co!Questions(d)' = Co!Questions(d) /\ Asked(d)' = Asked(d)
           /\ \A l : Co!Answers(d, l)' = Co!Answers(d, l)
  BY <1>1, <1>3, <1>4, <1>k, <1>n, GrownSets, ZenonT(40)
<1>9. TalkTypeOK'
  BY <1>1, <1>3, <1>6, <1>7 DEF TalkTypeOK
<1>10. \A d \in Conversations : \A l \in 1..MaxTurns :
         OpenTurn(d, l)' <=> OpenTurn(d, l) \/ (d = c /\ l = n)
  <2>1. Null \notin 1..MaxTurns
    BY TalkAssumption DEF Co!ConstantsAssumption
  <2> QED
    BY <1>1, <1>2, <1>5, <1>6, <2>1 DEF OpenTurn, Holds
<1>11. ~OpenTurn(c, n) /\ Co!Answers(c, n) = {}
  <2>1. Numbered(c)
    BY <1>2 DEF TalkInv
  <2>2. ~OpenTurn(c, n)
    BY <1>3, <1>4, <1>n, <2>1 DEF Numbered
  <2>3. \A i \in DOMAIN talk[c].messages : talk[c].messages[i].turn # n
    BY <1>3, <1>n, <2>1, MessageType DEF Numbered
  <2> QED
    BY <2>2, <2>3 DEF Co!Answers
<1>12. ASSUME NEW d \in Conversations PROVE Numbered(d)' /\ Answered(d)'
  <2>1. Numbered(d) /\ Answered(d) /\ Numbered(c) /\ Answered(c)
    BY <1>2 DEF TalkInv
  <2>2. CASE d # c
    <3>1. talk'[d] = talk[d] /\ \A l \in 1..MaxTurns : OpenTurn(d, l)' <=> OpenTurn(d, l)
      BY <1>7, <1>10, <2>2
    <3>2. Numbered(d)'
      BY <1>8, <2>1, <2>2, <3>1 DEF Numbered
    <3>3. /\ Co!Questions(d)' = Co!Questions(d)
          /\ \A l \in 1..MaxTurns : Co!Answers(d, l)' = Co!Answers(d, l)
      BY <1>8, <2>2
    <3>4. Answered(d)'
      BY <2>1, <3>1, <3>3 DEF Answered
    <3> QED
      BY <3>2, <3>4
  <2>3. CASE d = c
    <3>1. /\ \A i \in DOMAIN talk[c].messages :
               talk[c].messages[i].turn \in Int /\ talk[c].messages[i].turn <= Asked(c)
          /\ Asked(c) + 1 = n
      BY <1>3, <1>n, <2>1, MessageType DEF Numbered
    <3>2. \A i \in DOMAIN talk'[c].messages : talk'[c].messages[i].turn <= n
      BY <1>3, <1>4, <1>7, <3>1
    <3>3. \A l \in 1..MaxTurns : OpenTurn(c, l)' => l <= n
      BY <1>2, <1>3, <1>4, <1>10, <2>1, <3>1 DEF Numbered
    <3>4. Numbered(c)'
      BY <1>2, <1>7, <1>8, <3>2, <3>3 DEF Numbered
    <3>5. ASSUME NEW l \in 1..MaxTurns
          PROVE  /\ OpenTurn(c, l)' => Co!Answers(c, l)' = {}
                 /\ ~OpenTurn(c, l)' => \A i \in Co!Questions(c)' :
                      talk'[c].messages[i].turn = l => \E j : Co!Answers(c, l)' = {j}
      <4>1. CASE l = n
        BY <1>2, <1>8, <1>10, <1>11, <4>1
      <4>2. CASE l # n
        <5>1. OpenTurn(c, l)' <=> OpenTurn(c, l)
          BY <1>2, <1>10, <4>2
        <5>2. Co!Answers(c, l)' = Co!Answers(c, l)
          BY <1>8
        <5>3. \A i \in Co!Questions(c)' : talk'[c].messages[i].turn = l =>
                i \in Co!Questions(c) /\ talk[c].messages[i].turn = l
          BY <1>7, <1>8, <4>2 DEF Co!Questions
        <5> QED
          BY <2>1, <5>1, <5>2, <5>3 DEF Answered
      <4> QED
        BY <4>1, <4>2
    <3>6. Answered(c)'
      BY <3>5 DEF Answered
    <3> QED
      BY <2>3, <3>4, <3>6
  <2> QED
    BY <2>2, <2>3
<1>13. ASSUME NEW q \in Requests PROVE AloneOnTurn(q)'
  <2>1. \A p \in Requests : AloneOnTurn(p)
    BY DEF TalkInv
  <2>2. \A p \in Requests \ {r} : ~(talkArg[p].conv = c /\ talkArg[p].turn = n)
    BY <1>11 DEF OpenTurn, Holds
  <2>3. <<c, n>> \notin lost
    BY <1>11 DEF OpenTurn
  <2>4. talkArg'[q].turn # Null =>
          /\ <<talkArg'[q].conv, talkArg'[q].turn>> \notin lost'
          /\ \A p \in Requests :
               talkArg'[p].conv = talkArg'[q].conv /\ talkArg'[p].turn = talkArg'[q].turn => p = q
    <3>1. CASE q = r
      BY <1>1, <1>5, <1>6, <2>2, <2>3, <3>1
    <3>2. CASE q # r
      BY <1>1, <1>5, <1>6, <2>1, <2>2, <3>2 DEF AloneOnTurn
    <3> QED
      BY <3>1, <3>2
  <2>5. \A d \in Conversations : talk'[d].owner = talk[d].owner
    BY <1>7
  <2>6. /\ talkPc'[q] = "idle" => talkArg'[q].turn = Null
        /\ talkPc'[q] # "idle" => talkArg'[q].conv \in Conversations /\ talk'[talkArg'[q].conv].owner # Null
        /\ talkPc'[q] = "question" => talkArg'[q].turn = Null
        /\ talkPc'[q] \notin {"idle", "question"} => talkArg'[q].turn # Null
    <3>1. CASE q = r
      BY <1>2, <1>4, <1>5, <1>6, <2>5, <3>1
    <3>2. CASE q # r
      BY <1>6, <2>1, <2>5, <3>2, ZenonT(40) DEF AloneOnTurn
    <3> QED
      BY <3>1, <3>2
  <2> QED
    BY <2>4, <2>6 DEF AloneOnTurn
<1> QED
  BY <1>9, <1>12, <1>13 DEF TalkInv

LEMMA PromptInv ==
  ASSUME TalkInv, NEW r \in Requests, NEW ok \in BOOLEAN, Co!Prompt(r, ok)
  PROVE  TalkInv'
<1> DEFINE a == [talkArg[r] EXCEPT !.vehicle = @ /\ ok]
<1>1. talkPc[r] = "prompt" /\ Co!Goto(r, "history", a) /\ UNCHANGED <<talk, lost>>
  BY DEF Co!Prompt
<1>2. a \in TalkArgs /\ a.turn = talkArg[r].turn /\ a.conv = talkArg[r].conv
  <2>1. talkArg[r] \in TalkArgs /\ (talkArg[r].vehicle /\ ok) \in BOOLEAN
    BY DEF TalkInv, TalkTypeOK
  <2> QED
    BY <2>1 DEF TalkArgs
<1>3. talkArg[r].turn # Null /\ talkArg[r].conv \in Conversations /\ talk[talkArg[r].conv].owner # Null
  BY <1>1 DEF TalkInv, AloneOnTurn
<1> HIDE DEF a
<1> QED
  BY <1>1, <1>2, <1>3, TalkMoveInv DEF Co!Steps

LEMMA ReadHistoryInv ==
  ASSUME TalkInv, NEW r \in Requests, Co!ReadHistory(r)
  PROVE  TalkInv'
<1> DEFINE h == Co!findByIdWithMessages(talkArg[r].conv)
           a == [talkArg[r] EXCEPT !.history = h]
<1>1. talkPc[r] = "history" /\ Co!Goto(r, "stream", a) /\ UNCHANGED <<talk, lost>>
  BY DEF Co!ReadHistory
<1>2. talkArg[r].turn # Null /\ talkArg[r].conv \in Conversations /\ talk[talkArg[r].conv].owner # Null
  BY <1>1 DEF TalkInv, AloneOnTurn
<1>3. h \in Seq(Co!Message) /\ Len(h) <= HistoryWindow
  <2> DEFINE s == talk[talkArg[r].conv].messages
             n == IF Len(s) < HistoryWindow THEN Len(s) ELSE HistoryWindow
  <2>1. s \in Seq(Co!Message) /\ HistoryWindow \in Nat
    BY <1>2, MessageType, TalkAssumption DEF TalkInv, Co!ConstantsAssumption
  <2>2. n \in 0..Len(s) /\ n <= HistoryWindow /\ h = SubSeq(s, 1, n)
    BY <2>1 DEF Co!findByIdWithMessages
  <2> HIDE DEF s, n, h
  <2> QED
    BY <2>1, <2>2
<1> HIDE DEF h
<1>4. a \in TalkArgs /\ a.turn = talkArg[r].turn /\ a.conv = talkArg[r].conv
  BY <1>3 DEF TalkInv, TalkTypeOK, TalkArgs
<1> HIDE DEF a
<1> QED
  BY <1>1, <1>2, <1>4, TalkMoveInv DEF Co!Steps

LEMMA StreamInv ==
  ASSUME TalkInv, NEW r \in Requests, NEW ok \in BOOLEAN, Co!Stream(r, ok)
  PROVE  TalkInv'
<1> DEFINE a == [talkArg[r] EXCEPT !.history = <<>>]
           step == IF ok THEN "answer" ELSE "apologise"
<1>1. talkPc[r] = "stream" /\ Co!Goto(r, step, a) /\ UNCHANGED <<talk, lost>>
  BY DEF Co!Stream
<1>2. a \in TalkArgs /\ a.turn = talkArg[r].turn /\ a.conv = talkArg[r].conv
  <2>1. <<>> \in {h \in Seq(Co!Message) : Len(h) <= HistoryWindow}
    BY TalkAssumption DEF Co!ConstantsAssumption
  <2>2. talkArg[r] \in TalkArgs
    BY DEF TalkInv, TalkTypeOK
  <2> QED
    BY <2>1, <2>2 DEF TalkArgs
<1>3. talkArg[r].turn # Null /\ talkArg[r].conv \in Conversations /\ talk[talkArg[r].conv].owner # Null
  BY <1>1 DEF TalkInv, AloneOnTurn
<1>4. step \in {"answer", "apologise"}
  OBVIOUS
<1> HIDE DEF a, step
<1> QED
  BY <1>1, <1>2, <1>3, <1>4, TalkMoveInv DEF Co!Steps

LEMMA SaveAnswerFailsInv ==
  ASSUME TalkInv, NEW r \in Requests, Co!SaveAnswerFails(r)
  PROVE  TalkInv'
<1>1. talkPc[r] = "answer" /\ Co!Goto(r, "apologise", talkArg[r]) /\ UNCHANGED <<talk, lost>>
  BY DEF Co!SaveAnswerFails
<1>2. talkArg[r] \in TalkArgs
  BY DEF TalkInv, TalkTypeOK
<1>3. talkArg[r].turn # Null /\ talkArg[r].conv \in Conversations /\ talk[talkArg[r].conv].owner # Null
  BY <1>1 DEF TalkInv, AloneOnTurn
<1> QED
  BY <1>1, <1>2, <1>3, TalkMoveInv DEF Co!Steps

(* An answer, or an error in its place, closes the turn. *)
LEMMA AnswerInv ==
  ASSUME TalkInv, NEW r \in Requests, talkPc[r] \in {"answer", "apologise"}, NEW isError \in BOOLEAN,
         Co!Grown(talkArg[r].conv, "ASSISTANT", talkArg[r].turn, isError), Co!Goto(r, "idle", Co!NoArgs),
         lost' = lost
  PROVE  TalkInv'
<1>0. talkArg[r].conv \in Conversations /\ talkArg[r].turn \in 1..MaxTurns /\ TalkTypeOK
  BY TalkArgType DEF TalkInv, AloneOnTurn
<1>c. PICK c \in Conversations : c = talkArg[r].conv
  BY <1>0
<1>n. PICK n \in 1..MaxTurns : n = talkArg[r].turn
  BY <1>0
<1>k. PICK k : k = Len(talk[c].messages) + 1
  OBVIOUS
<1> DEFINE role == "ASSISTANT"
<1>1. Co!Grown(c, role, n, isError) /\ role \in {"USER", "ASSISTANT"}
  BY <1>c, <1>n
<1> HIDE DEF role
<1>2. n # Null
  BY <1>n, TalkArgType DEF TalkInv
<1>3. /\ talkPc' \in [Requests -> Co!Steps] /\ talkArg' \in [Requests -> TalkArgs]
      /\ talkPc'[r] = "idle" /\ talkArg'[r] = Co!NoArgs
      /\ \A q \in Requests \ {r} : talkPc'[q] = talkPc[q] /\ talkArg'[q] = talkArg[q]
  BY <1>0, TalkNoArgsType DEF Co!Goto, TalkTypeOK, Co!Steps
<1>4. /\ talk' \in [Conversations -> TalkRow]
      /\ talk'[c].owner = talk[c].owner
      /\ DOMAIN talk'[c].messages = DOMAIN talk[c].messages \cup {k}
      /\ k \notin DOMAIN talk[c].messages
      /\ \A i \in DOMAIN talk[c].messages : talk'[c].messages[i] = talk[c].messages[i]
      /\ talk'[c].messages[k].role = role /\ talk'[c].messages[k].turn = n
      /\ \A d \in Conversations \ {c} : talk'[d] = talk[d]
  BY <1>0, <1>1, <1>k, GrownType
<1>5. /\ Co!Questions(c)' = Co!Questions(c) /\ Asked(c)' = Asked(c)
      /\ \A l \in 1..MaxTurns :
           Co!Answers(c, l)' = IF l = n THEN Co!Answers(c, l) \cup {k} ELSE Co!Answers(c, l)
      /\ \A d \in Conversations \ {c} :
           /\ Co!Questions(d)' = Co!Questions(d) /\ Asked(d)' = Asked(d)
           /\ \A l : Co!Answers(d, l)' = Co!Answers(d, l)
  BY <1>0, <1>1, <1>k, GrownSets DEF role
<1>6. TalkTypeOK'
  BY <1>0, <1>3, <1>4 DEF TalkTypeOK
<1>7. \A p \in Requests : AloneOnTurn(p)
  BY DEF TalkInv
<1>8. \A d \in Conversations : \A l \in 1..MaxTurns :
        OpenTurn(d, l)' <=> OpenTurn(d, l) /\ ~(d = c /\ l = n)
  <2>1. Null \notin 1..MaxTurns
    BY TalkAssumption DEF Co!ConstantsAssumption
  <2>2. \A d \in Conversations : \A l \in 1..MaxTurns :
          (\E q \in Requests : Holds(q, d, l)') <=>
            (\E q \in Requests : Holds(q, d, l)) /\ ~(d = c /\ l = n)
    <3>1. \A q \in Requests \ {r} : ~(talkArg[q].conv = c /\ talkArg[q].turn = n)
      BY <1>2, <1>7, <1>c, <1>n DEF AloneOnTurn
    <3>2. \A d \in Conversations : \A l \in 1..MaxTurns : Holds(r, d, l) <=> d = c /\ l = n
      BY <1>c, <1>n DEF Holds
    <3>3. \A d \in Conversations : \A l \in 1..MaxTurns : ~Holds(r, d, l)'
      BY <1>3, <2>1, TalkNoArgsType DEF Holds
    <3>4. \A q \in Requests \ {r} : \A d \in Conversations : \A l \in 1..MaxTurns :
            (Holds(q, d, l)' <=> Holds(q, d, l)) /\ ~(Holds(q, d, l) /\ d = c /\ l = n)
      BY <1>3, <3>1 DEF Holds
    <3> QED
      BY <3>2, <3>3, <3>4
  <2>3. <<c, n>> \notin lost
    BY <1>2, <1>7, <1>c, <1>n DEF AloneOnTurn
  <2> QED
    BY <2>2, <2>3 DEF OpenTurn
<1>9. OpenTurn(c, n)
  BY <1>c, <1>n DEF OpenTurn, Holds
<1>10. ASSUME NEW d \in Conversations PROVE Numbered(d)' /\ Answered(d)'
  <2>1. Numbered(d) /\ Answered(d) /\ Numbered(c) /\ Answered(c)
    BY DEF TalkInv
  <2>2. CASE d # c
    <3>1. talk'[d] = talk[d] /\ \A l \in 1..MaxTurns : OpenTurn(d, l)' <=> OpenTurn(d, l)
      BY <1>4, <1>8, <2>2
    <3>2. /\ Co!Questions(d)' = Co!Questions(d) /\ Asked(d)' = Asked(d)
          /\ \A l \in 1..MaxTurns : Co!Answers(d, l)' = Co!Answers(d, l)
      BY <1>5, <2>2
    <3>3. Numbered(d)'
      BY <2>1, <3>1, <3>2 DEF Numbered
    <3>4. Answered(d)'
      BY <2>1, <3>1, <3>2 DEF Answered
    <3> QED
      BY <3>3, <3>4
  <2>3. CASE d = c
    <3>1. n <= Asked(c) /\ Co!Answers(c, n) = {}
      BY <1>9, <2>1 DEF Numbered, Answered
    <3>2. talk[c].owner # Null
      BY <1>7, <1>c DEF AloneOnTurn
    <3>3. Numbered(c)'
      BY <1>4, <1>5, <1>8, <2>1, <3>1, <3>2 DEF Numbered
    <3>4. ASSUME NEW l \in 1..MaxTurns
          PROVE  /\ OpenTurn(c, l)' => Co!Answers(c, l)' = {}
                 /\ ~OpenTurn(c, l)' => \A i \in Co!Questions(c)' :
                      talk'[c].messages[i].turn = l => \E j : Co!Answers(c, l)' = {j}
      <4>1. CASE l = n
        BY <1>5, <1>8, <3>1, <4>1
      <4>2. CASE l # n
        <5>1. OpenTurn(c, l)' <=> OpenTurn(c, l)
          BY <1>8, <4>2
        <5>2. Co!Answers(c, l)' = Co!Answers(c, l)
          BY <1>5, <4>2
        <5>3. \A i \in Co!Questions(c)' : talk'[c].messages[i].turn = l =>
                i \in Co!Questions(c) /\ talk[c].messages[i].turn = l
          BY <1>4, <1>5 DEF Co!Questions
        <5> QED
          BY <2>1, <5>1, <5>2, <5>3 DEF Answered
      <4> QED
        BY <4>1, <4>2
    <3>5. Answered(c)'
      BY <3>4 DEF Answered
    <3> QED
      BY <2>3, <3>3, <3>5
  <2> QED
    BY <2>2, <2>3
<1>11. ASSUME NEW q \in Requests PROVE AloneOnTurn(q)'
  <2>1. \A d \in Conversations : talk'[d].owner = talk[d].owner
    BY <1>4
  <2>2. CASE q = r
    BY <1>3, <2>2, TalkNoArgsType DEF AloneOnTurn
  <2>3. CASE q # r
    <3>1. talkArg'[q] = talkArg[q] /\ talkPc'[q] = talkPc[q] /\ talkArg'[r].turn = Null
      BY <1>3, <2>3, TalkNoArgsType
    <3>2. talkArg[q].turn # Null =>
            /\ <<talkArg[q].conv, talkArg[q].turn>> \notin lost'
            /\ \A p \in Requests : talkArg'[p].conv = talkArg[q].conv /\ talkArg'[p].turn = talkArg[q].turn => p = q
      BY <1>3, <1>7, <3>1 DEF AloneOnTurn
    <3> QED
      BY <1>7, <2>1, <3>1, <3>2 DEF AloneOnTurn
  <2> QED
    BY <2>2, <2>3
<1> QED
  BY <1>6, <1>10, <1>11 DEF TalkInv

(* Requests that end before their answer: their turns are given up. *)
LEMMA TalkLoseInv ==
  ASSUME TalkInv, NEW Ended \in SUBSET Requests, talk' = talk,
         talkPc' \in [Requests -> Co!Steps], talkArg' \in [Requests -> TalkArgs],
         \A r \in Ended : talkPc'[r] = "idle" /\ talkArg'[r] = Co!NoArgs,
         \A r \in Requests \ Ended : talkPc'[r] = talkPc[r] /\ talkArg'[r] = talkArg[r],
         lost' = lost \cup {<<talkArg[r].conv, talkArg[r].turn>> : r \in {q \in Ended : talkArg[q].turn # Null}}
  PROVE  TalkInv'
<1>1. \A p \in Requests : AloneOnTurn(p)
  BY DEF TalkInv
<1>2. \A r \in Ended : talkArg[r].turn # Null => talkArg[r].conv \in Conversations /\ talkArg[r].turn \in 1..MaxTurns
  BY <1>1, TalkArgType DEF AloneOnTurn, TalkInv
<1>3. TalkTypeOK'
  BY <1>2 DEF TalkInv, TalkTypeOK
<1>4. \A d \in Conversations : \A l \in 1..MaxTurns : OpenTurn(d, l)' <=> OpenTurn(d, l)
  <2> SUFFICES ASSUME NEW d \in Conversations, NEW l \in 1..MaxTurns
               PROVE  OpenTurn(d, l)' <=> OpenTurn(d, l)
    OBVIOUS
  <2>1. l # Null
    BY TalkAssumption DEF Co!ConstantsAssumption
  <2>2. <<d, l>> \in lost' <=> <<d, l>> \in lost \/ \E r \in Ended : Holds(r, d, l)
    BY <2>1 DEF Holds
  <2>3. \A r \in Ended : ~Holds(r, d, l)'
    BY <2>1, TalkNoArgsType DEF Holds
  <2>4. \A r \in Requests \ Ended : Holds(r, d, l)' <=> Holds(r, d, l)
    BY DEF Holds
  <2> QED
    BY <2>2, <2>3, <2>4 DEF OpenTurn
<1>5. ASSUME NEW q \in Requests PROVE AloneOnTurn(q)'
  <2>1. CASE q \in Ended
    BY <2>1, TalkNoArgsType DEF AloneOnTurn
  <2>2. CASE q \notin Ended
    <3>1. talkArg'[q] = talkArg[q] /\ talkPc'[q] = talkPc[q]
      BY <2>2
    <3>2. \A p \in Requests : talkArg'[p] = talkArg[p] \/ talkArg'[p].turn = Null
      BY TalkNoArgsType
    <3>3. talkArg[q].turn # Null => \A p \in Requests :
            talkArg'[p].conv = talkArg[q].conv /\ talkArg'[p].turn = talkArg[q].turn => p = q
      <4>1. talkArg[q].turn # Null => \A p \in Requests :
              talkArg[p].conv = talkArg[q].conv /\ talkArg[p].turn = talkArg[q].turn => p = q
        BY <1>1 DEF AloneOnTurn
      <4> QED
        BY <3>2, <4>1
    <3>4. talkArg[q].turn # Null => <<talkArg[q].conv, talkArg[q].turn>> \notin lost'
      BY <1>1, <2>2 DEF AloneOnTurn
    <3> QED
      BY <1>1, <3>1, <3>3, <3>4 DEF AloneOnTurn
  <2> QED
    BY <2>1, <2>2
<1> QED
  BY <1>3, <1>4, <1>5, SameTurns

LEMMA TalkFailInv ==
  ASSUME TalkInv, NEW r \in Requests, Co!Fail(r)
  PROVE  TalkInv'
<1>1. /\ talkPc[r] \in {"question", "history"} /\ Co!Goto(r, "idle", Co!NoArgs) /\ talk' = talk
      /\ lost' = IF talkArg[r].turn = Null THEN lost ELSE lost \cup {<<talkArg[r].conv, talkArg[r].turn>>}
  BY DEF Co!Fail
<1>2. /\ talkPc' \in [Requests -> Co!Steps] /\ talkArg' \in [Requests -> TalkArgs]
      /\ talkPc'[r] = "idle" /\ talkArg'[r] = Co!NoArgs
      /\ \A q \in Requests \ {r} : talkPc'[q] = talkPc[q] /\ talkArg'[q] = talkArg[q]
  BY <1>1, TalkNoArgsType DEF Co!Goto, TalkInv, TalkTypeOK, Co!Steps
<1>3. lost' = lost \cup {<<talkArg[q].conv, talkArg[q].turn>> : q \in {p \in {r} : talkArg[p].turn # Null}}
  BY <1>1
<1> DEFINE Ended == {r}
<1>4. Ended \in SUBSET Requests /\ \A q : q \in Ended <=> q = r
  OBVIOUS
<1>5. lost' = lost \cup {<<talkArg[q].conv, talkArg[q].turn>> : q \in {p \in Ended : talkArg[p].turn # Null}}
  BY <1>3
<1> HIDE DEF Ended
<1> QED
  BY <1>1, <1>2, <1>4, <1>5, TalkLoseInv

LEMMA TalkCrashInv == TalkInv /\ Co!Crash => TalkInv'
<1> SUFFICES ASSUME TalkInv, Co!Crash PROVE TalkInv'
  OBVIOUS
<1>1. /\ lost' = lost \cup {<<talkArg[r].conv, talkArg[r].turn>> : r \in {q \in Requests : talkArg[q].turn # Null}}
      /\ talkPc' = [r \in Requests |-> "idle"] /\ talkArg' = [r \in Requests |-> Co!NoArgs] /\ talk' = talk
  BY DEF Co!Crash
<1>2. talkPc' \in [Requests -> Co!Steps] /\ talkArg' \in [Requests -> TalkArgs]
  BY <1>1, TalkNoArgsType DEF Co!Steps
<1>3. \A r \in Requests : talkPc'[r] = "idle" /\ talkArg'[r] = Co!NoArgs
  BY <1>1
<1> QED
  BY <1>1, <1>2, <1>3, TalkLoseInv

LEMMA TalkNextInv == TalkInv /\ [Co!Next]_(Co!vars) => TalkInv'
<1> SUFFICES ASSUME TalkInv, [Co!Next]_(Co!vars) PROVE TalkInv'
  OBVIOUS
<1>1. ASSUME NEW c \in Conversations, Co!VehicleGone(c) PROVE TalkInv'
  BY <1>1, VehicleGoneInv
<1>2. ASSUME NEW c \in Conversations, NEW u \in Users, Co!Commands(u, c) PROVE TalkInv'
  BY <1>2, TalkCreateInv, OpenMessageInv DEF Co!Commands
<1>3. ASSUME NEW r \in Requests, Co!SaveQuestion(r) \/ Co!ReadHistory(r) \/ Co!SaveAnswerFails(r) \/ Co!Fail(r)
      PROVE TalkInv'
  BY <1>3, SaveQuestionInv, ReadHistoryInv, SaveAnswerFailsInv, TalkFailInv
<1>4. ASSUME NEW r \in Requests, Co!SaveAnswer(r) PROVE TalkInv'
  BY <1>4, AnswerInv DEF Co!SaveAnswer
<1>5. ASSUME NEW r \in Requests, Co!SaveError(r) PROVE TalkInv'
  BY <1>5, AnswerInv DEF Co!SaveError
<1>6. ASSUME NEW r \in Requests, NEW ok \in BOOLEAN, Co!Prompt(r, ok) \/ Co!Stream(r, ok) PROVE TalkInv'
  BY <1>6, PromptInv, StreamInv
<1>7. CASE Co!Crash
  BY <1>7, TalkCrashInv
<1>8. CASE UNCHANGED Co!vars
  <2>1. UNCHANGED <<talk, talkPc, talkArg, lost>>
    BY <1>8 DEF Co!vars
  <2>2. TalkTypeOK' /\ \A r \in Requests : AloneOnTurn(r)'
    BY <2>1 DEF TalkInv, TalkTypeOK, AloneOnTurn
  <2>3. \A c \in Conversations : \A n \in 1..MaxTurns : OpenTurn(c, n)' <=> OpenTurn(c, n)
    BY <2>1 DEF OpenTurn, Holds
  <2> QED
    BY <2>1, <2>2, <2>3, SameTurns
<1> QED
  BY <1>1, <1>2, <1>3, <1>4, <1>5, <1>6, <1>7, <1>8 DEF Co!Next

LEMMA TalkPromises == TalkInv => Co!TypeOK /\ Co!EveryTurnAnswered
<1> SUFFICES ASSUME TalkInv PROVE Co!TypeOK /\ Co!EveryTurnAnswered
  OBVIOUS
<1>1. Co!TypeOK
  <2>1. \A c \in Conversations : talk[c].owner \in Users \cup {Null} /\ talk[c].vehicle \in BOOLEAN
    BY DEF TalkInv, TalkTypeOK, TalkRow
  <2> QED
    BY <2>1, MessageType, TalkArgType DEF TalkInv, TalkTypeOK, Co!TypeOK
<1>2. ASSUME NEW c \in Conversations, NEW i \in Co!Questions(c), NEW n, n = talk[c].messages[i].turn,
             NEW pending, pending = \E r \in Requests : talkArg[r].conv = c /\ talkArg[r].turn = n
      PROVE  Cardinality(Co!Answers(c, n)) = IF pending \/ <<c, n>> \in lost THEN 0 ELSE 1
  <2>1. n \in 1..MaxTurns
    BY <1>2, MessageType DEF TalkInv, Co!Questions
  <2>2. OpenTurn(c, n) <=> pending \/ <<c, n>> \in lost
    BY <1>2 DEF OpenTurn, Holds
  <2>3. Answered(c)
    BY DEF TalkInv
  <2>4. CASE OpenTurn(c, n)
    BY <2>1, <2>2, <2>3, <2>4, FS_EmptySet DEF Answered
  <2>5. CASE ~OpenTurn(c, n)
    <3>1. PICK j : Co!Answers(c, n) = {j}
      BY <1>2, <2>1, <2>3, <2>5 DEF Answered
    <3> QED
      BY <2>2, <2>5, <3>1, FS_Singleton
  <2> QED
    BY <2>4, <2>5
<1>3. Co!EveryTurnAnswered
  BY <1>2, SameCardinality DEF Co!EveryTurnAnswered
<1> QED
  BY <1>1, <1>3

-----------------------------------------------------------------------------
(* The period before *)

LEMMA StatsAssumption == Sta!ConstantsAssumption
BY ServicesAssumption

(* The lengths of months, of which the proofs use nothing else *)
LEMMA MonthLength ==
  \A y \in Int : \A m \in 0..11 :
    /\ Sta!DaysIn(y, m) \in 28..31
    /\ m \in {0, 2, 4, 6, 7, 9, 11} => Sta!DaysIn(y, m) = 31
    /\ m \in {3, 5, 8, 10} => Sta!DaysIn(y, m) = 30
BY DEF Sta!DaysIn

(* Month k of year y is month mm of year yy. *)
Lands(y, k, yy, mm) ==
  /\ {y, k, yy} \subseteq Int /\ mm \in 0..11
  /\ y + k \div 12 = yy /\ k % 12 = mm

(* new Date with a day before the first of its month *)
LEMMA DayBefore ==
  ASSUME NEW y, NEW k, NEW yy, NEW mm, Lands(y, k, yy, mm), NEW day \in Int, day < 1
  PROVE  /\ mm = 0 => Sta!JsDate(y, k, day) = <<yy - 1, 11, 31 + day>>
         /\ mm # 0 => Sta!JsDate(y, k, day) = <<yy, mm - 1, Sta!DaysIn(yy, mm - 1) + day>>
<1>1. Sta!JsDate(y, k, day) =
        CASE day < 1 -> IF mm = 0 THEN <<yy - 1, 11, 31 + day>>
                        ELSE <<yy, mm - 1, Sta!DaysIn(yy, mm - 1) + day>>
          [] day > Sta!DaysIn(yy, mm) -> IF mm = 11 THEN <<yy + 1, 0, day - 31>>
                                     ELSE <<yy, mm + 1, day - Sta!DaysIn(yy, mm)>>
          [] OTHER -> <<yy, mm, day>>
  BY DEF Sta!JsDate, Lands
<1>2. ~(day > Sta!DaysIn(yy, mm))
  BY MonthLength DEF Lands
<1> QED
  BY <1>1, <1>2

(* Day 0 of the month after is the last of a month. *)
LEMMA LastDay ==
  ASSUME NEW y \in Int, NEW m \in 0..11
  PROVE  Sta!JsDate(y, m + 1, 0) = <<y, m, Sta!DaysIn(y, m)>>
<1>1. Sta!DaysIn(y, m) \in Int /\ Sta!DaysIn(y, 11) = 31
  BY MonthLength
<1>2. PICK yy \in Int, mm \in 0..11 : yy = y + (m + 1) \div 12 /\ mm = (m + 1) % 12
  <2>1. y + (m + 1) \div 12 \in Int /\ (m + 1) % 12 \in 0..11
    OBVIOUS
  <2> QED
    BY <2>1
<1>z. PICK day \in Int : day = 0
  OBVIOUS
<1>k. PICK k \in Int : k = m + 1
  OBVIOUS
<1>3. /\ mm = 0 => Sta!JsDate(y, k, day) = <<yy - 1, 11, 31 + day>>
      /\ mm # 0 => Sta!JsDate(y, k, day) = <<yy, mm - 1, Sta!DaysIn(yy, mm - 1) + day>>
  <2>1. day < 1 /\ Lands(y, k, yy, mm)
    BY <1>2, <1>k, <1>z DEF Lands
  <2> QED
    BY <2>1, DayBefore
<1>4. CASE m = 11
  <2>1. mm = 0 /\ yy - 1 = y /\ 31 + day = 31
    BY <1>2, <1>4, <1>z
  <2> QED
    BY <1>1, <1>3, <1>4, <1>k, <1>z, <2>1
<1>5. CASE m # 11
  <2>1. mm # 0 /\ mm - 1 = m /\ yy = y /\ Sta!DaysIn(y, m) + day = Sta!DaysIn(y, m)
    BY <1>1, <1>2, <1>5, <1>z
  <2> QED
    BY <1>3, <1>k, <1>z, <2>1
<1> QED
  BY <1>4, <1>5

(* The day after it is the first of the next. *)
LEMMA FirstAfter ==
  ASSUME NEW y \in Int, NEW m \in 0..11
  PROVE  Sta!NextDay(<<y, m, Sta!DaysIn(y, m)>>) = IF m = 11 THEN <<y + 1, 0, 1>> ELSE <<y, m + 1, 1>>
<1> DEFINE days == Sta!DaysIn(y, m)
<1>1. days \in 28..31 /\ (m = 11 => days = 31)
  BY MonthLength
<1>2. y + m \div 12 = y /\ m % 12 = m
  OBVIOUS
<1>3. Sta!NextDay(<<y, m, days>>) = Sta!JsDate(y, m, days + 1)
  BY DEF Sta!NextDay
<1>4. Sta!JsDate(y, m, days + 1) = IF m = 11 THEN <<y + 1, 0, (days + 1) - 31>>
                               ELSE <<y, m + 1, (days + 1) - days>>
  <2>1. Sta!DaysIn(y, m) = days
    OBVIOUS
  <2> HIDE DEF days
  <2>2. ~(days + 1 < 1) /\ days + 1 > days
    BY <1>1
  <2> QED
    BY <1>2, <2>1, <2>2 DEF Sta!JsDate
<1> HIDE DEF days
<1>5. (days + 1) - days = 1 /\ (m = 11 => (days + 1) - 31 = 1)
  BY <1>1
<1> QED
  BY <1>3, <1>4, <1>5 DEF days

(* Where a valid date goes when its month is set: to the same day, or, if  *)
(* that month is too short, into the next.                                 *)
LEMMA KeepsDay ==
  ASSUME NEW y, NEW k, NEW yy, NEW mm, NEW m, NEW d, Lands(y, k, yy, mm), d \in 1..31,
         d <= Sta!DaysIn(yy, mm)
  PROVE  Sta!SetMonth(<<y, m, d>>, k) = <<yy, mm, d>>
<1>1. Sta!SetMonth(<<y, m, d>>, k) = Sta!JsDate(y, k, d)
  BY DEF Sta!SetMonth
<1>2. Sta!DaysIn(yy, mm) \in Int /\ ~(d < 1)
  BY MonthLength DEF Lands
<1> QED
  BY <1>1, <1>2 DEF Sta!JsDate, Lands

LEMMA TooLong ==
  ASSUME NEW y, NEW k, NEW yy, NEW mm, NEW m, NEW d, Lands(y, k, yy, mm), d \in 1..31,
         d > Sta!DaysIn(yy, mm)
  PROVE  mm # 11 /\ Sta!SetMonth(<<y, m, d>>, k) = <<yy, mm + 1, d - Sta!DaysIn(yy, mm)>>
<1>1. Sta!SetMonth(<<y, m, d>>, k) = Sta!JsDate(y, k, d)
  BY DEF Sta!SetMonth
<1>2. Sta!DaysIn(yy, mm) \in Int /\ (mm = 11 => Sta!DaysIn(yy, mm) = 31) /\ ~(d < 1)
  BY MonthLength DEF Lands
<1>3. mm # 11 /\ Sta!JsDate(y, k, d) = <<yy, mm + 1, d - Sta!DaysIn(yy, mm)>>
  BY <1>2 DEF Sta!JsDate, Lands
<1> QED
  BY <1>1, <1>3

(* The ranges of a month and a quarter *)
LEMMA MonthRange ==
  ASSUME NEW y \in Int, NEW m \in 0..11, NEW d \in Int
  PROVE  Sta!PeriodRange("month", <<y, m, d>>) = [from |-> <<y, m, 1>>, to |-> <<y, m, Sta!DaysIn(y, m)>>]
<1>1. Sta!JsDate(y, m + 1, 0) = <<y, m, Sta!DaysIn(y, m)>>
  BY LastDay
<1> QED
  BY <1>1 DEF Sta!PeriodRange

LEMMA QuarterRange ==
  ASSUME NEW y \in Int, NEW m \in 0..11, NEW d \in Int, NEW q \in 0..9, q = Sta!QuarterStart(m)
  PROVE  Sta!PeriodRange("quarter", <<y, m, d>>) =
           [from |-> <<y, q, 1>>, to |-> <<y, q + 2, Sta!DaysIn(y, q + 2)>>]
<1>1. PICK l \in 0..11 : l = q + 2 /\ l + 1 = q + 3
  <2>1. q + 2 \in 0..11 /\ (q + 2) + 1 = q + 3
    OBVIOUS
  <2> QED
    BY <2>1
<1>2. Sta!JsDate(y, l + 1, 0) = <<y, l, Sta!DaysIn(y, l)>>
  BY LastDay
<1>3. Sta!JsDate(y, q + 3, 0) = <<y, q + 2, Sta!DaysIn(y, q + 2)>>
  BY <1>1, <1>2
<1> QED
  BY <1>3 DEF Sta!PeriodRange

LEMMA QuarterType == \A m \in 0..11 : Sta!QuarterStart(m) \in 0..9
BY DEF Sta!QuarterStart

(* A month later, or the next year: where the period before ends *)
LEMMA MonthBefore ==
  ASSUME NEW y \in Int, NEW m \in 0..11, NEW d \in 1..31, d <= Sta!DaysIn(y, m)
  PROVE  IF Sta!CarriesOver("month", <<y, m, d>>)
         THEN Sta!PreviousPeriodRange("month", <<y, m, d>>) = Sta!PeriodRange("month", <<y, m, d>>)
         ELSE Sta!NextDay(Sta!PreviousPeriodRange("month", <<y, m, d>>).to)
                = Sta!PeriodRange("month", <<y, m, d>>).from
<1>1. PICK yy \in Int, mm \in 0..11 :
        IF m >= 1 THEN yy = y /\ mm = m - 1 ELSE yy = y - 1 /\ mm = 11
  <2>1. CASE m >= 1
    <3>1. m - 1 \in 0..11
      BY <2>1
    <3> QED
      BY <2>1, <3>1
  <2>2. CASE ~(m >= 1)
    <3>1. y - 1 \in Int /\ 11 \in 0..11
      OBVIOUS
    <3> QED
      BY <2>2, <3>1
  <2> QED
    BY <2>1, <2>2
<1>2. IF m - 1 >= 0 THEN yy = y /\ mm = m - 1 ELSE yy = y - 1 /\ mm = (m - 1) + 12
  BY <1>1
<1>3. PICK k \in Int : k = m - 1
  OBVIOUS
<1>l. Lands(y, k, yy, mm)
  BY <1>2, <1>3 DEF Lands
<1>4. /\ d <= Sta!DaysIn(yy, mm) => Sta!SetMonth(<<y, m, d>>, k) = <<yy, mm, d>>
      /\ d > Sta!DaysIn(yy, mm) =>
           mm # 11 /\ Sta!SetMonth(<<y, m, d>>, k) = <<yy, mm + 1, d - Sta!DaysIn(yy, mm)>>
  <2>1. ASSUME d <= Sta!DaysIn(yy, mm) PROVE Sta!SetMonth(<<y, m, d>>, k) = <<yy, mm, d>>
    BY <1>l, <2>1, KeepsDay
  <2>2. ASSUME d > Sta!DaysIn(yy, mm)
        PROVE  mm # 11 /\ Sta!SetMonth(<<y, m, d>>, k) = <<yy, mm + 1, d - Sta!DaysIn(yy, mm)>>
    BY <1>l, <2>2, TooLong
  <2> QED
    BY <2>1, <2>2
<1>5. Sta!CarriesOver("month", <<y, m, d>>) <=> d > Sta!DaysIn(yy, mm)
  BY <1>3, <1>l DEF Sta!CarriesOver, Lands
<1>6. Sta!PreviousPeriodRange("month", <<y, m, d>>) = Sta!PeriodRange("month", Sta!SetMonth(<<y, m, d>>, k))
  BY <1>3 DEF Sta!PreviousPeriodRange, Sta!PreviousAnchor
<1>7. Sta!DaysIn(yy, mm) \in 28..31
  BY MonthLength
<1>8. Sta!PeriodRange("month", <<y, m, d>>) = [from |-> <<y, m, 1>>, to |-> <<y, m, Sta!DaysIn(y, m)>>]
  <2>1. d \in Int
    OBVIOUS
  <2> QED
    BY <2>1, MonthRange
<1>9. CASE d > Sta!DaysIn(yy, mm)
  <2>1. mm + 1 = m /\ yy = y
    BY <1>1, <1>4, <1>9
  <2>2. Sta!PeriodRange("month", Sta!SetMonth(<<y, m, d>>, k))
          = [from |-> <<y, m, 1>>, to |-> <<y, m, Sta!DaysIn(y, m)>>]
    <3>1. PICK e \in Int : e = d - Sta!DaysIn(yy, mm)
      BY <1>7
    <3>2. Sta!SetMonth(<<y, m, d>>, k) = <<y, m, e>>
      BY <1>4, <1>9, <2>1, <3>1
    <3> QED
      BY <3>2, MonthRange, ZenonT(40)
  <2> QED
    BY <1>5, <1>6, <1>8, <1>9, <2>2
<1>10. CASE ~(d > Sta!DaysIn(yy, mm))
  <2>1. Sta!SetMonth(<<y, m, d>>, k) = <<yy, mm, d>>
    BY <1>4, <1>7, <1>10
  <2>2. Sta!PeriodRange("month", <<yy, mm, d>>)
          = [from |-> <<yy, mm, 1>>, to |-> <<yy, mm, Sta!DaysIn(yy, mm)>>]
    <3>1. d \in Int
      OBVIOUS
    <3> QED
      BY <3>1, MonthRange
  <2>3. Sta!PreviousPeriodRange("month", <<y, m, d>>).to = <<yy, mm, Sta!DaysIn(yy, mm)>>
    BY <1>6, <2>1, <2>2
  <2>4. Sta!NextDay(<<yy, mm, Sta!DaysIn(yy, mm)>>) = <<y, m, 1>>
    <3>1. IF mm = 11 THEN m = 0 /\ yy + 1 = y ELSE mm + 1 = m /\ yy = y
      BY <1>1
    <3> QED
      BY <3>1, FirstAfter
  <2>5. Sta!PeriodRange("month", <<y, m, d>>).from = <<y, m, 1>>
    BY <1>8
  <2> QED
    BY <1>5, <1>10, <2>3, <2>4, <2>5
<1> QED
  BY <1>9, <1>10

LEMMA QuarterBefore ==
  ASSUME NEW y \in Int, NEW m \in 0..11, NEW d \in 1..31, d <= Sta!DaysIn(y, m)
  PROVE  IF Sta!CarriesOver("quarter", <<y, m, d>>)
         THEN Sta!PreviousPeriodRange("quarter", <<y, m, d>>) = Sta!PeriodRange("quarter", <<y, m, d>>)
         ELSE Sta!NextDay(Sta!PreviousPeriodRange("quarter", <<y, m, d>>).to)
                = Sta!PeriodRange("quarter", <<y, m, d>>).from
<1>q. PICK q \in 0..9 : q = Sta!QuarterStart(m)
  BY QuarterType
<1>1. PICK yy \in Int, mm \in 0..11 :
        IF m >= 3 THEN yy = y /\ mm = m - 3 ELSE yy = y - 1 /\ mm = m + 9
  <2>1. CASE m >= 3
    <3>1. m - 3 \in 0..11
      BY <2>1
    <3> QED
      BY <2>1, <3>1
  <2>2. CASE ~(m >= 3)
    <3>1. y - 1 \in Int /\ m + 9 \in 0..11
      BY <2>2
    <3> QED
      BY <2>2, <3>1
  <2> QED
    BY <2>1, <2>2
<1>2. IF m - 3 >= 0 THEN yy = y /\ mm = m - 3 ELSE yy = y - 1 /\ mm = (m - 3) + 12
  BY <1>1
<1>3. PICK k \in Int : k = m - 3
  OBVIOUS
<1>l. Lands(y, k, yy, mm)
  BY <1>2, <1>3 DEF Lands
<1>4. /\ d <= Sta!DaysIn(yy, mm) => Sta!SetMonth(<<y, m, d>>, k) = <<yy, mm, d>>
      /\ d > Sta!DaysIn(yy, mm) =>
           mm # 11 /\ Sta!SetMonth(<<y, m, d>>, k) = <<yy, mm + 1, d - Sta!DaysIn(yy, mm)>>
  <2>1. ASSUME d <= Sta!DaysIn(yy, mm) PROVE Sta!SetMonth(<<y, m, d>>, k) = <<yy, mm, d>>
    BY <1>l, <2>1, KeepsDay
  <2>2. ASSUME d > Sta!DaysIn(yy, mm)
        PROVE  mm # 11 /\ Sta!SetMonth(<<y, m, d>>, k) = <<yy, mm + 1, d - Sta!DaysIn(yy, mm)>>
    BY <1>l, <2>2, TooLong
  <2> QED
    BY <2>1, <2>2
<1>5. Sta!CarriesOver("quarter", <<y, m, d>>) <=> d > Sta!DaysIn(yy, mm) /\ m = 11
  BY <1>3, <1>l DEF Sta!CarriesOver, Lands
<1>6. Sta!PreviousPeriodRange("quarter", <<y, m, d>>) = Sta!PeriodRange("quarter", Sta!SetMonth(<<y, m, d>>, k))
  BY <1>3 DEF Sta!PreviousPeriodRange, Sta!PreviousAnchor
<1>7. Sta!DaysIn(yy, mm) \in 28..31
  BY MonthLength
<1>8. Sta!PeriodRange("quarter", <<y, m, d>>) =
        [from |-> <<y, q, 1>>, to |-> <<y, q + 2, Sta!DaysIn(y, q + 2)>>]
  <2>1. d \in Int
    OBVIOUS
  <2> QED
    BY <1>q, <2>1, QuarterRange, ZenonT(40)
<1>9. CASE d > Sta!DaysIn(yy, mm) /\ m = 11
  <2>1. mm + 1 = 9 /\ yy = y
    BY <1>1, <1>9
  <2>2. Sta!QuarterStart(9) = 9 /\ q = 9
    BY <1>9, <1>q DEF Sta!QuarterStart
  <2>e. PICK e \in Int : e = d - Sta!DaysIn(yy, mm)
    BY <1>7
  <2>3. Sta!SetMonth(<<y, m, d>>, k) = <<y, 9, e>>
    BY <1>4, <1>9, <2>1, <2>e
  <2>4. Sta!PeriodRange("quarter", <<y, 9, e>>)
          = [from |-> <<y, q, 1>>, to |-> <<y, q + 2, Sta!DaysIn(y, q + 2)>>]
    <3>1. 9 \in 0..11 /\ q = Sta!QuarterStart(9)
      BY <2>2
    <3> QED
      BY <3>1, QuarterRange, ZenonT(40)
  <2>5. Sta!PreviousPeriodRange("quarter", <<y, m, d>>) = Sta!PeriodRange("quarter", <<y, m, d>>)
    BY <1>6, <1>8, <2>2, <2>3, <2>4
  <2> QED
    BY <1>5, <1>9, <2>5
<1>10. CASE ~(d > Sta!DaysIn(yy, mm) /\ m = 11)
  (* Where the date carries over, it stays in the quarter. *)
  <2>1. \E mo \in 0..11 : \E e \in Int :
          Sta!SetMonth(<<y, m, d>>, k) = <<yy, mo, e>> /\ Sta!QuarterStart(mo) = Sta!QuarterStart(mm)
    <3>1. CASE d > Sta!DaysIn(yy, mm)
      <4>1. mm \in {1, 3, 5, 8, 10}
        BY <1>7, <3>1, MonthLength
      <4>2. mm # 8
        BY <1>1, <1>10, <3>1
      <4>3. mm # 5
        <5>1. mm = 5 => m = 8 /\ Sta!DaysIn(yy, mm) = 30
          BY <1>1, MonthLength
        <5>2. mm = 5 => d = 31 /\ Sta!DaysIn(y, 8) = 30
          BY <3>1, <5>1, MonthLength
        <5> QED
          BY <5>1, <5>2
      <4>4. mm + 1 \in 0..11 /\ Sta!QuarterStart(mm + 1) = Sta!QuarterStart(mm)
        BY <4>1, <4>2, <4>3 DEF Sta!QuarterStart
      <4>5. Sta!SetMonth(<<y, m, d>>, k) = <<yy, mm + 1, d - Sta!DaysIn(yy, mm)>> /\ d - Sta!DaysIn(yy, mm) \in Int
        BY <1>4, <1>7, <3>1
      <4> QED
        BY <4>4, <4>5
    <3>2. CASE ~(d > Sta!DaysIn(yy, mm))
      BY <1>4, <1>7, <3>2
    <3> QED
      BY <3>1, <3>2
  <2>m. PICK mo \in 0..11 : \E e \in Int :
          Sta!SetMonth(<<y, m, d>>, k) = <<yy, mo, e>> /\ Sta!QuarterStart(mo) = Sta!QuarterStart(mm)
    BY <2>1
  <2>e. PICK e \in Int : Sta!SetMonth(<<y, m, d>>, k) = <<yy, mo, e>>
    BY <2>m
  <2>2. PICK p \in 0..9 : p = Sta!QuarterStart(mm)
    BY QuarterType
  <2>3. Sta!PeriodRange("quarter", <<yy, mo, e>>)
          = [from |-> <<yy, p, 1>>, to |-> <<yy, p + 2, Sta!DaysIn(yy, p + 2)>>]
    <3>1. p = Sta!QuarterStart(mo)
      BY <2>2, <2>m
    <3> QED
      BY <3>1, QuarterRange, ZenonT(40)
  <2>4. Sta!PreviousPeriodRange("quarter", <<y, m, d>>).to = <<yy, p + 2, Sta!DaysIn(yy, p + 2)>>
    BY <1>6, <2>e, <2>3
  <2>5. Sta!NextDay(<<yy, p + 2, Sta!DaysIn(yy, p + 2)>>) = <<y, q, 1>>
    <3>1. PICK l \in 0..11 : l = p + 2
      BY <2>2
    <3>2. IF l = 11 THEN q = 0 /\ yy + 1 = y ELSE l + 1 = q /\ yy = y
      BY <1>1, <1>q, <2>2, <3>1 DEF Sta!QuarterStart
    <3> QED
      BY <3>1, <3>2, FirstAfter
  <2>6. Sta!PeriodRange("quarter", <<y, m, d>>).from = <<y, q, 1>>
    BY <1>8
  <2>7. Sta!NextDay(Sta!PreviousPeriodRange("quarter", <<y, m, d>>).to) = Sta!PeriodRange("quarter", <<y, m, d>>).from
    BY <2>4, <2>5, <2>6
  <2> QED
    BY <1>5, <1>10, <2>7
<1> QED
  BY <1>9, <1>10

LEMMA YearRange ==
  ASSUME NEW y, NEW m, NEW d, y \in Int
  PROVE  Sta!PeriodRange("year", <<y, m, d>>) = [from |-> <<y, 0, 1>>, to |-> <<y, 11, Sta!DaysIn(y, 11)>>]
<1>1. PICK l \in 0..11 : l = 11 /\ l + 1 = 12
  OBVIOUS
<1>2. Sta!JsDate(y, l + 1, 0) = <<y, l, Sta!DaysIn(y, l)>>
  BY LastDay
<1>3. Sta!JsDate(y, 12, 0) = <<y, 11, Sta!DaysIn(y, 11)>>
  BY <1>1, <1>2
<1> QED
  BY <1>3 DEF Sta!PeriodRange

(* 29 February becomes 1 March: the year is the one before in any case. *)
LEMMA YearBefore ==
  ASSUME NEW y \in Int, NEW m \in 0..11, NEW d \in 1..31, d <= Sta!DaysIn(y, m)
  PROVE  /\ ~Sta!CarriesOver("year", <<y, m, d>>)
         /\ Sta!NextDay(Sta!PreviousPeriodRange("year", <<y, m, d>>).to)
              = Sta!PeriodRange("year", <<y, m, d>>).from
<1>1. ~Sta!CarriesOver("year", <<y, m, d>>)
  BY DEF Sta!CarriesOver
<1>2. PICK yy \in Int : yy = y - 1 /\ yy + 1 = y
  <2>1. y - 1 \in Int /\ (y - 1) + 1 = y
    OBVIOUS
  <2> QED
    BY <2>1
<1>3. PICK mo, e : Sta!JsDate(yy, m, d) = <<yy, mo, e>>
  <2>1. yy + m \div 12 = yy /\ m % 12 = m
    OBVIOUS
  <2>2. Sta!DaysIn(yy, m) \in Int /\ (m = 11 => ~(d > Sta!DaysIn(yy, m))) /\ ~(d < 1)
    BY MonthLength
  <2>3. CASE d > Sta!DaysIn(yy, m)
    <3>1. Sta!JsDate(yy, m, d) = <<yy, m + 1, d - Sta!DaysIn(yy, m)>>
      BY <2>1, <2>2, <2>3 DEF Sta!JsDate
    <3> QED
      BY <3>1
  <2>4. CASE ~(d > Sta!DaysIn(yy, m))
    <3>1. Sta!JsDate(yy, m, d) = <<yy, m, d>>
      BY <2>1, <2>2, <2>4 DEF Sta!JsDate
    <3> QED
      BY <3>1
  <2> QED
    BY <2>3, <2>4
<1>4. Sta!PreviousPeriodRange("year", <<y, m, d>>) = Sta!PeriodRange("year", <<yy, mo, e>>)
  BY <1>2, <1>3 DEF Sta!PreviousPeriodRange, Sta!PreviousAnchor
<1>5. Sta!PreviousPeriodRange("year", <<y, m, d>>).to = <<yy, 11, Sta!DaysIn(yy, 11)>>
  <2>1. Sta!PeriodRange("year", <<yy, mo, e>>)
          = [from |-> <<yy, 0, 1>>, to |-> <<yy, 11, Sta!DaysIn(yy, 11)>>]
    BY YearRange
  <2> QED
    BY <1>4, <2>1
<1>6. Sta!NextDay(<<yy, 11, Sta!DaysIn(yy, 11)>>) = <<y, 0, 1>>
  <2>1. PICK l \in 0..11 : l = 11
    OBVIOUS
  <2>2. Sta!NextDay(<<yy, l, Sta!DaysIn(yy, l)>>) = <<yy + 1, 0, 1>>
    BY <2>1, FirstAfter
  <2> QED
    BY <1>2, <2>1, <2>2
<1>7. Sta!PeriodRange("year", <<y, m, d>>).from = <<y, 0, 1>>
  <2>1. Sta!PeriodRange("year", <<y, m, d>>)
          = [from |-> <<y, 0, 1>>, to |-> <<y, 11, Sta!DaysIn(y, 11)>>]
    BY YearRange
  <2> QED
    BY <2>1
<1> QED
  BY <1>1, <1>5, <1>6, <1>7

(* The period before, of any valid date *)
LEMMA Precedes ==
  ASSUME NEW period \in Sta!Periods \ {"all"}, NEW date, date \in Int \X (0..11) \X (1..31),
         date[3] <= Sta!DaysIn(date[1], date[2])
  PROVE  IF Sta!CarriesOver(period, date)
         THEN Sta!PreviousPeriodRange(period, date) = Sta!PeriodRange(period, date)
         ELSE Sta!NextDay(Sta!PreviousPeriodRange(period, date).to) = Sta!PeriodRange(period, date).from
<1>1. PICK y \in Int, m \in 0..11, d \in 1..31 : date = <<y, m, d>>
  OBVIOUS
<1>2. d <= Sta!DaysIn(y, m)
  BY <1>1
<1>3. period \in {"month", "quarter", "year"}
  BY DEF Sta!Periods
<1>4. CASE period = "month"
  BY <1>1, <1>2, <1>4, MonthBefore, Zenon
<1>5. CASE period = "quarter"
  BY <1>1, <1>2, <1>5, QuarterBefore, Zenon
<1>6. CASE period = "year"
  BY <1>1, <1>2, <1>6, YearBefore, Zenon
<1> QED
  BY <1>3, <1>4, <1>5, <1>6

QueryType == query \in [period : Sta!Periods, date : StatsDates] \cup {Null}

LEMMA QueryInv == /\ Sta!Init => QueryType
                  /\ QueryType /\ [Sta!Next]_(Sta!vars) => QueryType'
<1>1. Sta!Init => QueryType
  BY DEF Sta!Init, QueryType
<1>2. ASSUME QueryType, Sta!Next PROVE QueryType'
  <2>1. ASSUME NEW period \in Sta!Periods, NEW date \in StatsDates, Sta!Open(period, date) PROVE QueryType'
    BY <2>1 DEF Sta!Open, QueryType
  <2>2. CASE Sta!Read
    BY <1>2, <2>2 DEF Sta!Read, QueryType
  <2>3. CASE Sta!Reply
    BY <2>3 DEF Sta!Reply, QueryType
  <2>4. ASSUME NEW e \in StatsIds, NEW row \in StatsRows \cup {Null}, Sta!SetEvent(e, row) PROVE QueryType'
    BY <1>2, <2>4 DEF Sta!SetEvent, Sta!Changed, QueryType
  <2>5. ASSUME NEW km \in StatsOdometers, Sta!SetOdometer(km) PROVE QueryType'
    BY <1>2, <2>5 DEF Sta!SetOdometer, Sta!Changed, QueryType
  <2>6. ASSUME NEW s \in StatsStations, Sta!DeleteStation(s) PROVE QueryType'
    BY <1>2, <2>6 DEF Sta!DeleteStation, Sta!Changed, QueryType
  <2> QED
    BY <1>2, <2>1, <2>2, <2>3, <2>4, <2>5, <2>6 DEF Sta!Next
<1>3. QueryType /\ UNCHANGED Sta!vars => QueryType'
  BY DEF QueryType, Sta!vars
<1> QED
  BY <1>1, <1>2, <1>3

LEMMA QueryPrecedes == QueryType => Sta!PreviousPeriodPrecedes
<1> SUFFICES ASSUME QueryType, query # Null, query.period # "all"
             PROVE  IF Sta!CarriesOver(query.period, query.date)
                    THEN Sta!PreviousPeriodRange(query.period, query.date) = Sta!Period
                    ELSE Sta!NextDay(Sta!PreviousPeriodRange(query.period, query.date).to) = Sta!Period.from
  BY DEF Sta!PreviousPeriodPrecedes
<1>1. query.period \in Sta!Periods \ {"all"} /\ query.date \in StatsDates
  BY DEF QueryType
<1>2. /\ query.date \in Int \X (0..11) \X (1..31)
      /\ query.date[3] <= Sta!DaysIn(query.date[1], query.date[2])
  BY <1>1, StatsAssumption DEF Sta!ConstantsAssumption
<1>3. Sta!Period = Sta!PeriodRange(query.period, query.date)
  BY DEF Sta!Period
<1> QED
  BY <1>1, <1>2, <1>3, Precedes

-----------------------------------------------------------------------------
(* The progress of reminders.  The reminder is due by the calendar, whose  *)
(* months have 28 days at least, and setMonth carries over what a month    *)
(* has not; the progress counts 30 days for each.                          *)

(* Before the days of a month *)
MonthStart(y, m) == Li!DayNumber(<<y, m, 0>>)

LEMMA MonthType == ASSUME NEW y \in Int, NEW m \in 0..11 PROVE MonthStart(y, m) \in Int
BY DEF MonthStart, Li!DayNumber, Li!DaysBefore, Li!DaysIn

LEMMA DayOf ==
  ASSUME NEW y \in Int, NEW m \in 0..11, NEW d \in Int
  PROVE  Li!DayNumber(<<y, m, d>>) = MonthStart(y, m) + d
BY DEF MonthStart, Li!DayNumber, Li!DaysBefore, Li!DaysIn

LEMMA NumberType == ASSUME NEW date \in Li!Days PROVE Li!DayNumber(date) \in Int
<1>1. PICK y \in Int, m \in 0..11, d \in 1..31 : date = <<y, m, d>>
  BY DEF Li!Days
<1>2. Li!DayNumber(date) = MonthStart(y, m) + d
  BY <1>1, DayOf
<1>3. MonthStart(y, m) \in Int
  BY MonthType
<1> QED
  BY <1>2, <1>3

(* The leap days of the years up to y *)
Leaps(y) == y \div 4 - y \div 100 + y \div 400

LEMMA LeapDays == \A y, z \in Int : y <= z => Leaps(y) \in Int /\ Leaps(y) <= Leaps(z)
<1> SUFFICES ASSUME NEW y \in Int, NEW z \in Int, y <= z
             PROVE  Leaps(y) \in Int /\ Leaps(y) <= Leaps(z)
  OBVIOUS
<1>1. /\ y \div 100 = (y \div 4) \div 25 /\ z \div 100 = (z \div 4) \div 25
      /\ y \div 4 <= z \div 4 /\ y \div 400 <= z \div 400
      /\ y \div 4 \in Int /\ z \div 4 \in Int
  OBVIOUS
<1>2. \A p, q \in Int : p <= q => p - p \div 25 <= q - q \div 25
  OBVIOUS
<1> QED
  BY <1>1, <1>2 DEF Leaps

LEMMA MonthFollows ==
  ASSUME NEW y \in Int, NEW m \in 0..11
  PROVE  /\ m < 11 => MonthStart(y, m + 1) = MonthStart(y, m) + Li!DaysIn(y, m)
         /\ m = 11 => MonthStart(y + 1, 0) = MonthStart(y, m) + 31
         /\ Li!DaysIn(y, m) \in 28..31
BY DEF MonthStart, Li!DayNumber, Li!DaysBefore, Li!DaysIn

(* Within a year *)
LEMMA MonthsApart ==
  ASSUME NEW y \in Int, NEW m \in 0..11, NEW n \in 0..11, m <= n
  PROVE  MonthStart(y, n) - MonthStart(y, m) >= 28 * (n - m)
BY DEF MonthStart, Li!DayNumber, Li!DaysBefore, Li!DaysIn

LEMMA MonthBounds ==
  ASSUME NEW y \in Int, NEW m \in 0..11
  PROVE  /\ MonthStart(y, m) - MonthStart(y, 0) >= 28 * m
         /\ MonthStart(y, m) - MonthStart(y, 0) <= 28 * m + 27
BY DEF MonthStart, Li!DayNumber, Li!DaysBefore, Li!DaysIn

LEMMA YearsApart ==
  ASSUME NEW y \in Int, NEW z \in Int, y <= z
  PROVE  MonthStart(z, 0) - MonthStart(y, 0) >= 365 * (z - y)
<1>1. Leaps(y - 1) <= Leaps(z - 1) /\ Leaps(y - 1) \in Int /\ Leaps(z - 1) \in Int
  <2>1. y - 1 \in Int /\ z - 1 \in Int /\ y - 1 <= z - 1
    OBVIOUS
  <2> QED
    BY <2>1, LeapDays
<1>2. \A x \in Int : MonthStart(x, 0)
        = 365 * (x - 1) + Leaps(x - 1)
  BY DEF Leaps, MonthStart, Li!DayNumber, Li!DaysBefore, Li!DaysIn
<1> QED
  BY <1>1, <1>2

(* A month has 28 days at least, and so have many of them, on average. *)
LEMMA ManyMonths ==
  ASSUME NEW y \in Int, NEW m \in 0..11, NEW z \in Int, NEW n \in 0..11,
         12 * y + m <= 12 * z + n
  PROVE  MonthStart(z, n) - MonthStart(y, m) >= 28 * (12 * (z - y) + n - m)
<1>1. CASE z = y
  BY <1>1, MonthsApart
<1>2. CASE z # y
  <2>1. y + 1 <= z
    BY <1>2
  <2>2. MonthStart(z, 0) - MonthStart(y, 0) >= 365 * (z - y)
    BY <2>1, YearsApart
  <2>3. MonthStart(z, n) - MonthStart(z, 0) >= 28 * n
    BY MonthBounds
  <2>4. MonthStart(y, m) - MonthStart(y, 0) <= 28 * m + 27
    BY MonthBounds
  <2>5. MonthStart(y, m) \in Int /\ MonthStart(z, n) \in Int
    BY MonthType, Zenon
  <2>6. MonthStart(y, 0) \in Int /\ MonthStart(z, 0) \in Int
    BY MonthType
  <2> QED
    BY <2>1, <2>2, <2>3, <2>4, <2>5, <2>6
<1> QED
  BY <1>1, <1>2

LEMMA DateParts ==
  ASSUME NEW date \in Li!Days
  PROVE  \E y \in Int, m \in 0..11, d \in 1..31 : date = <<y, m, d>> /\ d <= Li!DaysIn(y, m)
<1>1. date \in Int \X (0..11) \X (1..31) /\ date[3] <= Li!DaysIn(date[1], date[2])
  BY DEF Li!Days
<1>2. /\ date[1] \in Int /\ date[2] \in 0..11 /\ date[3] \in 1..31
      /\ date = <<date[1], date[2], date[3]>>
  BY <1>1
<1> QED
  BY <1>1, <1>2

(* A date that is not after another has no greater number. *)
LEMMA NumbersFollow ==
  ASSUME NEW a \in Li!Days, NEW b \in Li!Days, Li!NotAfter(a, b)
  PROVE  Li!DayNumber(a) <= Li!DayNumber(b)
<1>1. PICK y \in Int, m \in 0..11, d \in 1..31 : a = <<y, m, d>> /\ d <= Li!DaysIn(y, m)
  BY DateParts
<1>2. PICK z \in Int, n \in 0..11, e \in 1..31 : b = <<z, n, e>>
  BY DateParts
<1>3. /\ Li!DayNumber(a) = MonthStart(y, m) + d
      /\ Li!DayNumber(b) = MonthStart(z, n) + e
      /\ MonthStart(y, m) \in Int /\ MonthStart(z, n) \in Int
  <2>1. d \in Int /\ e \in Int
    OBVIOUS
  <2> QED
    BY <1>1, <1>2, <2>1, DayOf, MonthType, Zenon
<1>4. CASE y = z /\ m = n
  <2>1. d <= e
    BY <1>1, <1>2, <1>4 DEF Li!NotAfter
  <2> QED
    BY <1>3, <1>4, <2>1
<1>5. CASE 12 * y + m < 12 * z + n
  <2>1. MonthStart(z, n) >= MonthStart(y, m) + Li!DaysIn(y, m)
    <3>1. CASE m < 11
      <4>1. MonthStart(z, n) - MonthStart(y, m + 1) >= 28 * (12 * (z - y) + n - (m + 1))
        <5>1. m + 1 \in 0..11 /\ 12 * y + (m + 1) <= 12 * z + n
          BY <1>5, <3>1
        <5> QED
          BY <5>1, ManyMonths, Zenon
      <4>2. MonthStart(y, m + 1) = MonthStart(y, m) + Li!DaysIn(y, m)
        BY <3>1, MonthFollows
      <4>3. MonthStart(y, m) + Li!DaysIn(y, m) \in Int
        BY <1>3, MonthFollows
      <4> QED
        BY <1>3, <1>5, <3>1, <4>1, <4>2, <4>3
    <3>2. CASE m = 11
      <4>1. MonthStart(z, n) - MonthStart(y + 1, 0) >= 28 * (12 * (z - (y + 1)) + n - 0)
        <5>1. y + 1 \in Int /\ 0 \in 0..11 /\ 12 * (y + 1) + 0 <= 12 * z + n
          BY <1>5, <3>2
        <5> QED
          BY <5>1, ManyMonths, Zenon
      <4>2. Li!DaysIn(y, m) = 31
        BY <3>2 DEF Li!DaysIn
      <4>3. MonthStart(y + 1, 0) = MonthStart(y, m) + 31
        BY <3>2, MonthFollows
      <4> QED
        BY <1>3, <1>5, <3>2, <4>1, <4>2, <4>3
    <3> QED
      BY <3>1, <3>2
  <2> QED
    BY <1>1, <1>3, <2>1, MonthFollows
<1> QED
  BY <1>1, <1>2, <1>4, <1>5 DEF Li!NotAfter

(* setMonth, which carries over into the next month what its own has not *)
LEMMA DueDay ==
  ASSUME NEW last \in Li!Days, NEW k \in Nat \ {0}
  PROVE  /\ Li!SetMonth(last, last[2] + k) \in Li!Days
         /\ Li!DayNumber(last) \in Int
         /\ Li!DayNumber(Li!SetMonth(last, last[2] + k)) - Li!DayNumber(last) >= 28 * k
<1>1. PICK y \in Int, m \in 0..11, d \in 1..31 : last = <<y, m, d>>
  BY DateParts
<1> DEFINE z == y + (m + k) \div 12
           n == (m + k) % 12
           later == Li!SetMonth(last, last[2] + k)
<1>2. z \in Int /\ n \in 0..11 /\ 12 * z + n = 12 * y + m + k
  OBVIOUS
<1>3. later = Li!JsDate(y, m + k, d)
  BY <1>1 DEF Li!SetMonth
<1>4. later = IF d > Li!DaysIn(z, n)
            THEN IF n = 11 THEN <<z + 1, 0, d - 31>> ELSE <<z, n + 1, d - Li!DaysIn(z, n)>>
            ELSE <<z, n, d>>
  BY <1>2, <1>3 DEF Li!JsDate
<1> HIDE DEF z, n, later
<1>5. Li!DaysIn(z, n) \in 28..31 /\ (n = 11 => Li!DaysIn(z, n) = 31)
  BY <1>2 DEF Li!DaysIn
<1>6. later \in Li!Days /\ Li!DayNumber(later) = MonthStart(z, n) + d
  <2>1. CASE d > Li!DaysIn(z, n)
    <3>1. n < 11 /\ later = <<z, n + 1, d - Li!DaysIn(z, n)>>
      BY <1>2, <1>4, <1>5, <2>1
    <3>2. n + 1 \in 0..11 /\ d - Li!DaysIn(z, n) \in 1..3
      BY <1>2, <1>5, <2>1, <3>1
    <3>3. Li!DaysIn(z, n + 1) \in 28..31
      BY <1>2, <3>2, MonthFollows
    <3>4. Li!DayNumber(later) = MonthStart(z, n + 1) + (d - Li!DaysIn(z, n))
      BY <1>2, <3>1, <3>2, DayOf
    <3>5. MonthStart(z, n + 1) = MonthStart(z, n) + Li!DaysIn(z, n)
      BY <1>2, <3>1, MonthFollows
    <3>6. later \in Li!Days
      BY <1>2, <3>1, <3>2, <3>3 DEF Li!Days
    <3>7. MonthStart(z, n) \in Int
      BY <1>2, MonthType
    <3> QED
      BY <1>5, <3>4, <3>5, <3>6, <3>7
  <2>2. CASE ~(d > Li!DaysIn(z, n))
    <3>1. later = <<z, n, d>>
      BY <1>4, <2>2
    <3> QED
      BY <1>2, <1>5, <2>2, <3>1, DayOf DEF Li!Days
  <2> QED
    BY <2>1, <2>2
<1>7. MonthStart(z, n) - MonthStart(y, m) >= 28 * (12 * (z - y) + n - m)
  <2>1. 12 * y + m <= 12 * z + n
    BY <1>2
  <2> QED
    BY <1>2, <2>1, ManyMonths, Zenon
<1>8. Li!DayNumber(last) = MonthStart(y, m) + d
  BY <1>1, DayOf
<1>9. MonthStart(y, m) \in Int /\ MonthStart(z, n) \in Int
  BY <1>2, MonthType, Zenon
<1>10. /\ Li!DayNumber(last) \in Int
       /\ Li!DayNumber(later) - Li!DayNumber(last) >= 28 * k
  BY <1>2, <1>6, <1>7, <1>8, <1>9
<1> QED
  BY <1>6, <1>10 DEF later

LEMMA PlanAssumption == Li!ConstantsAssumption
BY ServicesAssumption

(* A share of 100 % is reached with the whole, one of 93 % with 28 days of *)
(* each 30.                                                                *)
LEMMA Shares ==
  ASSUME NEW a \in Int, NEW b \in Nat \ {0}
  PROVE  /\ Li!Percent(a, b) \in Int
         /\ a >= b => Li!Percent(a, b) >= 100
         /\ \A k \in Nat : b = 30 * k /\ a >= 28 * k => Li!Percent(a, b) >= 93
<1>1. \A x \in Int, d \in Nat \ {0} : /\ x \div d \in Int
                                      /\ x >= 100 * d => x \div d >= 100
                                      /\ x >= 93 * d => x \div d >= 93
  OBVIOUS
<1>2. 200 * a + b \in Int /\ 2 * b \in Nat \ {0}
  OBVIOUS
<1> QED
  BY <1>1, <1>2 DEF Li!Percent

LEMMA Extremes ==
  ASSUME NEW S, S \subseteq Int, NEW x \in S
  PROVE  /\ (\A y \in S : x >= y) => Li!Max(S) = x
         /\ (\A y \in S : x <= y) => Li!Min(S) = x
<1>1. ASSUME \A y \in S : x >= y PROVE Li!Max(S) = x
  <2>1. Li!Max(S) \in S /\ \A y \in S : Li!Max(S) >= y
    BY <1>1 DEF Li!Max
  <2>2. Li!Max(S) \in Int /\ x \in Int /\ Li!Max(S) >= x /\ x >= Li!Max(S)
    BY <1>1, <2>1
  <2> QED
    BY <2>2
<1>2. ASSUME \A y \in S : x <= y PROVE Li!Min(S) = x
  <2>1. Li!Min(S) \in S /\ \A y \in S : Li!Min(S) <= y
    BY <1>2 DEF Li!Min
  <2>2. Li!Min(S) \in Int /\ x \in Int /\ Li!Min(S) <= x /\ x <= Li!Min(S)
    BY <1>2, <2>1
  <2> QED
    BY <2>2
<1> QED
  BY <1>1, <1>2

LEMMA Larger ==
  ASSUME NEW x \in Int, NEW z \in Int
  PROVE  /\ Li!Max({x, z}) = IF x < z THEN z ELSE x
         /\ Li!Min({x, z}) = IF x > z THEN z ELSE x
<1> DEFINE S == {x, z}
<1>1. S \subseteq Int /\ x \in S /\ z \in S /\ \A y \in S : y = x \/ y = z
  OBVIOUS
<1> HIDE DEF S
<1>2. CASE x < z
  <2>1. (\A y \in S : z >= y) /\ (\A y \in S : x <= y)
    BY <1>1, <1>2
  <2> QED
    BY <1>1, <1>2, <2>1, Extremes DEF S
<1>3. CASE ~(x < z)
  <2>1. (\A y \in S : x >= y) /\ (\A y \in S : z <= y)
    BY <1>1, <1>3
  <2>2. Li!Max(S) = x /\ Li!Min(S) = z
    BY <1>1, <2>1, Extremes
  <2> QED
    BY <1>3, <2>2 DEF S
<1> QED
  BY <1>2, <1>3

(* What the list shows is the largest share, between 0 and 100. *)
LEMMA Clamped ==
  ASSUME NEW row, NEW km, Li!Percentages(row, km) \subseteq Int,
         NEW x \in Li!Percentages(row, km), \A y \in Li!Percentages(row, km) : x >= y
  PROVE  Li!Progress(row, km) = IF x < 0 THEN 0 ELSE IF x > 100 THEN 100 ELSE x
<1>1. x \in Int /\ Li!Max(Li!Percentages(row, km)) = x
  BY Extremes
<1>2. Li!Max({x, 0}) = IF x < 0 THEN 0 ELSE x
  <2>1. 0 \in Int
    OBVIOUS
  <2> QED
    BY <1>1, <2>1, Larger, Zenon
<1> DEFINE z == IF x < 0 THEN 0 ELSE x
<1>3. z \in Nat
  BY <1>1
<1> HIDE DEF z
<1>4. Li!Min({z, 100}) = IF z > 100 THEN 100 ELSE z
  <2>1. z \in Int /\ 100 \in Int
    BY <1>3
  <2> QED
    BY <2>1, Larger, Zenon
<1>5. Li!Progress(row, km) = Li!Min({z, 100})
  BY <1>1, <1>2 DEF Li!Progress, z
<1> QED
  BY <1>1, <1>4, <1>5 DEF z

(* What an interval shows on a day, by what it is due by *)
LEMMA ProgressTells ==
  ASSUME NEW row \in Plans, NEW km \in Nat, today \in Li!Days
  PROVE  LET owed == Li!DueOf(row)
             progress == Li!Progress(row, km)
         IN /\ progress = Null <=> (owed.mileage = Null /\ owed.date = Null)
            /\ owed.mileage # Null /\ owed.mileage <= km => progress = 100
            /\ owed.date # Null /\ Li!NotAfter(owed.date, today) => progress >= 93
<1>0. /\ row.km \in (Nat \ {0}) \cup {Null} /\ row.lastKm \in Nat \cup {Null}
      /\ row.months \in (Nat \ {0}) \cup {Null} /\ row.lastDate \in Li!Days \cup {Null}
      /\ Null \notin Int /\ Null \notin Int \X (0..11) \X (1..31)
  BY PlanAssumption DEF Li!ConstantsAssumption
<1> DEFINE byKm == ~(Null \in {row.km, row.lastKm})
           byDate == ~(Null \in {row.months, row.lastDate})
           a == Li!Percent(km - row.lastKm, row.km)
           b == Li!Percent(Li!DayNumber(today) - Li!DayNumber(row.lastDate), 30 * row.months)
           owed == Li!DueOf(row)
           progress == Li!Progress(row, km)
           shares == Li!Percentages(row, km)
<1>1. shares = (IF byKm THEN {a} ELSE {}) \cup (IF byDate THEN {b} ELSE {})
  BY DEF Li!Percentages
<1>2. byKm => /\ row.km \in Nat \ {0} /\ row.lastKm \in Nat
              /\ owed.mileage = row.lastKm + row.km /\ owed.mileage # Null
              /\ a \in Int /\ (owed.mileage <= km => a >= 100)
  <2> SUFFICES ASSUME byKm
               PROVE  /\ row.km \in Nat \ {0} /\ row.lastKm \in Nat
                      /\ owed.mileage = row.lastKm + row.km /\ owed.mileage # Null
                      /\ a \in Int /\ (owed.mileage <= km => a >= 100)
    OBVIOUS
  <2>1. row.km \in Nat \ {0} /\ row.lastKm \in Nat
    BY <1>0
  <2>2. owed.mileage = row.lastKm + row.km
    BY DEF Li!DueOf
  <2>3. owed.mileage # Null
    BY <1>0, <2>1, <2>2
  <2>4. km - row.lastKm \in Int
    BY <2>1
  <2>5. a \in Int /\ (km - row.lastKm >= row.km => a >= 100)
    BY <2>1, <2>4, Shares
  <2> QED
    BY <2>1, <2>2, <2>3, <2>5
<1>3. byDate => /\ owed.date # Null /\ b \in Int
                /\ (Li!NotAfter(owed.date, today) => b >= 93)
  <2> SUFFICES ASSUME byDate
               PROVE  /\ owed.date # Null /\ b \in Int
                      /\ (Li!NotAfter(owed.date, today) => b >= 93)
    OBVIOUS
  <2> DEFINE last == row.lastDate  k == row.months
  <2>1. k \in Nat \ {0} /\ last \in Li!Days
    BY <1>0
  <2> HIDE DEF last, k
  <2>2. owed.date = Li!SetMonth(last, last[2] + k)
    BY DEF Li!DueOf, last, k
  <2> HIDE DEF owed
  <2>3. /\ owed.date \in Li!Days /\ Li!DayNumber(last) \in Int
        /\ Li!DayNumber(owed.date) - Li!DayNumber(last) >= 28 * k
    BY <2>1, <2>2, DueDay
  <2>4. owed.date # Null
    BY <1>0, <2>3 DEF Li!Days
  <2>5. Li!DayNumber(today) \in Int /\ Li!DayNumber(owed.date) \in Int
    BY <2>3, NumberType
  <2>6. 30 * k \in Nat \ {0} /\ Li!DayNumber(today) - Li!DayNumber(last) \in Int
    BY <2>1, <2>3, <2>5
  <2>7. /\ b \in Int
        /\ Li!DayNumber(today) - Li!DayNumber(last) >= 28 * k => b >= 93
    BY <2>1, <2>6, Shares DEF last, k
  <2>8. Li!NotAfter(owed.date, today) => Li!DayNumber(owed.date) <= Li!DayNumber(today)
    BY <2>3, NumbersFollow
  <2>9. Li!NotAfter(owed.date, today) =>
          Li!DayNumber(today) - Li!DayNumber(last) >= 28 * k
    BY <2>1, <2>3, <2>5, <2>8
  <2> QED
    BY <2>4, <2>7, <2>9
<1>4. (~byKm => owed.mileage = Null) /\ (~byDate => owed.date = Null)
  BY DEF Li!DueOf
<1> HIDE DEF byKm, byDate, a, b, owed
<1>5. CASE ~byKm /\ ~byDate
  <2>1. progress = Null
    BY <1>1, <1>5 DEF Li!Progress
  <2> QED
    BY <1>4, <1>5, <2>1 DEF owed
<1>6. CASE byKm \/ byDate
  <2>1. shares \subseteq Int
    BY <1>1, <1>2, <1>3
  <2>2. PICK x \in shares : \A y \in shares : x >= y
    BY <1>1, <1>2, <1>3, <1>6
  <2>3. progress = IF x < 0 THEN 0 ELSE IF x > 100 THEN 100 ELSE x
    BY <2>1, <2>2, Clamped
  <2>4. x \in Int /\ (byKm => x >= a) /\ (byDate => x >= b)
    BY <1>1, <2>1, <2>2
  <2> HIDE DEF progress
  <2>5. progress \in Int /\ progress # Null
    BY <1>0, <2>3, <2>4
  <2>6. owed.mileage # Null /\ owed.mileage <= km => progress = 100
    BY <1>2, <1>4, <2>3, <2>4
  <2>7. owed.date # Null /\ Li!NotAfter(owed.date, today) => progress >= 93
    BY <1>3, <1>4, <2>3, <2>4
  <2>8. ~(owed.mileage = Null /\ owed.date = Null)
    BY <1>2, <1>3, <1>6
  <2> QED
    BY <2>5, <2>6, <2>7, <2>8 DEF owed, progress
<1> QED
  BY <1>5, <1>6

(* While nothing changed, a request knows what is in the tables; and the   *)
(* reminder of an interval, unless patched, is due when the interval is.   *)
ReminderInv ==
  /\ Li!TypeOK /\ today \in PlanDates
  /\ plan = Null => due = Null
  /\ due # Null /\ ~due.patched => due = Li!DueOf(plan)
  /\ listPc # "idle" => got.reminder # Null
  /\ changes = 0 =>
       /\ listPc # "idle" => got.reminder = due
       /\ listPc \in {"mileage", "reply"} => got.interval = plan
       /\ listPc = "reply" => got.odo = odometer

LEMMA ReminderInitInv == Li!Init => ReminderInv
BY PlanAssumption DEF Li!Init, ReminderInv, Li!TypeOK, Li!NothingGot, Li!ConstantsAssumption

LEMMA ReminderNextInv == ReminderInv /\ [Li!Next]_(Li!vars) => ReminderInv'
<1> SUFFICES ASSUME ReminderInv, [Li!Next]_(Li!vars)
             PROVE  ReminderInv'
  OBVIOUS
<1>0. MaxChanges \in Nat /\ Null \notin Plans
  BY PlanAssumption DEF Li!ConstantsAssumption
<1> USE DEF ReminderInv, Li!TypeOK, Li!NothingGot
<1>1. ASSUME NEW row \in Plans \cup {Null}, Li!SetInterval(row) PROVE ReminderInv'
  BY <1>0, <1>1 DEF Li!SetInterval, Li!Changed, Li!DueOf
<1>2. ASSUME NEW km \in PlanOdometers, Li!Patch(km) PROVE ReminderInv'
  BY <1>0, <1>2 DEF Li!Patch, Li!Changed
<1>3. ASSUME NEW km \in PlanOdometers, Li!SetOdometer(km) PROVE ReminderInv'
  BY <1>0, <1>3 DEF Li!SetOdometer, Li!Changed
<1>4. CASE Li!Tick
  BY <1>0, <1>4 DEF Li!Tick, Li!Changed
<1>5. CASE Li!Open
  BY <1>5 DEF Li!Open
<1>6. CASE Li!ReadInterval
  BY <1>6 DEF Li!ReadInterval
<1>7. CASE Li!ReadMileage
  BY <1>7 DEF Li!ReadMileage
<1>8. CASE Li!Reply
  BY <1>0, <1>8 DEF Li!Reply
<1>9. CASE UNCHANGED Li!vars
  BY <1>9 DEF Li!vars
<1> QED
  BY <1>1, <1>2, <1>3, <1>4, <1>5, <1>6, <1>7, <1>8, <1>9 DEF Li!Next

LEMMA ReminderPromises == ReminderInv => Li!TypeOK /\ Li!DueLooksDue
<1> SUFFICES ASSUME ReminderInv, listPc = "reply", changes = 0, ~got.reminder.patched
             PROVE  LET owed == got.reminder
                        progress == IF got.interval = Null THEN Null
                                    ELSE Li!Progress(got.interval, got.odo)
                    IN /\ progress = Null <=> (owed.mileage = Null /\ owed.date = Null)
                       /\ owed.mileage # Null /\ owed.mileage <= got.odo => progress = 100
                       /\ owed.date # Null /\ Li!NotAfter(owed.date, today) => progress >= 93
  BY DEF ReminderInv, Li!DueLooksDue
<1>1. /\ got.reminder = due /\ got.interval = plan /\ got.odo = odometer
      /\ due # Null /\ plan # Null /\ due = Li!DueOf(plan)
  BY DEF ReminderInv
<1>2. plan \in Plans /\ odometer \in Nat /\ today \in Li!Days
  BY <1>1, PlanAssumption DEF ReminderInv, Li!TypeOK, Li!ConstantsAssumption
<1> QED
  BY <1>1, <1>2, ProgressTells

-----------------------------------------------------------------------------
(* Pages: the rows of a list, in the order they are read.                  *)
(*                                                                         *)
(* Where no two rows are alike in their keys, the place of a row in a page *)
(* is the number of rows that come before it.  As long as rows are only    *)
(* added, that number never falls, so a row of the first page's list that  *)
(* is not shown yet is still ahead; a query that has read n rows has shown *)
(* every one of them that has fewer than n before it.  That the list is in *)
(* order throughout, and not only from row to row, follows from the least  *)
(* place where it were not.                                                *)

LEMMA LeastNatural ==
  ASSUME NEW S \in SUBSET Nat, S # {}
  PROVE  \E n \in S : \A m \in S : n <= m
<1> DEFINE R == OpToRel(<, Nat)
<1>1. \A x, y \in Nat : x < y => <<x, y>> \in R
  BY DEF OpToRel
<1>2. IsWellFoundedOn(R, Nat)
  BY NatLessThanWellFounded, Zenon
<1> HIDE DEF R
<1>3. PICK n \in S : \A m \in S : ~(<<m, n>> \in R)
  BY <1>2, WFMin
<1>4. ASSUME NEW m \in S PROVE n <= m
  <2>1. ~(m < n)
    BY <1>1, <1>3
  <2>2. m \in Nat /\ n \in Nat
    OBVIOUS
  <2> QED
    BY <2>1, <2>2
<1> QED
  BY <1>4

LEMMA PageAssumption ==
  /\ Dates \subseteq Nat \ {0} /\ Limits \subseteq Nat \ {0} /\ MaxStamp \in Nat
  /\ IsFiniteSet(Ids) /\ Null \notin Ids
BY ServicesAssumption DEF Pg!ConstantsAssumption, IsFiniteSet, Pg!IsFiniteSet

LEMMA PageCardinality == \A S : Pg!Cardinality(S) = Cardinality(S)
BY DEF Cardinality, Pg!Cardinality

PageRows == pageRow \in [Ids -> Pg!Rows \cup {Null}]

PageQueries == [from : Dates \cup {0}, limit : Limits, page : Nat \ {0}]

(* The rows of a set that come before row i in the list *)
Ahead(i, S) == {j \in S : Pg!After(i, j)}

PageDistinct(S) == \A i, j \in S : i # j => Pg!After(i, j) \/ Pg!After(j, i)

LEMMA MatchingFinite ==
  ASSUME NEW q
  PROVE  /\ Pg!Matching(q) \subseteq Ids /\ IsFiniteSet(Pg!Matching(q))
         /\ Cardinality(Pg!Matching(q)) \in Nat
<1>1. Pg!Matching(q) \subseteq Ids
  BY DEF Pg!Matching
<1> QED
  BY <1>1, PageAssumption, FS_Subset, FS_CardinalityType

LEMMA PrecedingFinite ==
  ASSUME NEW q, NEW i
  PROVE  /\ Ahead(i, Pg!Matching(q)) \subseteq Pg!Matching(q)
         /\ IsFiniteSet(Ahead(i, Pg!Matching(q)))
         /\ Cardinality(Ahead(i, Pg!Matching(q))) \in Nat
<1>1. Ahead(i, Pg!Matching(q)) \subseteq Pg!Matching(q)
  BY DEF Ahead
<1> QED
  BY <1>1, MatchingFinite, FS_Subset, FS_CardinalityType

(* Rows are ordered by two keys, maybe some of them alike. *)
LEMMA AfterOrder ==
  ASSUME PageRows, NEW q, NEW i \in Pg!Matching(q), NEW j \in Pg!Matching(q),
         NEW k \in Pg!Matching(q)
  PROVE  /\ ~Pg!After(i, j) /\ ~Pg!After(j, k) => ~Pg!After(i, k)
         /\ ~(Pg!After(i, j) /\ Pg!After(j, i))
<1>1. \A x \in Pg!Matching(q) : pageRow[x].date \in Nat /\ pageRow[x].created \in Nat
  <2> SUFFICES ASSUME NEW x \in Pg!Matching(q)
               PROVE  pageRow[x].date \in Nat /\ pageRow[x].created \in Nat
    OBVIOUS
  <2>1. x \in Ids /\ pageRow[x] # Null
    BY DEF Pg!Matching
  <2>2. pageRow[x] \in Pg!Rows
    BY <2>1 DEF PageRows
  <2>3. Dates \cup {0} \subseteq Nat /\ 0..MaxStamp \subseteq Nat
    BY PageAssumption
  <2> QED
    BY <2>2, <2>3 DEF Pg!Rows
<1> QED
  BY <1>1 DEF Pg!After

(* What a query returns is all that matches, once each, *)
LEMMA OrderedIsSeq ==
  ASSUME NEW q, NEW s \in Pg!Ordered(q)
  PROVE  LET n == Cardinality(Pg!Matching(q))
         IN /\ n \in Nat /\ Len(s) = n /\ s \in [1..n -> Pg!Matching(q)]
            /\ \A t, u \in 1..n : t # u => s[t] # s[u]
            /\ \A i \in Pg!Matching(q) : \E t \in 1..n : s[t] = i
            /\ \A t \in 1..(n - 1) : ~Pg!After(s[t], s[t + 1])
<1> DEFINE M == Pg!Matching(q)
           n == Cardinality(M)
<1>1. n \in Nat /\ IsFiniteSet(M)
  BY MatchingFinite
<1>2. s \in [1..n -> M] /\ \A t, u \in 1..n : t # u => s[t] # s[u]
  BY PageCardinality DEF Pg!Ordered, Pg!SetToSeqs
<1> HIDE DEF M
<1>3. s \in Seq(M) /\ Len(s) = n
  BY <1>1, <1>2
<1>4. \A t \in 1..(n - 1) : ~Pg!After(s[t], s[t + 1])
  BY <1>3 DEF Pg!Ordered
<1>5. s \in Injection(1..n, M)
  BY <1>2 DEF Injection, IsInjective
<1>6. Cardinality(1..n) = n
  BY <1>1, FS_Interval
<1>7. s \in Surjection(1..n, M)
  BY <1>1, <1>5, <1>6, FS_Injection
<1> QED
  BY <1>1, <1>2, <1>3, <1>4, <1>7 DEF M, Surjection

(* and in order, not only from one row to the next. *)
LEMMA OrderedThroughout ==
  ASSUME PageRows, NEW q, NEW s \in Pg!Ordered(q),
         NEW t \in 1..Len(s), NEW u \in 1..Len(s), t < u
  PROVE  ~Pg!After(s[t], s[u])
<1> DEFINE M == Pg!Matching(q)
           n == Cardinality(M)
           Bad == {v \in Nat : t < v /\ v <= n /\ Pg!After(s[t], s[v])}
<1>1. /\ n \in Nat /\ Len(s) = n /\ s \in [1..n -> M]
      /\ \A v \in 1..(n - 1) : ~Pg!After(s[v], s[v + 1])
  BY OrderedIsSeq
<1>2. Bad = {}
  <2> SUFFICES ASSUME Bad # {}
               PROVE  FALSE
    OBVIOUS
  <2>1. PICK v \in Bad : \A w \in Bad : v <= w
    BY LeastNatural
  <2>2. /\ v \in Nat /\ t < v /\ v <= n /\ Pg!After(s[t], s[v])
        /\ v - 1 \in Nat /\ v - 1 \in 1..(n - 1) /\ v \in 1..n /\ t \in 1..n
        /\ v - 1 \in 1..n
    BY <1>1, <2>1
  <2>3. ~Pg!After(s[v - 1], s[v])
    <3>1. ~Pg!After(s[v - 1], s[(v - 1) + 1]) /\ (v - 1) + 1 = v
      BY <1>1, <2>2
    <3> QED
      BY <3>1
  <2>4. t < v - 1
    BY <2>2, <2>3
  <2>5. ~Pg!After(s[t], s[v - 1])
    <3>1. v - 1 \notin Bad
      BY <2>1, <2>2
    <3> QED
      BY <2>2, <2>4, <3>1
  <2>6. s[t] \in M /\ s[v] \in M /\ s[v - 1] \in M
    BY <1>1, <2>2
  <2> QED
    BY <2>2, <2>3, <2>5, <2>6, AfterOrder
<1>3. t < u /\ u <= n /\ u \in Nat
  BY <1>1
<1> QED
  BY <1>2, <1>3

(* Where no two rows are alike, as many come before a row as in the list. *)
LEMMA Position ==
  ASSUME PageRows, NEW q, PageDistinct(Pg!Matching(q)), NEW s \in Pg!Ordered(q),
         NEW i \in Pg!Matching(q)
  PROVE  \E t \in 1..Len(s) : s[t] = i /\ Cardinality(Ahead(i, Pg!Matching(q))) = t - 1
<1> DEFINE M == Pg!Matching(q)
           n == Cardinality(M)
<1>1. /\ n \in Nat /\ Len(s) = n /\ s \in [1..n -> M]
      /\ \A v, u \in 1..n : v # u => s[v] # s[u]
      /\ \A j \in M : \E v \in 1..n : s[v] = j
  BY OrderedIsSeq
<1>2. PICK t \in 1..n : s[t] = i
  BY <1>1
<1> DEFINE f == [v \in 1..(t - 1) |-> s[v]]
           P == Ahead(i, M)
<1>3. \A v \in 1..n : Pg!After(i, s[v]) <=> v < t
  <2> SUFFICES ASSUME NEW v \in 1..n
               PROVE  Pg!After(i, s[v]) <=> v < t
    OBVIOUS
  <2>1. s[v] \in M /\ i \in M
    BY <1>1
  <2>2. CASE v < t
    <3>1. ~Pg!After(s[v], s[t])
      BY <1>1, <2>2, OrderedThroughout
    <3>2. s[v] # s[t]
      BY <1>1, <2>2
    <3> QED
      BY <1>2, <2>1, <2>2, <3>1, <3>2 DEF PageDistinct
  <2>3. CASE t < v
    <3>1. ~Pg!After(s[t], s[v])
      BY <1>1, <2>3, OrderedThroughout
    <3> QED
      BY <1>2, <2>3, <3>1
  <2>4. CASE t = v
    <3>1. ~Pg!After(i, i)
      BY <2>1, AfterOrder
    <3> QED
      BY <1>2, <2>4, <3>1
  <2> QED
    BY <2>2, <2>3, <2>4
<1>4. f \in [1..(t - 1) -> P]
  <2>1. \A v \in 1..(t - 1) : v \in 1..n /\ v < t
    BY <1>1
  <2> QED
    BY <1>1, <1>3, <2>1 DEF Ahead
<1>5. f \in Surjection(1..(t - 1), P)
  <2> SUFFICES ASSUME NEW j \in P
               PROVE  \E v \in 1..(t - 1) : f[v] = j
    BY <1>4 DEF Surjection
  <2>1. j \in M /\ Pg!After(i, j)
    BY DEF Ahead
  <2>2. PICK v \in 1..n : s[v] = j
    BY <1>1, <2>1
  <2>3. v \in 1..(t - 1)
    BY <1>1, <1>3, <2>1, <2>2
  <2> QED
    BY <2>2, <2>3
<1>6. f \in Injection(1..(t - 1), P)
  <2>1. \A v \in 1..(t - 1) : v \in 1..n
    BY <1>1
  <2> QED
    BY <1>1, <1>4, <2>1 DEF Injection, IsInjective
<1>7. Cardinality(1..(t - 1)) = t - 1 /\ IsFiniteSet(1..(t - 1))
  BY FS_Interval
<1>8. Cardinality(P) = t - 1
  BY <1>5, <1>6, <1>7, FS_Surjection
<1> QED
  BY <1>1, <1>2, <1>8

LEMMA AheadFewer ==
  ASSUME PageRows, NEW q, NEW i \in Pg!Matching(q)
  PROVE  /\ Cardinality(Ahead(i, Pg!Matching(q))) \in Nat
         /\ Cardinality(Ahead(i, Pg!Matching(q))) < Cardinality(Pg!Matching(q))
<1> DEFINE M == Pg!Matching(q)
<1>1. ~Pg!After(i, i)
  BY AfterOrder
<1>2. Ahead(i, M) \subseteq M \ {i}
  BY <1>1 DEF Ahead
<1>3. IsFiniteSet(M) /\ Cardinality(M) \in Nat
  BY MatchingFinite
<1>4. IsFiniteSet(M \ {i}) /\ Cardinality(M \ {i}) = Cardinality(M) - 1
  BY <1>3, FS_RemoveElement
<1>5. Cardinality(Ahead(i, M)) <= Cardinality(M \ {i}) /\ Cardinality(Ahead(i, M)) \in Nat
  BY <1>2, <1>4, FS_Subset, FS_CardinalityType
<1> QED
  BY <1>3, <1>4, <1>5

(* There is a next page exactly if this one ends before the last row. *)
LEMMA PagesLeft ==
  ASSUME NEW n \in Nat, NEW limit \in Nat \ {0}, NEW page \in Nat
  PROVE  page < (n + limit - 1) \div limit <=> page * limit < n
<1> DEFINE d == (n + limit - 1) \div limit
<1>1. d \in Int /\ limit * d <= n + limit - 1 /\ n + limit - 1 < limit * d + limit
  OBVIOUS
<1> HIDE DEF d
<1>2. \A a, b \in Int : a <= b => limit * a <= limit * b
  OBVIOUS
<1>3. limit * page \in Int /\ limit * d \in Int /\ page * limit = limit * page
  BY <1>1
<1>4. CASE page < d
  <2>1. limit * (page + 1) <= limit * d /\ limit * (page + 1) = limit * page + limit
    BY <1>1, <1>2, <1>4
  <2> QED
    BY <1>1, <1>3, <1>4, <2>1 DEF d
<1>5. CASE ~(page < d)
  <2>1. limit * d <= limit * page
    BY <1>1, <1>2, <1>5
  <2> QED
    BY <1>1, <1>3, <1>5, <2>1 DEF d
<1> QED
  BY <1>4, <1>5

LEMMA SkipNext ==
  ASSUME NEW q \in PageQueries
  PROVE  /\ Pg!Skip(q) \in Nat /\ q.limit \in Nat \ {0}
         /\ q.page * q.limit = Pg!Skip(q) + q.limit
         /\ Pg!Skip([q EXCEPT !.page = @ + 1]) = Pg!Skip(q) + q.limit
         /\ [q EXCEPT !.page = @ + 1] \in PageQueries
<1>1. q.page \in Nat \ {0} /\ q.limit \in Nat \ {0} /\ q.limit \in Limits
  BY PageAssumption DEF PageQueries
<1>2. \A a \in Nat \ {0}, b \in Nat : (a - 1) * b \in Nat /\ a * b = (a - 1) * b + b
  OBVIOUS
<1>3. Pg!Skip(q) \in Nat /\ q.page * q.limit = Pg!Skip(q) + q.limit
  BY <1>1, <1>2 DEF Pg!Skip
<1> DEFINE z == [q EXCEPT !.page = @ + 1]
<1>4. z \in PageQueries /\ z.page = q.page + 1 /\ z.limit = q.limit
  BY <1>1 DEF PageQueries
<1>5. (q.page + 1) - 1 = q.page
  BY <1>1
<1>6. Pg!Skip(z) = q.page * q.limit
  BY <1>4, <1>5 DEF Pg!Skip
<1> QED
  BY <1>1, <1>3, <1>4, <1>6

(* What the client has been shown, if all rows differ in their keys: of    *)
(* the rows that were there at first, those that lie on the pages so far;  *)
(* and as many as there are on these pages, if nothing was added.          *)
SoFar == IF pagePc = "rows" THEN Pg!Skip(pageQuery) ELSE Pg!Skip(pageQuery) + pageQuery.limit

ShownSoFar ==
  LET M == Pg!Matching(pageQuery)  n == Cardinality(M) IN
  /\ pagePc \in {"rows", "count"} =>
       /\ \A i \in found : Cardinality(Ahead(i, M)) < SoFar => i \in Pg!ToSet(shown)
       /\ M = found => Len(shown) = IF n < SoFar THEN n ELSE SoFar
       /\ Pg!Skip(pageQuery) <= n
  /\ pagePc = "done" =>
       /\ found \subseteq Pg!ToSet(shown)
       /\ M = found => Len(shown) = n

PageInv ==
  /\ Pg!TypeOK /\ shown \in Seq(Ids)
  /\ pagePc = "idle" => shown = <<>> /\ found = {} /\ ~disturbed
  /\ pagePc # "idle" => pageQuery \in PageQueries
  /\ pagePc # "idle" /\ ~disturbed =>
       /\ found \subseteq Pg!Matching(pageQuery)
       /\ PageDistinct(Pg!Matching(pageQuery)) => ShownSoFar

LEMMA PageInitInv == Pg!Init => PageInv
<1>1. <<>> \in Seq(Ids) /\ Pg!ToSet(<<>>) = {}
  BY EmptySeq DEF Pg!ToSet
<1>2. ASSUME Pg!Init PROVE Pg!TypeOK
  <2>1. pageRow \in [Ids -> Pg!Rows \cup {Null}] /\ stamp \in 0..MaxStamp
    BY <1>2, PageAssumption DEF Pg!Init
  <2> QED
    BY <1>1, <1>2, <2>1 DEF Pg!Init, Pg!TypeOK
<1> QED
  BY <1>1, <1>2 DEF Pg!Init, PageInv

(* Rows that are added neither hide one that is there nor move it forward. *)
LEMMA RowsAdded ==
  ASSUME PageInv, ~disturbed, pageRow' \in [Ids -> Pg!Rows \cup {Null}],
         \A j \in Ids : pageRow[j] # Null => pageRow'[j] = pageRow[j],
         UNCHANGED <<list, pagePc, pageQuery, shown, found, disturbed>>, stamp' \in 0..MaxStamp
  PROVE  PageInv'
<1> DEFINE M == Pg!Matching(pageQuery)
           N == Pg!Matching(pageQuery)'
<1>1. Pg!TypeOK' /\ shown' \in Seq(Ids)
  BY DEF PageInv, Pg!TypeOK
<1>2. CASE pagePc = "idle"
  BY <1>1, <1>2 DEF PageInv
<1>3. CASE pagePc # "idle"
  <2>1. pageQuery' \in PageQueries /\ pageQuery' = pageQuery
    BY <1>3 DEF PageInv
  <2>2. M \subseteq N /\ N \subseteq Ids
    BY DEF Pg!Matching
  <2>3. found' \subseteq N /\ found \subseteq M
    BY <1>3, <2>2 DEF PageInv
  <2>4. \A i, j \in M : Pg!After(i, j)' <=> Pg!After(i, j)
    BY DEF Pg!Matching, Pg!After
  <2>5. ASSUME PageDistinct(Pg!Matching(pageQuery))'
        PROVE  ShownSoFar'
    <3>1. PageDistinct(M)
      BY <2>2, <2>4, <2>5 DEF PageDistinct
    <3>2. ShownSoFar
      BY <1>3, <3>1 DEF PageInv
    <3>3. ASSUME NEW i \in found
          PROVE  /\ Cardinality(Ahead(i, M)) \in Nat /\ Cardinality(Ahead(i, M)') \in Nat
                 /\ Cardinality(Ahead(i, M)) <= Cardinality(Ahead(i, M)')
      <4>1. Ahead(i, M) \subseteq Ahead(i, M)' /\ Ahead(i, M)' \subseteq Ids
        BY <2>2, <2>3, <2>4 DEF Ahead
      <4> QED
        BY <4>1, PageAssumption, FS_Subset, FS_CardinalityType
    <3>4. /\ Cardinality(M) \in Nat /\ Cardinality(N) \in Nat
          /\ Cardinality(M) <= Cardinality(N)
      BY <2>2, PageAssumption, FS_Subset, FS_CardinalityType
    <3>5. N = found => M = found
      BY <2>2, <2>3
    <3>6. Pg!Skip(pageQuery) \in Nat /\ Pg!Skip(pageQuery)' = Pg!Skip(pageQuery)
          /\ SoFar \in Nat /\ SoFar' = SoFar
      <4>1. Pg!Skip(pageQuery) \in Nat /\ pageQuery.limit \in Nat
        BY <2>1, SkipNext
      <4>2. Pg!Skip(pageQuery)' = Pg!Skip(pageQuery)
        BY DEF Pg!Skip
      <4> QED
        BY <4>1, <4>2 DEF SoFar
    <3>7. Pg!ToSet(shown)' = Pg!ToSet(shown)
      BY DEF Pg!ToSet
    <3>8. CASE pagePc = "done"
      BY <3>2, <3>5, <3>7, <3>8 DEF ShownSoFar
    <3>9. CASE pagePc \in {"rows", "count"}
      <4>1. /\ \A i \in found : Cardinality(Ahead(i, M)) < SoFar => i \in Pg!ToSet(shown)
            /\ M = found => Len(shown) = IF Cardinality(M) < SoFar THEN Cardinality(M) ELSE SoFar
            /\ Pg!Skip(pageQuery) <= Cardinality(M)
        BY <3>2, <3>9 DEF ShownSoFar
      <4>2. \A i \in found' : Cardinality(Ahead(i, M)') < SoFar' => i \in Pg!ToSet(shown)'
        BY <3>3, <3>6, <3>7, <4>1
      <4>3. N = found' => Len(shown') = IF Cardinality(N) < SoFar' THEN Cardinality(N) ELSE SoFar'
        BY <3>5, <3>6, <4>1
      <4>4. Pg!Skip(pageQuery)' <= Cardinality(N)
        BY <3>4, <3>6, <4>1
      <4> QED
        BY <3>9, <4>2, <4>3, <4>4 DEF ShownSoFar
    <3> QED
      BY <1>1, <3>8, <3>9 DEF ShownSoFar
  <2> QED
    BY <1>1, <1>3, <2>1, <2>3, <2>5 DEF PageInv
<1> QED
  BY <1>2, <1>3

(* A row that moves or goes while a client reads disturbs it; otherwise    *)
(* nobody is reading.                                                      *)
LEMMA RowChanged ==
  ASSUME PageInv, NEW i \in Ids, NEW new \in Pg!Rows \cup {Null}, Pg!Change(i, new)
  PROVE  PageInv'
<1>1. pageRow' \in [Ids -> Pg!Rows \cup {Null}]
  BY DEF Pg!Change, PageInv, Pg!TypeOK
<1>2. Pg!TypeOK' /\ shown' \in Seq(Ids)
  BY <1>1 DEF Pg!Change, PageInv, Pg!TypeOK
<1> QED
  BY <1>2 DEF Pg!Change, PageInv

LEMMA AddKeeps ==
  ASSUME PageInv, NEW i \in Ids, NEW date \in Dates \cup {0}, Pg!Add(i, date)
  PROVE  PageInv'
<1>1. PICK t \in {stamp, stamp + 1} \cap 0..MaxStamp :
        stamp' = t /\ pageRow' = [pageRow EXCEPT ![i] = [date |-> date, created |-> t]]
  BY DEF Pg!Add
<1>2. [date |-> date, created |-> t] \in Pg!Rows
  BY DEF Pg!Rows
<1>3. pageRow \in [Ids -> Pg!Rows \cup {Null}]
  BY DEF PageInv, Pg!TypeOK
<1>4. pageRow' \in [Ids -> Pg!Rows \cup {Null}]
  BY <1>1, <1>2, <1>3
<1>5. \A j \in Ids : pageRow[j] # Null => pageRow'[j] = pageRow[j]
  BY <1>1, <1>3 DEF Pg!Add
<1> QED
  BY <1>1, <1>4, <1>5, RowsAdded DEF Pg!Add

LEMMA OpenKeeps ==
  ASSUME PageInv, NEW from \in Dates \cup {0}, NEW limit \in Limits, Pg!Open(from, limit)
  PROVE  PageInv'
<1> DEFINE q == [from |-> from, limit |-> limit, page |-> 1]
           M == Pg!Matching(q)
<1>1. q \in PageQueries /\ Pg!Skip(q) = 0
  BY PageAssumption DEF PageQueries, Pg!Skip
<1>2. /\ pagePc = "idle" /\ pagePc' = "rows" /\ pageQuery' = q /\ found' = M
      /\ shown = <<>> /\ shown' = shown /\ ~disturbed /\ disturbed' = disturbed
      /\ pageRow' = pageRow /\ list' = list /\ stamp' = stamp
  BY DEF Pg!Open, PageInv
<1> HIDE DEF q
<1>3. Pg!Matching(pageQuery)' = M
  BY <1>2 DEF Pg!Matching
<1>4. Pg!TypeOK' /\ shown' \in Seq(Ids)
  <2>1. DOMAIN q = DOMAIN Pg!NoQuery
    BY DEF q, Pg!NoQuery
  <2>2. M \subseteq Ids
    BY MatchingFinite
  <2> QED
    BY <1>2, <2>1, <2>2 DEF PageInv, Pg!TypeOK, Pg!ToSet
<1>5. ShownSoFar'
  <2>1. \A i : Cardinality(Ahead(i, M)) \in Nat
    BY PrecedingFinite
  <2>2. Cardinality(M) \in Nat /\ Len(shown) = 0
    BY <1>2, MatchingFinite, EmptySeq
  <2>3. Pg!Skip(pageQuery)' = 0 /\ SoFar' = 0
    BY <1>1, <1>2 DEF SoFar, Pg!Skip
  <2>4. \A i : Ahead(i, M)' = Ahead(i, M)
    BY <1>2 DEF Ahead, Pg!After, Pg!Matching, q
  <2>5. \A i \in found' : ~(Cardinality(Ahead(i, Pg!Matching(pageQuery)))' < SoFar')
    <3>1. \A i : Ahead(i, Pg!Matching(pageQuery))' = Ahead(i, M)
      BY <1>2, <1>3 DEF Ahead, Pg!After
    <3> QED
      BY <2>1, <2>3, <3>1
  <2> QED
    BY <1>2, <1>3, <2>2, <2>3, <2>5 DEF ShownSoFar
<1> QED
  BY <1>1, <1>2, <1>3, <1>4, <1>5 DEF PageInv

(* The rows of a page *)
LEMMA TakeIs ==
  ASSUME PageInv, NEW q \in PageQueries, NEW s \in Pg!Ordered(q)
  PROVE  LET n == Cardinality(Pg!Matching(q))
             k == Pg!Skip(q)
             m == IF n < k + q.limit THEN n ELSE k + q.limit
         IN /\ Pg!Take(s, q) \in Seq(Ids) /\ n \in Nat
            /\ k <= n => Len(Pg!Take(s, q)) = m - k
            /\ \A t \in (k + 1)..m : \E u \in 1..Len(Pg!Take(s, q)) : Pg!Take(s, q)[u] = s[t]
<1> DEFINE n == Cardinality(Pg!Matching(q))
           k == Pg!Skip(q)
           m == IF n < k + q.limit THEN n ELSE k + q.limit
           p == Pg!Take(s, q)
<1>1. n \in Nat /\ Len(s) = n /\ s \in [1..n -> Pg!Matching(q)]
  BY OrderedIsSeq
<1>2. k \in Nat /\ q.limit \in Nat \ {0}
  BY SkipNext
<1>3. p = SubSeq(s, k + 1, m)
  BY <1>1 DEF Pg!Take
<1> HIDE DEF n, k, p
<1>4. m \in Nat /\ m <= n /\ k + 1 \in Int /\ (k <= n => k <= m)
  BY <1>1, <1>2
<1> HIDE DEF m
<1>5. \A t \in (k + 1)..m : s[t] \in Ids
  <2>1. \A t \in (k + 1)..m : t \in 1..n
    BY <1>1, <1>2, <1>4
  <2> QED
    BY <1>1, <2>1, MatchingFinite
<1>6. /\ p \in Seq(Ids)
      /\ Len(p) = IF k + 1 <= m THEN m - (k + 1) + 1 ELSE 0
      /\ \A u \in 1..(m - (k + 1) + 1) : p[u] = s[(k + 1) + u - 1]
  BY <1>3, <1>4, <1>5, SubSeqProperties
<1>7. k <= n => Len(p) = m - k
  BY <1>2, <1>4, <1>6
<1>8. ASSUME NEW t \in (k + 1)..m PROVE \E u \in 1..Len(p) : p[u] = s[t]
  <2>1. t - k \in 1..(m - (k + 1) + 1) /\ (k + 1) + (t - k) - 1 = t
        /\ t - k \in 1..Len(p)
    BY <1>2, <1>4, <1>6
  <2>2. p[t - k] = s[t]
    BY <1>6, <2>1
  <2> QED
    BY <2>1, <2>2
<1> QED
  BY <1>1, <1>6, <1>7, <1>8 DEF n, k, m, p

LEMMA FindRowsKeeps ==
  ASSUME PageInv, Pg!FindRows
  PROVE  PageInv'
<1> DEFINE q == pageQuery
           M == Pg!Matching(q)
           n == Cardinality(M)
           k == Pg!Skip(q)
           m == IF n < k + q.limit THEN n ELSE k + q.limit
<1>1. PICK s \in Pg!Ordered(q) : shown' = shown \o Pg!Take(s, q)
  BY DEF Pg!FindRows
<1>2. /\ pagePc = "rows" /\ pagePc' = "count" /\ pageQuery' = q /\ found' = found
      /\ disturbed' = disturbed /\ pageRow' = pageRow /\ list' = list /\ stamp' = stamp
  BY DEF Pg!FindRows
<1>3. q \in PageQueries /\ shown \in Seq(Ids) /\ PageRows
  BY <1>2 DEF PageInv, Pg!TypeOK, PageRows
<1> DEFINE p == Pg!Take(s, q)
<1>4. /\ p \in Seq(Ids) /\ n \in Nat
      /\ k <= n => Len(p) = m - k
      /\ \A t \in (k + 1)..m : \E u \in 1..Len(p) : p[u] = s[t]
  BY <1>3, TakeIs
<1> HIDE DEF p
<1>5. /\ shown' \in Seq(Ids) /\ Len(shown') = Len(shown) + Len(p)
      /\ Len(shown) \in Nat /\ Len(p) \in Nat
      /\ \A u \in 1..Len(shown) : shown'[u] = shown[u]
      /\ \A u \in 1..Len(p) : shown'[Len(shown) + u] = p[u]
  <2>1. shown' = shown \o p /\ Len(shown) \in Nat /\ Len(p) \in Nat
    BY <1>1, <1>3, <1>4, LenProperties DEF p
  <2>2. /\ shown \o p \in Seq(Ids) /\ Len(shown \o p) = Len(shown) + Len(p)
        /\ \A i \in 1..Len(shown) + Len(p) :
             (shown \o p)[i] = IF i <= Len(shown) THEN shown[i] ELSE p[i - Len(shown)]
    BY <1>3, <1>4, ConcatProperties
  <2>3. \A u \in 1..Len(shown) : u \in 1..Len(shown) + Len(p) /\ u <= Len(shown)
    BY <2>1
  <2>4. \A u \in 1..Len(p) : /\ Len(shown) + u \in 1..Len(shown) + Len(p)
                             /\ ~(Len(shown) + u <= Len(shown)) /\ (Len(shown) + u) - Len(shown) = u
    BY <2>1
  <2> QED
    BY <2>1, <2>2, <2>3, <2>4
<1>6. /\ \A i : i \in Pg!ToSet(shown) => i \in Pg!ToSet(shown)'
      /\ \A u \in 1..Len(p) : p[u] \in Pg!ToSet(shown)'
      /\ Pg!ToSet(shown)' \subseteq Ids
  <2>1. DOMAIN shown = 1..Len(shown) /\ DOMAIN shown' = 1..Len(shown')
    BY <1>3, <1>5, LenProperties
  <2>2. \A u \in 1..Len(shown) : u \in 1..Len(shown')
    BY <1>5
  <2>3. \A u \in 1..Len(p) : Len(shown) + u \in 1..Len(shown')
    BY <1>5
  <2>4. \A u \in 1..Len(shown') : shown'[u] \in Ids
    BY <1>5, LenProperties
  <2> QED
    BY <1>5, <2>1, <2>2, <2>3, <2>4 DEF Pg!ToSet
<1>7. Pg!TypeOK' /\ shown' \in Seq(Ids)
  BY <1>2, <1>5, <1>6 DEF PageInv, Pg!TypeOK
<1>8. Pg!Matching(pageQuery)' = M
  BY <1>2 DEF Pg!Matching
<1>9. PageDistinct(Pg!Matching(pageQuery))' => PageDistinct(M)
  BY <1>2, <1>8 DEF PageDistinct, Pg!After
<1>10. \A i : Ahead(i, Pg!Matching(pageQuery))' = Ahead(i, M)
  BY <1>2, <1>8 DEF Ahead, Pg!After
<1>11. k \in Nat /\ q.limit \in Nat \ {0}
  BY <1>3, SkipNext
<1>12. Pg!Skip(pageQuery)' = k /\ SoFar' = k + q.limit /\ SoFar = k
  BY <1>2 DEF SoFar, Pg!Skip
<1>13. ASSUME ~disturbed, PageDistinct(M)
       PROVE  ShownSoFar'
  <2>1. /\ \A i \in found : Cardinality(Ahead(i, M)) < k => i \in Pg!ToSet(shown)
        /\ M = found => Len(shown) = IF n < k THEN n ELSE k
        /\ k <= n
    BY <1>2, <1>12, <1>13 DEF PageInv, ShownSoFar
  <2>2. ASSUME NEW i \in found, Cardinality(Ahead(i, M)) < k + q.limit
        PROVE  i \in Pg!ToSet(shown)'
    <3>1. i \in M
      BY <1>2, <1>13 DEF PageInv
    <3>2. PICK t \in 1..Len(s) : s[t] = i /\ Cardinality(Ahead(i, M)) = t - 1
      BY <1>3, <1>13, <3>1, Position
    <3>3. Len(s) = n
      BY OrderedIsSeq
    <3>4. CASE t - 1 < k
      BY <1>6, <2>1, <3>2, <3>4
    <3>5. CASE ~(t - 1 < k)
      <4>1. t \in (k + 1)..m
        BY <1>4, <1>11, <2>2, <3>2, <3>3, <3>5
      <4> QED
        BY <1>4, <1>6, <3>2, <4>1
    <3> QED
      BY <3>4, <3>5
  <2>3. ASSUME M = found PROVE Len(shown') = m
    <3>1. Len(shown) = IF n < k THEN n ELSE k
      BY <2>1, <2>3
    <3>2. /\ n \in Nat /\ k \in Nat /\ k <= n /\ q.limit \in Nat
          /\ Len(p) = m - k /\ Len(shown') = Len(shown) + Len(p)
      BY <1>4, <1>5, <1>11, <2>1
    <3>3. m \in Nat
      BY <3>2
    <3> HIDE DEF m, n, k
    <3>4. Len(shown) = k
      BY <3>1, <3>2
    <3> QED
      BY <3>2, <3>3, <3>4
  <2> QED
    BY <1>2, <1>8, <1>10, <1>12, <2>1, <2>2, <2>3 DEF ShownSoFar
<1> QED
  BY <1>2, <1>3, <1>7, <1>8, <1>9, <1>13 DEF PageInv

LEMMA CountKeeps ==
  ASSUME PageInv, Pg!Count
  PROVE  PageInv'
<1> DEFINE q == pageQuery
           M == Pg!Matching(q)
           n == Cardinality(M)
<1>1. /\ pagePc = "count" /\ found' = found /\ shown' = shown
      /\ disturbed' = disturbed /\ pageRow' = pageRow /\ list' = list /\ stamp' = stamp
  BY DEF Pg!Count
<1>2. q \in PageQueries
  BY <1>1 DEF PageInv
<1>3. /\ Pg!Skip(q) \in Nat /\ q.limit \in Nat \ {0}
      /\ q.page * q.limit = Pg!Skip(q) + q.limit
      /\ Pg!Skip([q EXCEPT !.page = @ + 1]) = Pg!Skip(q) + q.limit
      /\ [q EXCEPT !.page = @ + 1] \in PageQueries
  BY <1>2, SkipNext
<1>4. n \in Nat /\ Pg!TotalPages(q) = (n + q.limit - 1) \div q.limit /\ q.page \in Nat
  BY <1>2, MatchingFinite, PageCardinality DEF Pg!TotalPages, PageQueries
<1>5. q.page < Pg!TotalPages(q) <=> Pg!Skip(q) + q.limit < n
  BY <1>3, <1>4, PagesLeft
<1>6. pageQuery' \in PageQueries /\ pageQuery'.from = q.from /\ pagePc' \in {"rows", "done"}
  <2>1. CASE pageQuery' = [q EXCEPT !.page = @ + 1] /\ pagePc' = "rows"
    BY <1>2, <1>3, <2>1 DEF PageQueries
  <2>2. CASE pageQuery' = q /\ pagePc' = "done"
    BY <1>2, <2>2
  <2> QED
    BY <2>1, <2>2 DEF Pg!Count
<1>7. Pg!Matching(pageQuery)' = M
  BY <1>1, <1>6 DEF Pg!Matching
<1>8. Pg!TypeOK' /\ shown' \in Seq(Ids)
  <2>1. DOMAIN pageQuery' = DOMAIN Pg!NoQuery
    BY <1>6 DEF PageQueries, Pg!NoQuery
  <2> QED
    BY <1>1, <1>6, <2>1 DEF PageInv, Pg!TypeOK, Pg!ToSet
<1>9. PageDistinct(Pg!Matching(pageQuery))' => PageDistinct(M)
  BY <1>1, <1>7 DEF PageDistinct, Pg!After
<1>10. \A i : Ahead(i, Pg!Matching(pageQuery))' = Ahead(i, M)
  BY <1>1, <1>7 DEF Ahead, Pg!After
<1>11. ASSUME ~disturbed, PageDistinct(M)
       PROVE  ShownSoFar'
  <2>1. /\ \A i \in found : Cardinality(Ahead(i, M)) < Pg!Skip(q) + q.limit => i \in Pg!ToSet(shown)
        /\ M = found => Len(shown) = IF n < Pg!Skip(q) + q.limit THEN n ELSE Pg!Skip(q) + q.limit
        /\ found \subseteq M
    BY <1>1, <1>11 DEF PageInv, ShownSoFar, SoFar
  <2>2. Pg!ToSet(shown)' = Pg!ToSet(shown)
    BY <1>1 DEF Pg!ToSet
  <2>3. CASE q.page < Pg!TotalPages(q)
    <3>1. pageQuery' = [q EXCEPT !.page = @ + 1] /\ pagePc' = "rows"
      BY <2>3 DEF Pg!Count
    <3>2. Pg!Skip(pageQuery)' = Pg!Skip(q) + q.limit
      BY <1>3, <3>1 DEF Pg!Skip
    <3>3. SoFar' = Pg!Skip(q) + q.limit
      BY <3>1, <3>2 DEF SoFar
    <3>4. Pg!Skip(q) + q.limit <= n
      BY <1>3, <1>4, <1>5, <2>3
    <3> QED
      BY <1>1, <1>7, <1>10, <2>1, <2>2, <3>1, <3>2, <3>3, <3>4 DEF ShownSoFar
  <2>4. CASE ~(q.page < Pg!TotalPages(q))
    <3>1. pagePc' = "done"
      BY <2>4 DEF Pg!Count
    <3>2. n <= Pg!Skip(q) + q.limit
      BY <1>3, <1>4, <1>5, <2>4
    <3>3. ASSUME NEW i \in found PROVE i \in Pg!ToSet(shown)
      <4>1. i \in M
        BY <2>1
      <4>2. Cardinality(Ahead(i, M)) \in Nat /\ Cardinality(Ahead(i, M)) < n
        BY <1>1, <4>1, AheadFewer DEF PageInv, Pg!TypeOK, PageRows
      <4> QED
        BY <1>3, <1>4, <2>1, <3>2, <4>2
    <3>4. M = found => Len(shown) = n
      BY <1>3, <1>4, <2>1, <3>2
    <3> QED
      BY <1>1, <1>7, <2>2, <3>1, <3>3, <3>4 DEF ShownSoFar
  <2> QED
    BY <2>3, <2>4
<1> QED
  BY <1>1, <1>6, <1>7, <1>8, <1>9, <1>11 DEF PageInv

LEMMA PageNextInv == PageInv /\ [Pg!Next]_(Pg!vars) => PageInv'
<1> SUFFICES ASSUME PageInv, [Pg!Next]_(Pg!vars)
             PROVE  PageInv'
  OBVIOUS
<1>1. ASSUME NEW i \in Ids, Pg!Delete(i) PROVE PageInv'
  BY <1>1, RowChanged DEF Pg!Delete
<1>2. ASSUME NEW i \in Ids, NEW date \in Dates, Pg!Move(i, date) PROVE PageInv'
  <2>1. [pageRow[i] EXCEPT !.date = date] \in Pg!Rows
    <3>1. pageRow[i] \in Pg!Rows
      BY <1>2 DEF Pg!Move, PageInv, Pg!TypeOK
    <3> QED
      BY <3>1 DEF Pg!Rows
  <2> QED
    BY <1>2, <2>1, RowChanged DEF Pg!Move
<1>3. CASE Pg!Close
  <2>1. Pg!ToSet(<<>>) = {} /\ <<>> \in Seq(Ids)
    BY EmptySeq DEF Pg!ToSet
  <2> QED
    BY <1>3, <2>1 DEF Pg!Close, PageInv, Pg!TypeOK
<1>4. CASE UNCHANGED Pg!vars
  BY <1>4 DEF Pg!vars, PageInv, Pg!TypeOK, ShownSoFar, SoFar, PageDistinct, Ahead,
     Pg!Matching, Pg!After, Pg!Skip, Pg!ToSet
<1> QED
  BY <1>1, <1>2, <1>3, <1>4, AddKeeps, OpenKeeps, FindRowsKeeps, CountKeeps DEF Pg!Next

LEMMA PagePromises == PageInv => Pg!TypeOK /\ Pg!NoneMissed
BY PageCardinality DEF PageInv, Pg!NoneMissed, PageDistinct, ShownSoFar

-----------------------------------------------------------------------------
(* Tires: what Tires_proofs shows, for one request.  Its instance of Tires *)
(* says what that of Services says.                                        *)
TP == INSTANCE Tires_proofs WITH
  Requests <- {Caller}, Users <- Owners, Privileged <- Owners, OwnTires <- TRUE,
  vehicle <- owner, tire <- mounted, pc <- alonePc, arg <- aloneArg

LEMMA TireReads ==
  /\ \A t : One!Live(t) <=> TP!Live(t)
  /\ \A v : One!TiresOf(v) = TP!TiresOf(v)
  /\ \A v : One!Mounted(v) = TP!Mounted(v)
  /\ \A t, r : One!RowLocked(t, r) <=> TP!RowLocked(t, r)
  /\ \A t, r : One!KeyLocked(t, r) <=> TP!KeyLocked(t, r)
  /\ \A q, r : One!Deadlocked(q, r) <=> TP!Deadlocked(q, r)
  /\ \A u, row : One!assertCanDeleteOwnedResource(u, row)
                  <=> TP!assertCanDeleteOwnedResource(u, row)
<1>1. \A t : One!Live(t) <=> TP!Live(t)
  BY DEF One!Live, TP!Live
<1>2. \A v : One!TiresOf(v) = TP!TiresOf(v)
  BY <1>1 DEF One!TiresOf, TP!TiresOf
<1>3. \A v : One!Mounted(v) = TP!Mounted(v)
  BY <1>2 DEF One!Mounted, TP!Mounted
<1> QED
  BY <1>1, <1>2, <1>3 DEF One!RowLocked, TP!RowLocked, One!KeyLocked, TP!KeyLocked,
       One!Deadlocked, TP!Deadlocked, One!assertCanDeleteOwnedResource,
       TP!assertCanDeleteOwnedResource

LEMMA TireReadsNext == \A v \in VehicleIds : One!Mounted(v)' = TP!Mounted(v)'
BY DEF One!Mounted, TP!Mounted, One!TiresOf, TP!TiresOf, One!Live, TP!Live

LEMMA TireOpens ==
  ASSUME NEW r, One!Open(r)
  PROVE  TP!Open(r)
<1> USE TireReads DEF One!Opened, TP!Opened, One!Continue, TP!Continue, One!Goto, TP!Goto,
     One!NoArgs, TP!NoArgs, One!tables, TP!tables, One!vars, TP!vars
<1>1. \A v \in VehicleIds :
       One!OpenDeleteVehicle(r, v) <=> TP!OpenDeleteVehicle(r, v)
  BY DEF One!OpenDeleteVehicle, TP!OpenDeleteVehicle
<1>2. \A v \in VehicleIds, u \in Owners :
       One!OpenCreate(r, v, u) <=> TP!OpenCreate(r, v, u)
  BY DEF One!OpenCreate, TP!OpenCreate
<1>3. \A t \in TireIds, status \in One!TireStatus :
       One!OpenUpdate(r, t, status) <=> TP!OpenUpdate(r, t, status)
  BY DEF One!OpenUpdate, TP!OpenUpdate
<1>4. \A t \in TireIds, u \in Owners :
       One!OpenDelete(r, t, u) <=> TP!OpenDelete(r, t, u)
  BY DEF One!OpenDelete, TP!OpenDelete
<1>5. \A v \in VehicleIds, t \in TireIds, status \in {"MOUNTED", "STORED"} :
       One!OpenChange(r, v, t, status) <=> TP!OpenChange(r, v, t, status)
  BY DEF One!OpenChange, TP!OpenChange
<1> QED
  BY <1>1, <1>2, <1>3, <1>4, <1>5 DEF One!Open, TP!Open, One!TireStatus, TP!TireStatus

LEMMA TireHandlers ==
  ASSUME NEW r, One!Step(r)
  PROVE  TP!Step(r)
<1> USE TireReads DEF One!Continue, TP!Continue, One!Finish, TP!Finish, One!Answer, TP!Answer,
     One!Goto, TP!Goto, One!NoArgs, TP!NoArgs, One!tables, TP!tables, One!FreeTire, TP!FreeTire,
     One!GoneTire, TP!GoneTire, One!WriteNext, TP!WriteNext
<1>1. One!Create(r) <=> TP!Create(r)
  BY DEF One!Create, TP!Create
<1>2. One!Update(r) <=> TP!Update(r)
  BY DEF One!Update, TP!Update
<1>3. One!Delete(r) <=> TP!Delete(r)
  BY DEF One!Delete, TP!Delete
<1>4. One!MountFind(r) <=> TP!MountFind(r)
  BY Zenon DEF One!MountFind, TP!MountFind
<1>5. One!MountDemote(r) <=> TP!MountDemote(r)
  BY Zenon DEF One!MountDemote, TP!MountDemote
<1>6. One!MountTarget(r) <=> TP!MountTarget(r)
  BY DEF One!MountTarget, TP!MountTarget
<1>7. One!InsertEvent(r) <=> TP!InsertEvent(r)
  BY DEF One!InsertEvent, TP!InsertEvent
<1>8. One!VehicleTires(r) <=> TP!VehicleTires(r)
  BY DEF One!VehicleTires, TP!VehicleTires
<1>9. One!VehicleCommit(r) <=> TP!VehicleCommit(r)
  BY DEF One!VehicleCommit, TP!VehicleCommit
<1> QED
  BY <1>1, <1>2, <1>3, <1>4, <1>5, <1>6, <1>7, <1>8, <1>9 DEF One!Step, TP!Step

LEMMA TireSteps ==
  /\ One!Init => TP!Init
  /\ [One!Next]_(One!vars) => [TP!Next]_(TP!vars)
<1>1. One!Init => TP!Init
  BY DEF One!Init, TP!Init, One!FreeTire, TP!FreeTire, One!NoArgs, TP!NoArgs
<1>2. ASSUME NEW r
      PROVE  /\ One!DeadlockVictim(r) => TP!DeadlockVictim(r)
             /\ One!Fail(r) => TP!Fail(r)
  BY TireReads DEF One!DeadlockVictim, TP!DeadlockVictim, One!Fail, TP!Fail, One!Answer,
       TP!Answer, One!Finish, TP!Finish, One!Goto, TP!Goto, One!NoArgs, TP!NoArgs, One!tables,
       TP!tables
<1>3. One!Next => TP!Next
  <2> SUFFICES ASSUME NEW r \in {Caller},
                      One!Open(r) \/ One!Step(r) \/ One!DeadlockVictim(r) \/ One!Fail(r)
               PROVE  TP!Open(r) \/ TP!Step(r) \/ TP!DeadlockVictim(r) \/ TP!Fail(r)
    BY DEF One!Next, TP!Next
  <2>1. CASE One!Open(r)
    BY <2>1, TireOpens
  <2>2. CASE One!Step(r)
    BY <2>2, TireHandlers
  <2> QED
    BY <1>2, <2>1, <2>2, Zenon
<1>4. UNCHANGED One!vars => UNCHANGED TP!vars
  BY DEF One!vars, TP!vars
<1> QED
  BY <1>1, <1>3, <1>4

-----------------------------------------------------------------------------
(* The parts together *)

(* A step is one of the part a behaviour is about, whose variables are all *)
(* that it changes.                                                        *)
LEMMA StepOfPart ==
  ASSUME [ServicesNext]_servicesVars
  PROVE  /\ part' = part
         /\ [Next]_vars
         /\ part = "conversations" => [Co!Next]_(Co!vars)
         /\ part = "notifications" => [No!Next]_(No!vars)
         /\ part = "stations" => [St!Next]_(St!vars)
         /\ part = "stats" => [Sta!Next]_(Sta!vars)
         /\ part = "reminders" => [Li!Next]_(Li!vars)
         /\ part = "pages" => [Pg!Next]_(Pg!vars)
<1>1. CASE UNCHANGED servicesVars
  <2>1. UNCHANGED <<part, vars, talkVars, mailVars, stationVars, statsVars, listVars, pageVars>>
    BY <1>1 DEF servicesVars
  <2>2. UNCHANGED Co!vars
    BY <2>1 DEF talkVars, Co!vars
  <2>3. UNCHANGED No!vars
    BY <2>1 DEF mailVars, No!vars, No!history
  <2>4. UNCHANGED St!vars
    BY <2>1 DEF stationVars, St!vars
  <2>5. UNCHANGED Sta!vars
    BY <2>1 DEF statsVars, Sta!vars
  <2>6. UNCHANGED Li!vars
    BY <2>1 DEF listVars, Li!vars
  <2>7. UNCHANGED Pg!vars
    BY <2>1 DEF pageVars, Pg!vars
  <2> QED
    BY <2>1, <2>2, <2>3, <2>4, <2>5, <2>6, <2>7
<1>2. CASE ServicesNext
  BY <1>2 DEF ServicesNext, Others
<1> QED
  BY <1>1, <1>2

PartsInv ==
  /\ part = "conversations" => TalkInv
  /\ part = "notifications" => MailInv
  /\ part = "stations" => StationInv
  /\ part = "stats" => QueryType
  /\ part = "reminders" => ReminderInv
  /\ part = "pages" => PageInv

LEMMA PartsInductive == ServicesSpec => []PartsInv
<1>1. ServicesInit => PartsInv
  BY TalkInitInv, MailInitInv, StationInitInv, QueryInv, ReminderInitInv,
     PageInitInv
  DEF ServicesInit, PartsInv
<1>2. PartsInv /\ [ServicesNext]_servicesVars => PartsInv'
  BY StepOfPart, TalkNextInv, MailNextInv, StationNextInv, QueryInv, ReminderNextInv,
     PageNextInv
  DEF PartsInv
<1> QED
  BY <1>1, <1>2, PTL DEF ServicesSpec

(* AuthRateLimitGuard, whatever the part: what is counted for a key, with  *)
(* the sweep and the blocks, implements the abstract window.               *)
THEOREM Windows == ServicesSpec => ImplementsWindow
<1>1. ServicesInit => Init
  BY DEF ServicesInit
<1>2. [ServicesNext]_servicesVars => [Next]_vars
  BY StepOfPart
<1> QED
  BY <1>1, <1>2, Refinement, PTL DEF ServicesSpec, Spec

(* AiConversationsService: every stored question has exactly one answer or *)
(* stored error, unless its request is still at work, or the process ended *)
(* under it or both writes failed; for any requests, conversations, turns  *)
(* and window.                                                             *)
THEOREM Answering == ServicesSpec => []EveryTurnAnswered
<1>1. PartsInv => EveryTurnAnswered
  BY TalkPromises DEF PartsInv, EveryTurnAnswered
<1> QED
  BY <1>1, PartsInductive, PTL

(* NotificationsCron: as long as no two runs met, a reminder is mailed at  *)
(* most once on a day; for any servers, reminders and thresholds.          *)
THEOREM Mailing == ServicesSpec => []MailedOnceADay
<1>1. PartsInv => MailedOnceADay
  BY MailPromises DEF PartsInv, MailedOnceADay, MailInv
<1> QED
  BY <1>1, PartsInductive, PTL

(* NotificationsCron: who has had a reminder for the whole day before it   *)
(* is due was told of it by then, unless a run was cut short or skipped.   *)
THEOREM Reminding == ServicesSpec => []RemindedBeforeDue
<1>1. PartsInv => RemindedBeforeDue
  BY MailPromises DEF PartsInv, RemindedBeforeDue
<1> QED
  BY <1>1, PartsInductive, PTL

(* ServiceStationsService.toggleFavorite: where no two requests met, the   *)
(* star of a station follows the number of toggles, for any requests.      *)
THEOREM Toggling == ServicesSpec => []ToggledInStep
<1>1. StationInv => St!TypeOK /\ St!ToggledInStep
  BY DEF StationInv, StationInStep, St!ToggledInStep
<1>2. PartsInv => ToggledInStep
  BY <1>1 DEF PartsInv, ToggledInStep
<1> QED
  BY <1>2, PartsInductive, PTL

(* getPreviousPeriodRange, for every valid date of any year: the period a  *)
(* report is compared with ends the day before its own begins, except in   *)
(* the months and quarters the code's day arithmetic carries over.         *)
THEOREM Preceding == ServicesSpec => []PreviousPeriodPrecedes
<1>1. PartsInv => PreviousPeriodPrecedes
  BY QueryPrecedes DEF PartsInv, PreviousPeriodPrecedes
<1> QED
  BY <1>1, PartsInductive, PTL

(* attachMaintenanceProgress, for any intervals, odometers and days: what  *)
(* is due by its mileage is shown with 100 %, what is due by its date with *)
(* 93 % at least, if the tables stood still while the list was made.       *)
THEOREM Progressing == ServicesSpec => []DueLooksDue
<1>1. PartsInv => DueLooksDue
  BY ReminderPromises DEF PartsInv, DueLooksDue
<1> QED
  BY <1>1, PartsInductive, PTL

(* The lists of the API, read page by page with a count beside the rows:   *)
(* if rows are only added meanwhile and differ in their keys, all that was *)
(* there at the first page is shown, and once only if nothing was added;   *)
(* for any rows, filters and limits.                                       *)
THEOREM Paging == ServicesSpec => []NoneMissed
<1>1. PartsInv => NoneMissed
  BY PagePromises DEF PartsInv, NoneMissed
<1> QED
  BY <1>1, PartsInductive, PTL

(* mount and manualMount, one request at a time: each step of the tires is *)
(* a step of MountedSet or a stutter, for any vehicles and tires.          *)
THEOREM Mounting == ServicesSpec => ImplementsMountedSet
<1>1. TP!ConstantsAssumption
  BY ServicesAssumption DEF One!ConstantsAssumption, TP!ConstantsAssumption,
     IsFiniteSet, One!IsFiniteSet, TP!IsFiniteSet
<1>2. TP!Spec => TP!ImplementsMountedSet
  <2>1. \E r : {Caller} = {r}
    OBVIOUS
  <2> QED
    BY <1>1, <2>1, TP!Refinement
<1>3. ServicesSpec => TP!Spec
  <2>1. ServicesInit => TP!Init
    BY TireSteps DEF ServicesInit
  <2>2. [ServicesNext]_servicesVars => [One!Next]_(One!vars)
    BY DEF ServicesNext, servicesVars, Others, aloneVars, One!vars
  <2>3. [ServicesNext]_servicesVars => [TP!Next]_(TP!vars)
    BY <2>2, TireSteps
  <2> QED
    BY <2>1, <2>3, PTL DEF ServicesSpec, TP!Spec
<1>4. TP!ImplementsMountedSet => ImplementsMountedSet
  <2>1. TP!MS!Init => One!MS!Init
    BY TireReads DEF TP!MS!Init, One!MS!Init
  <2>2. [TP!MS!Next]_([v \in VehicleIds |-> TP!Mounted(v)])
          => [One!MS!Next]_([v \in VehicleIds |-> One!Mounted(v)])
    BY TireReads, TireReadsNext DEF TP!MS!Next, One!MS!Next, TP!MS!Mount, One!MS!Mount,
         TP!MS!Unmount,
       One!MS!Unmount
  <2> QED
    BY <2>1, <2>2, PTL DEF ImplementsMountedSet, One!ImplementsMountedSet,
         TP!ImplementsMountedSet,
       TP!MS!Spec, One!MS!Spec
<1> QED
  BY <1>2, <1>3, <1>4, PTL

=============================================================================
