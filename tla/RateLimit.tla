----------------------------- MODULE RateLimit -----------------------------
(***************************************************************************)
(* AuthRateLimitGuard: a map in memory from a key (route, address, e-mail) *)
(* to what was counted for it.  canActivate is synchronous, so a request   *)
(* is one step; entries are only removed by the sweep at the end of a      *)
(* request that was let through.  Time is counted in ticks.                *)
(***************************************************************************)
EXTENDS Integers

CONSTANTS
  Keys,       \* what buildKey returns
  Limit,      \* options.limit
  Window,     \* options.windowMs
  Block,      \* options.blockMs
  Retention,  \* 24 * LOGIN.windowMs
  MaxNow      \* how long the clock runs: a bound

(* As the three entries of SECURITY.AUTH_RATE_LIMITS have it. *)
ASSUME LimitsAssumption ==
  /\ Limit \in Nat \ {0} /\ Window \in Nat \ {0} /\ Block \in Nat /\ Retention \in Nat
  /\ MaxNow \in Nat
  /\ Window <= Retention
  /\ Window <= Block

VARIABLES
  attempts,  \* the map
  clock      \* Date.now()

vars == <<attempts, clock>>

NoEntry == [count |-> 0, started |-> -1, until |-> 0]  \* no such key in the map
Entry == [count : 1..(Limit + 1), started : 0..MaxNow, until : Nat]

TypeOK ==
  /\ clock \in 0..MaxNow
  /\ attempts \in [Keys -> Entry \cup {NoEntry}]

Blocked(e) == e.until > clock
InWindow(e) == e # NoEntry /\ clock - e.started < Window

Init == attempts = [k \in Keys |-> NoEntry] /\ clock = 0

(* The entry a request starts from: what is there, or a new window. *)
Current(k) ==
  IF InWindow(attempts[k]) THEN attempts[k]
  ELSE [count |-> 0, started |-> clock, until |-> 0]

Counted(k) == [Current(k) EXCEPT !.count = @ + 1]

SweptAlways(map) ==  \* mutant: sweeps entries whose block still lasts
  [k \in Keys |-> IF clock - map[k].started > Retention THEN NoEntry ELSE map[k]]

(* cleanupExpiredEntries *)
Swept(map) ==
  [k \in Keys |-> IF clock - map[k].started > Retention /\ ~Blocked(map[k])
                  THEN NoEntry ELSE map[k]]

Allow(k) ==
  /\ ~Blocked(attempts[k])
  /\ Counted(k).count <= Limit
  /\ attempts' = Swept([attempts EXCEPT ![k] = Counted(k)])
  /\ UNCHANGED clock

Refuse(k) ==
  /\ ~Blocked(attempts[k])
  /\ Counted(k).count > Limit
  /\ attempts' = [attempts EXCEPT ![k] = [Counted(k) EXCEPT !.until = clock + Block]]
  /\ UNCHANGED clock

RefuseBlocked(k) == Blocked(attempts[k]) /\ UNCHANGED vars

Tick == clock < MaxNow /\ clock' = clock + 1 /\ UNCHANGED attempts

Next == Tick \/ \E k \in Keys : Allow(k) \/ Refuse(k) \/ RefuseBlocked(k)

Spec == Init /\ [][Next]_vars

-----------------------------------------------------------------------------
(* The map, its sweep and its comparisons of instants keep the promise of  *)
(* RateWindow for every key: forgetting an entry never gives a key more    *)
(* than its quota, and a block never ends early or late.                   *)
Quota(e) ==
  IF Blocked(e) THEN [used |-> Limit + 1, left |-> e.until - clock]
  ELSE IF InWindow(e) THEN [used |-> e.count, left |-> e.started + Window - clock]
  ELSE [used |-> 0, left |-> 0]

Promise == INSTANCE RateWindow WITH quota <- [k \in Keys |-> Quota(attempts[k])]

ImplementsWindow == Promise!Spec

=============================================================================
