-------------------------------- MODULE Pages --------------------------------
(***************************************************************************)
(* The two lists that are read page by page: the events of a vehicle       *)
(* (TimelineRepository.findMany) and the conversations of a user           *)
(* (findManyByUser), which is the same query without filters, of rows that *)
(* neither go nor move.  A client follows totalPages.  Each page is two    *)
(* statements; the transaction around them, at READ COMMITTED, does not    *)
(* keep others from committing in between.                                 *)
(***************************************************************************)
EXTENDS Integers, Sequences, FiniteSets, SequencesExt

CONSTANTS
  Ids,       \* ids of rows
  Dates,     \* values of eventDate
  Limits,    \* sizes of a page
  MaxClock,  \* highest createdAt: a bound
  Null       \* no value

(* What the module asks of its constants. *)
ConstantsAssumption ==
  /\ Dates \subseteq Nat \ {0} /\ Limits \subseteq Nat \ {0} /\ MaxClock \in Nat
  /\ IsFiniteSet(Ids) /\ Null \notin Ids

VARIABLES
  list,       \* which of the two lists this is about
  row,        \* the table; Null: no row, or a deleted one
  clock,      \* the latest createdAt
  pc,         \* the statement of the page that comes next
  query,      \* filter (dateFrom stands for the others), size and number of the page
  shown,      \* the ids the client was given, in order
  found,      \* the ids the list held when its first page was asked for: history
  disturbed   \* a row went or moved since: history

vars == <<list, row, clock, pc, query, shown, found, disturbed>>

Rows == [date : Dates \cup {0}, created : 0..MaxClock]
NoQuery == [from |-> 0, limit |-> 0, page |-> 0]

TypeOK ==
  /\ list \in {"timeline", "conversations"}
  /\ row \in [Ids -> Rows \cup {Null}] /\ clock \in 0..MaxClock
  /\ pc \in {"idle", "rows", "count", "done"}
  /\ DOMAIN query = DOMAIN NoQuery
  /\ ToSet(shown) \cup found \subseteq Ids
  /\ disturbed \in BOOLEAN

Init ==
  /\ list \in {"timeline", "conversations"}
  /\ row = [i \in Ids |-> Null] /\ clock = 0
  /\ pc = "idle" /\ query = NoQuery /\ shown = <<>> /\ found = {} /\ disturbed = FALSE

-----------------------------------------------------------------------------
(* Other requests, between any two statements.  A row that goes or moves   *)
(* while a client reads is the last change before it is done: a bound.     *)

(* A row is created, maybe within the millisecond of the one before; an    *)
(* event bears any date, a conversation none (0).                          *)
Add(i, date) ==
  /\ ~disturbed /\ row[i] = Null /\ i \notin found \cup ToSet(shown)
  /\ date = 0 <=> list = "conversations"
  /\ \E now \in {clock, clock + 1} \cap 0..MaxClock :
       /\ clock' = now
       /\ row' = [row EXCEPT ![i] = [date |-> date, created |-> now]]
  /\ UNCHANGED <<list, pc, query, shown, found, disturbed>>

Change(i, new) ==
  /\ list = "timeline" /\ ~disturbed /\ row[i] # Null /\ row[i] # new
  /\ row' = [row EXCEPT ![i] = new]
  /\ disturbed' = (pc # "idle")
  /\ UNCHANGED <<list, clock, pc, query, shown, found>>

(* update and softDelete *)
Move(i, date) == row[i] # Null /\ date # 0 /\ Change(i, [row[i] EXCEPT !.date = date])
Delete(i) == Change(i, Null)

-----------------------------------------------------------------------------
(* One page *)

(* where *)
Matching(q) == {i \in Ids : row[i] # Null /\ row[i].date >= q.from}

After(i, j) ==
  \/ row[i].date < row[j].date
  \/ row[i].date = row[j].date /\ row[i].created < row[j].created

(* orderBy: what agrees in both comes in either order. *)
Ordered(q) ==
  {s \in SetToSeqs(Matching(q)) : \A i \in 1..(Len(s) - 1) : ~After(s[i], s[i + 1])}

SkipOnePage(q) == q.page * q.limit  \* mutant: counts pages from 0

Skip(q) == (q.page - 1) * q.limit

Take(s, q) == SubSeq(s, Skip(q) + 1, IF Len(s) < Skip(q) + q.limit THEN Len(s)
                                     ELSE Skip(q) + q.limit)

TotalPages(q) == (Cardinality(Matching(q)) + q.limit - 1) \div q.limit

Open(from, limit) ==
  LET q == [from |-> from, limit |-> limit, page |-> 1] IN
  /\ pc = "idle"
  /\ list = "conversations" => from = 0
  /\ query' = q /\ found' = Matching(q)
  /\ pc' = "rows"
  /\ UNCHANGED <<list, row, clock, shown, disturbed>>

FindRows ==
  /\ pc = "rows"
  /\ \E s \in Ordered(query) : shown' = shown \o Take(s, query)
  /\ pc' = "count"
  /\ UNCHANGED <<list, row, clock, query, found, disturbed>>

(* The answer, upon which the client asks for the next page, if any. *)
Count ==
  /\ pc = "count"
  /\ IF query.page < TotalPages(query)
     THEN pc' = "rows" /\ query' = [query EXCEPT !.page = @ + 1]
     ELSE pc' = "done" /\ UNCHANGED query
  /\ UNCHANGED <<list, row, clock, shown, found, disturbed>>

Close ==
  /\ pc = "done"
  /\ pc' = "idle" /\ query' = NoQuery /\ shown' = <<>> /\ found' = {} /\ disturbed' = FALSE
  /\ UNCHANGED <<list, row, clock>>

Next ==
  \/ \E i \in Ids, date \in Dates \cup {0} : Add(i, date)
  \/ \E i \in Ids : Delete(i) \/ \E date \in Dates : Move(i, date)
  \/ \E from \in Dates \cup {0}, limit \in Limits : Open(from, limit)
  \/ FindRows \/ Count \/ Close

Spec == Init /\ [][Next]_vars

-----------------------------------------------------------------------------
(* Who reads a list to its last page has seen all that was in it when the  *)
(* first one was read, whatever is added in the meantime, and nothing      *)
(* twice if nothing is; unless a row goes or moves, or two agree in both   *)
(* sort keys, which nothing prevents: then one may stay unseen.            *)
NoneMissed ==
  LET now == Matching(query)
      distinct == \A i, j \in now : i # j => After(i, j) \/ After(j, i)
  IN pc = "done" /\ ~disturbed /\ distinct =>
       /\ found \subseteq ToSet(shown)
       /\ now = found => Len(shown) = Cardinality(found)

=============================================================================
