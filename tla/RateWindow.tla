----------------------------- MODULE RateWindow -----------------------------
(***************************************************************************)
(* What a rate limit promises for each key on its own: Limit requests in a *)
(* window that opens with the first of them, then nothing for as long as   *)
(* the block lasts, then a new window.  left is what remains of the window *)
(* or of the block; used is Limit + 1 in a block.                          *)
(***************************************************************************)
EXTENDS Integers

CONSTANTS Keys, Limit, Window, Block

VARIABLE quota

Idle == [used |-> 0, left |-> 0]

Init == quota = [k \in Keys |-> Idle]

Opens(k) == quota[k] = Idle /\ quota' = [quota EXCEPT ![k] = [used |-> 1, left |-> Window]]

Counts(k) ==
  /\ quota[k].used \in 1..(Limit - 1)
  /\ quota' = [quota EXCEPT ![k].used = @ + 1]

Blocks(k) ==
  /\ quota[k].used = Limit
  /\ quota' = [quota EXCEPT ![k] = [used |-> Limit + 1, left |-> Block]]

Passes ==
  quota' = [k \in Keys |-> IF quota[k].left <= 1 THEN Idle
                           ELSE [quota[k] EXCEPT !.left = @ - 1]]

Next == Passes \/ \E k \in Keys : Opens(k) \/ Counts(k) \/ Blocks(k)

Spec == Init /\ [][Next]_quota

=============================================================================
