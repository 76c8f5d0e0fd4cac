--------------------------- MODULE Reports_proofs ----------------------------
(***************************************************************************)
(* What a report and the dashboard say, for any tables, changes and        *)
(* readers: parts "stats" and "dashboard" of module Services.              *)
(*                                                                         *)
(* Both add up costs over finite sets, so sums come first: that they do    *)
(* not depend on the order in which they are taken, and what groups and    *)
(* parts of a sum are worth.  Then each has an invariant: what its queries *)
(* returned is what the tables hold, as long as nothing has changed since  *)
(* the first of them, and each list it made follows from what was read.    *)
(***************************************************************************)
EXTENDS Services_proofs

-----------------------------------------------------------------------------
(* What picks an element of every part of S, and what folds with it. *)
Picks(c, S) == \A t \in SUBSET S : t # {} => c[t] \in t

Folds(it, c, base, h, S) ==
  \A t \in SUBSET S : it[t] = IF t = {} THEN base ELSE h[<<it[t \ {c[t]}], c[t]>>]

Follow(f, g, c, S) ==
  /\ f[{}] = g[{}]
  /\ \A t \in SUBSET S : t # {} /\ f[t \ {c[t]}] = g[t \ {c[t]}] => f[t] = g[t]

(* A fold over a finite set S picks c[t] from every part t that is left;   *)
(* there is a function that computes it, whatever step h takes.            *)
LEMMA FoldExists ==
  ASSUME NEW S, IsFiniteSet(S), NEW A, NEW base \in A,
         NEW c, Picks(c, S),
         NEW h \in [A \X S -> A]
  PROVE  \E it \in [SUBSET S -> A] : Folds(it, c, base, h, S)
<1> USE DEF Picks, Folds
<1> DEFINE Small(k) == {t \in SUBSET S : Cardinality(t) <= k}
           Solves(g, k) == \A t \in Small(k) :
                             g[t] = IF t = {} THEN base ELSE h[<<g[t \ {c[t]}], c[t]>>]
           Bad == {k \in Nat : ~(\E g \in [Small(k) -> A] : Solves(g, k))}
<1>1. ASSUME NEW t \in SUBSET S
      PROVE  /\ IsFiniteSet(t) /\ Cardinality(t) \in Nat
             /\ Cardinality(t) = 0 <=> t = {}
  BY FS_Subset, FS_CardinalityType, FS_EmptySet
<1>2. ASSUME NEW t \in SUBSET S, t # {}
      PROVE  /\ c[t] \in t /\ c[t] \in S /\ t \ {c[t]} \in SUBSET S
             /\ Cardinality(t \ {c[t]}) = Cardinality(t) - 1
  <2>1. c[t] \in t
    BY <1>2
  <2> QED
    BY <2>1, <1>1, FS_RemoveElement
<1>3. 0 \notin Bad
  <2> DEFINE g == [t \in Small(0) |-> base]
  <2>1. \A t \in Small(0) : t = {}
    BY <1>1
  <2>2. g \in [Small(0) -> A] /\ Solves(g, 0)
    BY <2>1
  <2> QED
    BY <2>2
<1>4. ASSUME NEW k \in Nat, k \notin Bad
      PROVE  k + 1 \notin Bad
  <2>1. PICK g \in [Small(k) -> A] : Solves(g, k)
    BY <1>4
  <2> DEFINE f == [t \in Small(k + 1) |->
                     IF t = {} THEN base ELSE h[<<g[t \ {c[t]}], c[t]>>]]
  <2>2. ASSUME NEW t \in Small(k + 1), t # {}
        PROVE  /\ t \ {c[t]} \in Small(k) /\ t \ {c[t]} \in Small(k + 1)
               /\ f[t \ {c[t]}] = g[t \ {c[t]}]
    <3>1. t \ {c[t]} \in SUBSET S /\ Cardinality(t) \in Nat
          /\ Cardinality(t \ {c[t]}) = Cardinality(t) - 1
      BY <2>2, <1>1, <1>2
    <3>2. t \ {c[t]} \in Small(k) /\ t \ {c[t]} \in Small(k + 1)
      BY <3>1
    <3> DEFINE u == t \ {c[t]}
    <3>3. g[u] = IF u = {} THEN base ELSE h[<<g[u \ {c[u]}], c[u]>>]
      BY <2>1, <3>2
    <3>4. f[u] = IF u = {} THEN base ELSE h[<<g[u \ {c[u]}], c[u]>>]
      BY <3>2
    <3> QED
      BY <3>2, <3>3, <3>4
  <2>3. ASSUME NEW t \in Small(k + 1)
        PROVE  f[t] \in A
    <3>1. CASE t = {}
      BY <3>1
    <3>2. CASE t # {}
      <4>1. t \ {c[t]} \in Small(k) /\ c[t] \in S
        BY <3>2, <2>2, <1>2
      <4>2. f[t] = h[<<g[t \ {c[t]}], c[t]>>]
        BY <3>2, <2>3
      <4> QED
        BY <4>1, <4>2
    <3> QED
      BY <3>1, <3>2
  <2>4. f \in [Small(k + 1) -> A]
    BY <2>3
  <2>5. Solves(f, k + 1)
    BY <2>2
  <2> QED
    BY <2>4, <2>5
<1>5. Bad = {}
  <2>1. SUFFICES ASSUME Bad # {} PROVE FALSE
    OBVIOUS
  <2>2. PICK n \in Bad : \A m \in Bad : n <= m
    BY <2>1, LeastNatural
  <2>3. n \in Nat /\ n # 0
    BY <1>3
  <2>4. n - 1 \in Nat /\ n - 1 \notin Bad
    <3> HIDE DEF Bad
    <3> QED
      BY <2>2, <2>3
  <2> HIDE DEF Bad
  <2>5. (n - 1) + 1 \notin Bad
    BY <2>4, <1>4
  <2> QED
    BY <2>3, <2>5
<1>6. Cardinality(S) \in Nat
  BY FS_CardinalityType
<1>7. PICK g \in [Small(Cardinality(S)) -> A] : Solves(g, Cardinality(S))
  BY <1>5, <1>6
<1>8. Small(Cardinality(S)) = SUBSET S
  BY FS_Subset
<1> QED
  BY <1>7, <1>8

(* Two functions that agree on a part of S whenever they agree on what is  *)
(* left of it are the same.                                                *)
LEMMA FoldUnique ==
  ASSUME NEW S, IsFiniteSet(S), NEW c, Picks(c, S),
         NEW f, NEW g, Follow(f, g, c, S)
  PROVE  \A t \in SUBSET S : f[t] = g[t]
<1> USE DEF Picks, Follow
<1> DEFINE Bad == {n \in Nat : \E t \in SUBSET S : Cardinality(t) = n /\ f[t] # g[t]}
<1>1. SUFFICES ASSUME NEW w \in SUBSET S, f[w] # g[w] PROVE FALSE
  OBVIOUS
<1>2. Cardinality(w) \in Bad
  BY <1>1, FS_Subset, FS_CardinalityType
<1>3. PICK n \in Bad : \A m \in Bad : n <= m
  BY <1>2, LeastNatural
<1>4. PICK t \in SUBSET S : Cardinality(t) = n /\ f[t] # g[t]
  OBVIOUS
<1>5. t # {} /\ c[t] \in t /\ t \ {c[t]} \in SUBSET S
  BY <1>4
<1>6. IsFiniteSet(t) /\ n \in Nat
  BY FS_Subset
<1>7. Cardinality(t \ {c[t]}) = n - 1
  BY <1>4, <1>5, <1>6, FS_RemoveElement
<1>8. n # 0
  BY <1>4, <1>5, <1>6, FS_EmptySet
<1>9. n - 1 \notin Bad
  BY <1>3, <1>6
<1>10. f[t \ {c[t]}] = g[t \ {c[t]}]
  BY <1>5, <1>6, <1>7, <1>8, <1>9
<1> QED
  BY <1>4, <1>5, <1>10

(* Sums over finite sets.  Sigma(w, S) adds w[x] over S in the order of    *)
(* CHOOSE, as the sums of the reports do; that the order does not matter   *)
(* is SumOfAny.                                                            *)
WholeOn(w, S) == \A x \in S : w[x] \in Int

Alike(w, v, S) == \A x \in S : w[x] = v[x]

Agree(f, g, S) == \A t \in SUBSET S : f[t] = g[t]

AddsUp(it, w, S) ==
  it = [t \in SUBSET S |-> IF t = {} THEN 0
                           ELSE LET x == CHOOSE x \in t : TRUE IN w[x] + it[t \ {x}]]

Sigma(w, S) == (CHOOSE it : AddsUp(it, w, S))[S]

WholeSums(S) == [SUBSET S -> Int]

LEMMA SumExists ==
  ASSUME NEW S, IsFiniteSet(S), NEW w, WholeOn(w, S)
  PROVE  \E it \in WholeSums(S) : AddsUp(it, w, S)
<1> DEFINE c == [t \in SUBSET S |-> CHOOSE x \in t : TRUE]
           h == [p \in Int \X S |-> w[p[2]] + p[1]]
<1>1. Picks(c, S)
  BY DEF Picks
<1>2. \A t \in SUBSET S : c[t] = CHOOSE x \in t : TRUE
  OBVIOUS
<1>3. h \in [Int \X S -> Int]
  BY DEF WholeOn
<1>4. \A a \in Int, x \in S : h[<<a, x>>] = w[x] + a
  OBVIOUS
<1> HIDE DEF c, h
<1>5. PICK it : it \in [SUBSET S -> Int] /\ Folds(it, c, 0, h, S)
  <2>1. 0 \in Int
    OBVIOUS
  <2> QED
    BY <1>1, <1>3, <2>1, FoldExists
<1>6. ASSUME NEW t \in SUBSET S
      PROVE  it[t] = IF t = {} THEN 0 ELSE LET x == CHOOSE x \in t : TRUE IN w[x] + it[t \ {x}]
  <2>1. it[t] = IF t = {} THEN 0 ELSE h[<<it[t \ {c[t]}], c[t]>>]
    BY <1>5 DEF Folds
  <2>2. ASSUME t # {}
        PROVE  c[t] \in S /\ it[t \ {c[t]}] \in Int
    BY <2>2, <1>1, <1>5 DEF Picks
  <2> QED
    BY <2>1, <2>2, <1>2, <1>4
<1>7. AddsUp(it, w, S)
  BY <1>5, <1>6 DEF AddsUp
<1> QED
  BY <1>5, <1>7 DEF WholeSums

LEMMA SumsAgree ==
  ASSUME NEW S, NEW T \in SUBSET S, IsFiniteSet(S), NEW w, NEW v, Alike(w, v, T),
         NEW f, NEW g, AddsUp(f, w, S), AddsUp(g, v, T)
  PROVE  Agree(f, g, T)
<1> DEFINE c == [t \in SUBSET T |-> CHOOSE x \in t : TRUE]
<1>1. Picks(c, T)
  BY DEF Picks
<1>2. \A t \in SUBSET T : c[t] = CHOOSE x \in t : TRUE
  OBVIOUS
<1> HIDE DEF c
<1>3. IsFiniteSet(T)
  BY FS_Subset
<1>4. \A t \in SUBSET T : f[t] = IF t = {} THEN 0 ELSE w[c[t]] + f[t \ {c[t]}]
  BY <1>2 DEF AddsUp
<1>5. \A t \in SUBSET T : g[t] = IF t = {} THEN 0 ELSE v[c[t]] + g[t \ {c[t]}]
  BY <1>2 DEF AddsUp
<1>6. Follow(f, g, c, T)
  <2>1. f[{}] = g[{}]
    BY <1>4, <1>5
  <2>2. ASSUME NEW t \in SUBSET T, t # {}, f[t \ {c[t]}] = g[t \ {c[t]}]
        PROVE  f[t] = g[t]
    <3>1. c[t] \in T
      BY <2>2, <1>1 DEF Picks
    <3>2. f[t] = w[c[t]] + f[t \ {c[t]}] /\ g[t] = v[c[t]] + g[t \ {c[t]}]
      BY <2>2, <1>4, <1>5
    <3>3. w[c[t]] = v[c[t]]
      BY <3>1 DEF Alike
    <3> QED
      BY <2>2, <3>2, <3>3
  <2> QED
    BY <2>1, <2>2 DEF Follow
<1> QED
  BY <1>1, <1>3, <1>6, FoldUnique DEF Agree

LEMMA SumSolves ==
  ASSUME NEW S, IsFiniteSet(S), NEW w, WholeOn(w, S)
  PROVE  \E it : AddsUp(it, w, S) /\ it \in WholeSums(S) /\ Sigma(w, S) = it[S]
<1>1. PICK g : g \in WholeSums(S) /\ AddsUp(g, w, S)
  BY SumExists
<1> DEFINE f == CHOOSE it : AddsUp(it, w, S)
<1>2. AddsUp(f, w, S)
  BY <1>1
<1> HIDE DEF f
<1>3. Agree(f, g, S)
  <2>1. Alike(w, w, S) /\ S \in SUBSET S
    BY DEF Alike
  <2> QED
    BY <1>1, <1>2, <2>1, SumsAgree
<1>4. Sigma(w, S) = f[S]
  BY DEF Sigma, f
<1> QED
  BY <1>1, <1>3, <1>4 DEF Agree

LEMMA SumOfSome ==
  ASSUME NEW S, IsFiniteSet(S), NEW w, WholeOn(w, S)
  PROVE  /\ Sigma(w, S) \in Int
         /\ S = {} => Sigma(w, S) = 0
         /\ S # {} => \E x \in S : Sigma(w, S) = w[x] + Sigma(w, S \ {x})
<1>1. PICK it : AddsUp(it, w, S) /\ it \in WholeSums(S) /\ Sigma(w, S) = it[S]
  BY SumSolves
<1>2. it[S] \in Int
  BY <1>1 DEF WholeSums
<1>3. it[S] = IF S = {} THEN 0 ELSE LET x == CHOOSE x \in S : TRUE IN w[x] + it[S \ {x}]
  BY <1>1 DEF AddsUp
<1>4. ASSUME S # {} PROVE \E x \in S : Sigma(w, S) = w[x] + Sigma(w, S \ {x})
  <2> DEFINE x == CHOOSE x \in S : TRUE
             T == S \ {x}
  <2>1. x \in S /\ it[S] = w[x] + it[T]
    BY <1>3, <1>4
  <2>2. T \in SUBSET S /\ IsFiniteSet(T) /\ WholeOn(w, T)
    BY FS_Subset DEF WholeOn
  <2> HIDE DEF T
  <2>3. PICK g : AddsUp(g, w, T) /\ Sigma(w, T) = g[T]
    BY <2>2, SumSolves
  <2>4. Agree(it, g, T)
    <3>1. Alike(w, w, T)
      BY DEF Alike
    <3> QED
      BY <1>1, <2>2, <2>3, <3>1, SumsAgree
  <2>5. it[T] = Sigma(w, T)
    BY <2>3, <2>4 DEF Agree
  <2> QED
    BY <1>1, <2>1, <2>5 DEF T
<1> QED
  BY <1>1, <1>2, <1>3, <1>4

(* The sum depends on the weights in the set alone. *)
LEMMA SumSame ==
  ASSUME NEW S, IsFiniteSet(S), NEW w, NEW v, WholeOn(w, S), Alike(w, v, S)
  PROVE  Sigma(w, S) = Sigma(v, S)
<1>1. WholeOn(v, S) /\ S \in SUBSET S
  BY DEF WholeOn, Alike
<1>2. PICK f : AddsUp(f, w, S) /\ Sigma(w, S) = f[S]
  BY SumSolves
<1>3. PICK g : AddsUp(g, v, S) /\ Sigma(v, S) = g[S]
  BY <1>1, SumSolves
<1>4. Agree(f, g, S)
  BY <1>1, <1>2, <1>3, SumsAgree
<1> QED
  BY <1>2, <1>3, <1>4 DEF Agree

(* Any element may be the one that is added last. *)
LEMMA SumOfAny ==
  ASSUME NEW S, IsFiniteSet(S), NEW w, WholeOn(w, S), NEW x \in S
  PROVE  Sigma(w, S) = w[x] + Sigma(w, S \ {x})
<1> DEFINE Bad == {n \in Nat : \E t \in SUBSET S : /\ Cardinality(t) = n
                                 /\ \E y \in t : Sigma(w, t) # w[y] + Sigma(w, t \ {y})}
<1>1. SUFFICES ASSUME Sigma(w, S) # w[x] + Sigma(w, S \ {x}) PROVE FALSE
  OBVIOUS
<1>2. ASSUME NEW t \in SUBSET S
      PROVE  IsFiniteSet(t) /\ WholeOn(w, t) /\ Cardinality(t) \in Nat
  BY FS_Subset, FS_CardinalityType DEF WholeOn
<1>3. Cardinality(S) \in Bad
  BY <1>1, <1>2
<1>13. Bad \in SUBSET Nat /\ Bad # {}
  BY <1>3
<1>4. PICK n \in Bad : \A m \in Bad : n <= m
  <2> HIDE DEF Bad
  <2> QED
    BY <1>13, LeastNatural
<1>5. PICK t \in SUBSET S :
        Cardinality(t) = n /\ \E y \in t : Sigma(w, t) # w[y] + Sigma(w, t \ {y})
  OBVIOUS
<1>14. PICK y \in t : Sigma(w, t) # w[y] + Sigma(w, t \ {y})
  BY <1>5
<1>6. PICK z \in t : Sigma(w, t) = w[z] + Sigma(w, t \ {z})
  <2>1. t # {}
    BY <1>5
  <2> QED
    BY <1>2, <2>1, SumOfSome
<1>7. y # z
  BY <1>14, <1>6
<1>8. ASSUME NEW a \in t, NEW b \in t, a # b
      PROVE  Sigma(w, t \ {a}) = w[b] + Sigma(w, (t \ {a}) \ {b})
  <2>1. t \ {a} \in SUBSET S /\ b \in t \ {a}
    BY <1>8
  <2>2. Cardinality(t \ {a}) = n - 1 /\ n - 1 \in Nat
    <3>1. IsFiniteSet(t) /\ IsFiniteSet(t \ {a})
      BY <1>2, <2>1
    <3>2. Cardinality(t \ {a}) = n - 1
      BY <3>1, <1>5, FS_RemoveElement
    <3> QED
      BY <3>1, <3>2, FS_CardinalityType
  <2>3. n - 1 \notin Bad
    <3> HIDE DEF Bad
    <3>1. n \in Nat /\ ~(n <= n - 1)
      BY <1>2, <1>5
    <3> QED
      BY <3>1, <1>4
  <2> QED
    BY <2>1, <2>2, <2>3
<1>9. (t \ {y}) \ {z} = (t \ {z}) \ {y}
  OBVIOUS
<1>10. Sigma(w, t \ {y}) = w[z] + Sigma(w, (t \ {y}) \ {z})
  BY <1>7, <1>8
<1>11. Sigma(w, t \ {z}) = w[y] + Sigma(w, (t \ {y}) \ {z})
  BY <1>7, <1>8, <1>9
<1>12. w[y] \in Int /\ w[z] \in Int /\ Sigma(w, (t \ {y}) \ {z}) \in Int
  <2>1. (t \ {y}) \ {z} \in SUBSET S
    OBVIOUS
  <2>2. Sigma(w, (t \ {y}) \ {z}) \in Int
    BY <2>1, <1>2, SumOfSome
  <2> QED
    BY <2>2, <1>2 DEF WholeOn
<1> QED
  BY <1>14, <1>6, <1>10, <1>11, <1>12

(* A set of parts that holds {} and with each part all that have one more. *)
Grows(I, S) ==
  {} \in I /\ \A t \in SUBSET S, x \in S : t \in I /\ x \notin t => t \cup {x} \in I

LEMMA PartsGrow ==
  ASSUME NEW S, IsFiniteSet(S), NEW I, Grows(I, S)
  PROVE  \A t \in SUBSET S : t \in I
<1> DEFINE Bad == {n \in Nat : \E t \in SUBSET S : Cardinality(t) = n /\ t \notin I}
<1>1. SUFFICES ASSUME NEW u \in SUBSET S, u \notin I PROVE FALSE
  OBVIOUS
<1>2. ASSUME NEW t \in SUBSET S
      PROVE  IsFiniteSet(t) /\ Cardinality(t) \in Nat
  BY FS_Subset, FS_CardinalityType
<1>3. Bad \in SUBSET Nat /\ Bad # {}
  BY <1>1, <1>2
<1>4. PICK n \in Bad : \A m \in Bad : n <= m
  <2> HIDE DEF Bad
  <2> QED
    BY <1>3, LeastNatural
<1>5. PICK t \in SUBSET S : Cardinality(t) = n /\ t \notin I
  OBVIOUS
<1>6. PICK x \in t : x \in S
  BY <1>5 DEF Grows
<1>7. t \ {x} \in SUBSET S /\ t = (t \ {x}) \cup {x} /\ x \notin t \ {x}
  BY <1>6
<1>8. Cardinality(t \ {x}) = n - 1 /\ n - 1 \in Nat
  <2>1. IsFiniteSet(t) /\ IsFiniteSet(t \ {x})
    BY <1>2, <1>7
  <2>2. Cardinality(t \ {x}) = n - 1
    BY <2>1, <1>5, <1>6, FS_RemoveElement
  <2> QED
    BY <2>1, <2>2, FS_CardinalityType
<1>9. n - 1 \notin Bad
  <2> HIDE DEF Bad
  <2>1. n \in Nat /\ ~(n <= n - 1)
    BY <1>2, <1>5
  <2> QED
    BY <2>1, <1>4
<1>10. t \ {x} \in I
  BY <1>7, <1>8, <1>9
<1> QED
  BY <1>5, <1>6, <1>7, <1>10 DEF Grows

LEMMA SumMore ==
  ASSUME NEW S, IsFiniteSet(S), NEW w, WholeOn(w, S), NEW t \in SUBSET S, NEW x \in S, x \notin t
  PROVE  Sigma(w, t \cup {x}) = w[x] + Sigma(w, t)
<1>1. t \cup {x} \in SUBSET S /\ (t \cup {x}) \ {x} = t
  OBVIOUS
<1>2. IsFiniteSet(t \cup {x}) /\ WholeOn(w, t \cup {x})
  BY <1>1, FS_Subset DEF WholeOn
<1> DEFINE u == t \cup {x}
<1>3. Sigma(w, u) = w[x] + Sigma(w, u \ {x})
  BY <1>2, SumOfAny
<1> QED
  BY <1>1, <1>3

LEMMA SumType ==
  ASSUME NEW S, IsFiniteSet(S), NEW w, WholeOn(w, S), NEW t \in SUBSET S
  PROVE  Sigma(w, t) \in Int
<1>1. IsFiniteSet(t) /\ WholeOn(w, t)
  BY FS_Subset DEF WholeOn
<1> QED
  BY <1>1, SumOfSome

LEMMA SumNone == ASSUME NEW w PROVE Sigma(w, {}) = 0
<1>1. IsFiniteSet({}) /\ WholeOn(w, {})
  BY FS_EmptySet DEF WholeOn
<1> QED
  BY <1>1, SumOfSome

LEMMA SumSplit ==
  ASSUME NEW S, IsFiniteSet(S), NEW w, WholeOn(w, S), NEW A \in SUBSET S, NEW B \in SUBSET S,
         A \cap B = {}
  PROVE  Sigma(w, A \cup B) = Sigma(w, A) + Sigma(w, B)
<1> DEFINE I == {t \in SUBSET B : Sigma(w, A \cup t) = Sigma(w, A) + Sigma(w, t)}
<1>1. Sigma(w, A) \in Int
  BY SumType
<1>2. {} \in I
  <2>1. A \cup {} = A
    OBVIOUS
  <2> QED
    BY <2>1, <1>1, SumNone
<1>3. ASSUME NEW t \in SUBSET B, NEW x \in B, t \in I, x \notin t
      PROVE  t \cup {x} \in I
  <2>1. x \in S /\ x \notin A /\ t \in SUBSET S /\ A \cup t \in SUBSET S /\ x \notin A \cup t
    BY <1>3
  <2>2. A \cup (t \cup {x}) = (A \cup t) \cup {x}
    OBVIOUS
  <2>3. Sigma(w, (A \cup t) \cup {x}) = w[x] + Sigma(w, A \cup t)
    BY <2>1, SumMore
  <2>4. Sigma(w, t \cup {x}) = w[x] + Sigma(w, t)
    BY <2>1, <1>3, SumMore
  <2>5. Sigma(w, t) \in Int /\ w[x] \in Int
    BY <2>1, SumType DEF WholeOn
  <2>6. Sigma(w, A \cup t) = Sigma(w, A) + Sigma(w, t)
    BY <1>3
  <2>7. Sigma(w, A \cup (t \cup {x})) = Sigma(w, A) + Sigma(w, t \cup {x})
    <3>1. \A a, b, c \in Int : c + (a + b) = a + (c + b)
      OBVIOUS
    <3>2. w[x] + (Sigma(w, A) + Sigma(w, t)) = Sigma(w, A) + (w[x] + Sigma(w, t))
      BY <2>5, <1>1, <3>1
    <3> QED
      BY <2>2, <2>3, <2>4, <2>6, <3>2
  <2>8. t \cup {x} \in SUBSET B
    BY <1>3
  <2> QED
    BY <2>7, <2>8
<1>4. Grows(I, B) /\ IsFiniteSet(B)
  BY <1>2, <1>3, FS_Subset DEF Grows
<1>5. B \in SUBSET B
  OBVIOUS
<1>6. B \in I
  <2> HIDE DEF I
  <2> QED
    BY <1>4, <1>5, PartsGrow
<1> QED
  BY <1>6

LEMMA SumOfPart ==
  ASSUME NEW S, IsFiniteSet(S), NEW w, WholeOn(w, S), NEW A \in SUBSET S, NEW B \in SUBSET A
  PROVE  Sigma(w, A) = Sigma(w, B) + Sigma(w, A \ B)
<1>1. /\ B \in SUBSET S /\ A \ B \in SUBSET S /\ B \cap (A \ B) = {} /\ B \cup (A \ B) = A
  OBVIOUS
<1> DEFINE C == A \ B
<1> HIDE DEF C
<1>2. Sigma(w, B \cup C) = Sigma(w, B) + Sigma(w, C)
  BY <1>1, SumSplit DEF C
<1> QED
  BY <1>1, <1>2 DEF C

(* What weighs nothing adds nothing. *)
LEMMA SumOfNothing ==
  ASSUME NEW S, IsFiniteSet(S), NEW w, WholeOn(w, S), NEW A \in SUBSET S, \A x \in A : w[x] = 0
  PROVE  Sigma(w, A) = 0
<1> DEFINE I == {t \in SUBSET A : Sigma(w, t) = 0}
<1>1. {} \in I
  BY SumNone
<1>2. ASSUME NEW t \in SUBSET A, NEW x \in A, t \in I, x \notin t
      PROVE  t \cup {x} \in I
  <2>1. t \in SUBSET S /\ x \in S
    BY <1>2
  <2>2. Sigma(w, t \cup {x}) = w[x] + Sigma(w, t)
    BY <2>1, <1>2, SumMore
  <2> QED
    BY <2>2, <1>2
<1>3. Grows(I, A) /\ IsFiniteSet(A)
  BY <1>1, <1>2, FS_Subset DEF Grows
<1>4. A \in I
  <2> HIDE DEF I
  <2>1. A \in SUBSET A
    OBVIOUS
  <2> QED
    BY <2>1, <1>3, PartsGrow
<1> QED
  BY <1>4

(* A sum lies between what it had with the least and the largest weight    *)
(* everywhere.                                                             *)
LEMMA SumBounds ==
  ASSUME NEW S, IsFiniteSet(S), NEW w, WholeOn(w, S), NEW least \in Int, NEW most \in Int,
         \A x \in S : least <= w[x] /\ w[x] <= most
  PROVE  Cardinality(S) * least <= Sigma(w, S) /\ Sigma(w, S) <= Cardinality(S) * most
<1> DEFINE I == {t \in SUBSET S : /\ Cardinality(t) * least <= Sigma(w, t)
                                  /\ Sigma(w, t) <= Cardinality(t) * most}
<1>1. {} \in I
  BY SumNone, FS_EmptySet
<1>2. ASSUME NEW t \in SUBSET S, NEW x \in S, t \in I, x \notin t
      PROVE  t \cup {x} \in I
  <2>1. Sigma(w, t \cup {x}) = w[x] + Sigma(w, t)
    BY <1>2, SumMore
  <2>2. IsFiniteSet(t)
    BY FS_Subset
  <2>3. Cardinality(t \cup {x}) = Cardinality(t) + 1 /\ Cardinality(t) \in Nat
    BY <2>2, <1>2, FS_AddElement, FS_CardinalityType
  <2>4. Sigma(w, t) \in Int /\ w[x] \in Int /\ least <= w[x] /\ w[x] <= most
    BY SumType DEF WholeOn
  <2>5. \A n \in Nat, m \in Int : (n + 1) * m = n * m + m /\ n * m \in Int
    OBVIOUS
  <2>6. \A a, b, c, d \in Int : a <= b /\ c <= d => a + c <= d + b
    OBVIOUS
  <2> DEFINE n == Cardinality(t)
  <2>7. /\ n * least \in Int /\ n * most \in Int
        /\ (n + 1) * least = n * least + least /\ (n + 1) * most = n * most + most
    BY <2>3, <2>5
  <2>8. n * least <= Sigma(w, t) /\ Sigma(w, t) <= n * most
    BY <1>2
  <2> HIDE DEF n
  <2>9. (n + 1) * least <= w[x] + Sigma(w, t)
    BY <2>4, <2>6, <2>7, <2>8
  <2>10. Sigma(w, t) + w[x] <= most + n * most
    BY <2>4, <2>6, <2>7, <2>8
  <2>11. w[x] + Sigma(w, t) <= (n + 1) * most
    BY <2>4, <2>7, <2>10
  <2> QED
    BY <2>1, <2>3, <2>9, <2>11 DEF n
<1>3. Grows(I, S)
  BY <1>1, <1>2 DEF Grows
<1>4. S \in I
  <2> HIDE DEF I
  <2>1. S \in SUBSET S
    OBVIOUS
  <2> QED
    BY <2>1, <1>3, PartsGrow
<1> QED
  BY <1>4

(* Where nothing weighs less than 0, a part weighs no more than the whole. *)
LEMMA SumOfLess ==
  ASSUME NEW S, IsFiniteSet(S), NEW w, WholeOn(w, S), NEW A \in SUBSET S, NEW B \in SUBSET A,
         \A x \in A : w[x] >= 0
  PROVE  Sigma(w, B) <= Sigma(w, A)
<1> DEFINE I == {t \in SUBSET (A \ B) : Sigma(w, t) >= 0}
<1>1. {} \in I
  BY SumNone
<1>2. ASSUME NEW t \in SUBSET (A \ B), NEW x \in A \ B, t \in I, x \notin t
      PROVE  t \cup {x} \in I
  <2>1. t \in SUBSET S /\ x \in S /\ x \in A
    BY <1>2
  <2>2. Sigma(w, t \cup {x}) = w[x] + Sigma(w, t)
    BY <2>1, <1>2, SumMore
  <2>3. w[x] \in Int /\ Sigma(w, t) \in Int
    BY <2>1, SumType DEF WholeOn
  <2>4. w[x] >= 0 /\ Sigma(w, t) >= 0
    BY <2>1, <1>2
  <2> QED
    BY <2>2, <2>3, <2>4
<1>3. Grows(I, A \ B) /\ IsFiniteSet(A \ B)
  BY <1>1, <1>2, FS_Subset DEF Grows
<1>4. A \ B \in I
  <2> HIDE DEF I
  <2> QED
    BY <1>3, PartsGrow
<1>5. Sigma(w, A) = Sigma(w, B) + Sigma(w, A \ B)
  BY SumOfPart
<1>6. Sigma(w, B) \in Int /\ Sigma(w, A \ B) \in Int
  <2>1. B \in SUBSET S /\ A \ B \in SUBSET S
    OBVIOUS
  <2> QED
    BY <2>1, SumType
<1> QED
  BY <1>4, <1>5, <1>6

LEMMA ImageFinite ==
  ASSUME NEW S, IsFiniteSet(S), NEW f
  PROVE  IsFiniteSet({f[x] : x \in S})
<1> DEFINE I == {t \in SUBSET S : IsFiniteSet({f[x] : x \in t})}
<1>1. {} \in I
  BY FS_EmptySet
<1>2. ASSUME NEW t \in SUBSET S, NEW x \in S, t \in I, x \notin t
      PROVE  t \cup {x} \in I
  <2>1. {f[y] : y \in t \cup {x}} = {f[y] : y \in t} \cup {f[x]}
    OBVIOUS
  <2>2. IsFiniteSet({f[y] : y \in t} \cup {f[x]})
    BY <1>2, FS_AddElement
  <2> QED
    BY <2>1, <2>2
<1>3. Grows(I, S)
  BY <1>1, <1>2 DEF Grows
<1>4. S \in I
  <2> HIDE DEF I
  <2>1. S \in SUBSET S
    OBVIOUS
  <2> QED
    BY <2>1, <1>3, PartsGrow
<1> QED
  BY <1>4

(* What is summed up by a key adds up to the whole. *)
Fibre(k, E, v) == {e \in E : k[e] = v}

LEMMA SumOfFibres ==
  ASSUME NEW E, IsFiniteSet(E), NEW w, WholeOn(w, E),
         NEW V, IsFiniteSet(V), NEW k, \A e \in E : k[e] \in V,
         NEW u, \A v \in V : u[v] = Sigma(w, Fibre(k, E, v))
  PROVE  WholeOn(u, V) /\ Sigma(u, V) = Sigma(w, E)
<1>1. WholeOn(u, V)
  <2>1. \A v \in V : Fibre(k, E, v) \in SUBSET E
    BY DEF Fibre
  <2> QED
    BY <2>1, SumType DEF WholeOn
<1> DEFINE Held(t) == {e \in E : k[e] \in t}
           I == {t \in SUBSET V : Sigma(u, t) = Sigma(w, Held(t))}
<1>2. {} \in I
  <2>1. Held({}) = {}
    OBVIOUS
  <2> QED
    BY <2>1, SumNone
<1>3. ASSUME NEW t \in SUBSET V, NEW v \in V, t \in I, v \notin t
      PROVE  t \cup {v} \in I
  <2>1. /\ Held(t \cup {v}) = Held(t) \cup Fibre(k, E, v) /\ Held(t) \cap Fibre(k, E, v) = {}
        /\ Held(t) \in SUBSET E /\ Fibre(k, E, v) \in SUBSET E
    BY <1>3 DEF Fibre
  <2>2. Sigma(u, t \cup {v}) = u[v] + Sigma(u, t)
    BY <1>1, <1>3, SumMore
  <2> DEFINE A == Held(t)
             B == Fibre(k, E, v)
  <2>3. Sigma(w, A \cup B) = Sigma(w, A) + Sigma(w, B)
    <3> HIDE DEF A, B
    <3>1. A \in SUBSET E /\ B \in SUBSET E /\ A \cap B = {}
      BY <2>1 DEF A, B
    <3> QED
      BY <3>1, SumSplit
  <2>4. Sigma(w, A) \in Int /\ Sigma(w, B) \in Int
    BY <2>1, SumType
  <2>5. Sigma(u, t) = Sigma(w, A) /\ u[v] = Sigma(w, B)
    BY <1>3
  <2>6. Sigma(u, t \cup {v}) = Sigma(w, A \cup B)
    <3> HIDE DEF A, B
    <3>1. \A a, b \in Int : a + b = b + a
      OBVIOUS
    <3>2. Sigma(w, A) + Sigma(w, B) = Sigma(w, B) + Sigma(w, A)
      BY <2>4, <3>1
    <3> QED
      BY <2>2, <2>3, <2>5, <3>2
  <2>7. t \cup {v} \in SUBSET V
    BY <1>3
  <2> QED
    BY <2>1, <2>6, <2>7
<1>4. Grows(I, V)
  BY <1>2, <1>3 DEF Grows
<1>5. V \in I
  <2> HIDE DEF I
  <2>1. V \in SUBSET V
    OBVIOUS
  <2> QED
    BY <2>1, <1>4, PartsGrow
<1>6. Held(V) = E
  OBVIOUS
<1> QED
  BY <1>1, <1>5, <1>6

(* Rows grouped by a key: pairs of the key and the sum of its rows *)
Groups(w, E, k) == {<<x, Sigma(w, Fibre(k, E, x))>> : x \in {k[e] : e \in E}}

Second(G) == [p \in G |-> p[2]]

LEMMA GroupSums ==
  ASSUME NEW E, IsFiniteSet(E), NEW w, WholeOn(w, E), NEW k
  PROVE  LET G == Groups(w, E, k)
         IN  IsFiniteSet(G) /\ WholeOn(Second(G), G) /\ Sigma(Second(G), G) = Sigma(w, E)
<1> DEFINE G == Groups(w, E, k)
           f == [e \in E |-> <<k[e], Sigma(w, Fibre(k, E, k[e]))>>]
<1>1. G = {f[e] : e \in E}
  BY DEF Groups
<1>2. IsFiniteSet(G)
  <2> HIDE DEF f, G
  <2> QED
    BY <1>1, ImageFinite
<1>3. ASSUME NEW p \in G PROVE Fibre(f, E, p) = Fibre(k, E, p[1]) /\ p[2] = Sigma(w, Fibre(k, E, p[1]))
  <2>1. PICK x \in {k[e] : e \in E} : p = <<x, Sigma(w, Fibre(k, E, x))>>
    BY DEF Groups
  <2>2. \A e \in E : f[e] = p <=> k[e] = x
    BY <2>1
  <2> QED
    BY <2>1, <2>2 DEF Fibre
<1>4. \A p \in G : Second(G)[p] = Sigma(w, Fibre(f, E, p))
  BY <1>3 DEF Second
<1>5. \A e \in E : f[e] \in G
  BY <1>1
<1> DEFINE u == Second(G)
<1> HIDE DEF f, G, u
<1>6. \A p \in G : u[p] = Sigma(w, Fibre(f, E, p))
  BY <1>4 DEF u
<1>7. WholeOn(u, G) /\ Sigma(u, G) = Sigma(w, E)
  BY <1>2, <1>5, <1>6, SumOfFibres
<1> QED
  BY <1>2, <1>7 DEF u, G

(* As many as there are is what they add up to when each weighs 1. *)
LEMMA SumOfOnes ==
  ASSUME NEW S, IsFiniteSet(S)
  PROVE  Sigma([x \in S |-> 1], S) = Cardinality(S)
<1> DEFINE w == [x \in S |-> 1]
<1>1. WholeOn(w, S) /\ \A x \in S : 1 <= w[x] /\ w[x] <= 1
  BY DEF WholeOn
<1> HIDE DEF w
<1>2. Cardinality(S) * 1 <= Sigma(w, S) /\ Sigma(w, S) <= Cardinality(S) * 1
  BY <1>1, SumBounds
<1>3. Sigma(w, S) \in Int /\ Cardinality(S) \in Nat
  <2>1. S \in SUBSET S
    OBVIOUS
  <2> QED
    BY <1>1, <2>1, SumType, FS_CardinalityType
<1>4. Sigma(w, S) = Cardinality(S)
  BY <1>2, <1>3
<1> QED
  BY <1>4 DEF w

(* Of finitely many values one is the least, and one the largest. *)
Bounded(w, t) ==
  /\ \E x \in t : \A y \in t : w[x] <= w[y]
  /\ \E x \in t : \A y \in t : w[x] >= w[y]

LEMMA FiniteBounded ==
  ASSUME NEW S, IsFiniteSet(S), NEW w, WholeOn(w, S), S # {}
  PROVE  Bounded(w, S)
<1> DEFINE I == {t \in SUBSET S : t # {} => Bounded(w, t)}
<1>1. {} \in I
  OBVIOUS
<1>2. ASSUME NEW t \in SUBSET S, NEW z \in S, t \in I, z \notin t
      PROVE  t \cup {z} \in I
  <2>1. \A x \in t \cup {z} : w[x] \in Int
    BY DEF WholeOn
  <2>2. CASE t = {}
    <3>1. Bounded(w, {z})
      BY <2>1 DEF Bounded
    <3> QED
      BY <2>2, <3>1
  <2>3. CASE t # {}
    <3>1. PICK a \in t : \A y \in t : w[a] <= w[y]
      BY <1>2, <2>3 DEF Bounded
    <3>2. PICK b \in t : \A y \in t : w[b] >= w[y]
      BY <1>2, <2>3 DEF Bounded
    <3>3. \E x \in t \cup {z} : \A y \in t \cup {z} : w[x] <= w[y]
      <4>1. CASE w[a] <= w[z]
        BY <2>1, <3>1, <4>1
      <4>2. CASE ~(w[a] <= w[z])
        <5>1. \A y \in t : w[z] <= w[y]
          BY <2>1, <3>1, <4>2
        <5>2. w[z] <= w[z]
          BY <2>1
        <5> QED
          BY <5>1, <5>2
      <4> QED
        BY <4>1, <4>2
    <3>4. \E x \in t \cup {z} : \A y \in t \cup {z} : w[x] >= w[y]
      <4>1. CASE w[b] >= w[z]
        BY <2>1, <3>2, <4>1
      <4>2. CASE ~(w[b] >= w[z])
        <5>1. \A y \in t : w[z] >= w[y]
          BY <2>1, <3>2, <4>2
        <5>2. w[z] >= w[z]
          BY <2>1
        <5> QED
          BY <5>1, <5>2
      <4> QED
        BY <4>1, <4>2
    <3> QED
      BY <3>3, <3>4 DEF Bounded
  <2> QED
    BY <2>2, <2>3
<1>3. Grows(I, S)
  BY <1>1, <1>2 DEF Grows
<1>4. S \in I
  <2> HIDE DEF I
  <2>1. S \in SUBSET S
    OBVIOUS
  <2> QED
    BY <2>1, <1>3, PartsGrow
<1> QED
  BY <1>4

(* What a finite set is listed as: each element once.  R holds between     *)
(* places of the list.                                                     *)
Listing(s, S) ==
  /\ s \in Seq(S) /\ Len(s) = Cardinality(S) /\ Len(s) \in Nat
  /\ \A x \in S : \E i \in 1..Len(s) : s[i] = x

LEMMA ListingOf ==
  ASSUME NEW S, IsFiniteSet(S), NEW s \in [1..Cardinality(S) -> S],
         \A i, j \in 1..Cardinality(S) : i # j => s[i] # s[j]
  PROVE  Listing(s, S)
<1> DEFINE n == Cardinality(S)
<1>1. n \in Nat
  BY FS_CardinalityType
<1>2. s \in Seq(S) /\ Len(s) = n
  BY <1>1
<1>3. s \in Injection(1..n, S)
  BY DEF Injection, IsInjective
<1>4. Cardinality(1..n) = n
  BY <1>1, FS_Interval
<1>5. s \in Surjection(1..n, S)
  BY <1>3, <1>4, FS_Injection
<1> QED
  BY <1>1, <1>2, <1>5 DEF Listing, Surjection

LEMMA FirstOf ==
  ASSUME NEW S, NEW s \in Seq(S), NEW m \in 0..Len(s)
  PROVE  /\ Len(SubSeq(s, 1, m)) = m /\ DOMAIN SubSeq(s, 1, m) = 1..m
         /\ \A i \in 1..m : SubSeq(s, 1, m)[i] = s[i]
<1>1. Len(s) \in Nat /\ m \in Nat
  OBVIOUS
<1>2. SubSeq(s, 1, m) = [i \in 1..m |-> s[i]]
  OBVIOUS
<1> QED
  BY <1>1, <1>2

Follows(R, n) == \A i \in 1..(n - 1) : <<i, i + 1>> \in R
Carries(R, n) == \A i, j, k \in 1..n : <<i, j>> \in R /\ <<j, k>> \in R => <<i, k>> \in R

LEMMA Throughout ==
  ASSUME NEW n \in Nat, NEW R, Follows(R, n), Carries(R, n),
         NEW i \in 1..n, NEW j \in 1..n, i < j
  PROVE  <<i, j>> \in R
<1> DEFINE Bad == {k \in Nat : i < k /\ k <= n /\ <<i, k>> \notin R}
<1>1. SUFFICES ASSUME <<i, j>> \notin R PROVE FALSE
  OBVIOUS
<1>2. Bad \in SUBSET Nat /\ Bad # {}
  BY <1>1
<1>3. PICK k \in Bad : \A m \in Bad : k <= m
  <2> HIDE DEF Bad
  <2> QED
    BY <1>2, LeastNatural
<1>4. k \in Nat /\ i < k /\ k <= n /\ <<i, k>> \notin R
  OBVIOUS
<1>5. k - 1 \in 1..(n - 1) /\ k - 1 \in 1..n /\ k \in 1..n /\ (k - 1) + 1 = k /\ k - 1 \in Nat
  BY <1>4
<1>6. <<k - 1, k>> \in R
  BY <1>5 DEF Follows
<1>7. k - 1 \notin Bad
  <2> HIDE DEF Bad
  <2>1. ~(k <= k - 1)
    BY <1>4
  <2> QED
    BY <1>3, <2>1
<1>8. i = k - 1 \/ <<i, k - 1>> \in R
  BY <1>4, <1>5, <1>7
<1>9. <<i, k>> \in R
  <2>1. CASE i = k - 1
    BY <1>6, <2>1
  <2>2. CASE <<i, k - 1>> \in R
    BY <1>5, <1>6, <2>2 DEF Carries
  <2> QED
    BY <1>8, <2>1, <2>2
<1> QED
  BY <1>4, <1>9

-----------------------------------------------------------------------------
(* A report                                                                *)

LEMMA SumFound ==
  ASSUME NEW S, IsFiniteSet(S), NEW w, WholeOn(w, S), NEW f, AddsUp(f, w, S)
  PROVE  f[S] = Sigma(w, S)
<1>1. PICK g : AddsUp(g, w, S) /\ Sigma(w, S) = g[S]
  BY SumSolves
<1>2. Alike(w, w, S) /\ S \in SUBSET S
  BY DEF Alike
<1>3. Agree(f, g, S)
  BY <1>1, <1>2, SumsAgree
<1> QED
  BY <1>1, <1>3 DEF Agree

LEMMA ReportAssumption ==
  /\ IsFiniteSet(StatsIds) /\ TopLimit \in Nat /\ MaxChanges \in Nat
  /\ \A r \in StatsRows : r.cost \in Int \cup {Null}
BY ServicesAssumption DEF Sta!ConstantsAssumption, IsFiniteSet, Sta!IsFiniteSet

EntriesType == entries \in [StatsIds -> StatsRows \cup {Null}]

Spent == [e \in StatsIds |-> Sta!CostOf(e)]

LEMMA SpentType == EntriesType => \A E \in SUBSET Sta!All : IsFiniteSet(E) /\ WholeOn(Spent, E)
<1> SUFFICES ASSUME EntriesType, NEW E \in SUBSET Sta!All PROVE IsFiniteSet(E) /\ WholeOn(Spent, E)
  OBVIOUS
<1>1. E \subseteq StatsIds
  BY DEF Sta!All
<1>2. ASSUME NEW e \in E PROVE Spent[e] \in Int
  <2>1. e \in StatsIds /\ entries[e] \in StatsRows
    BY <1>1 DEF Sta!All, EntriesType
  <2> QED
    BY <2>1, ReportAssumption DEF Spent, Sta!CostOf
<1> QED
  BY <1>1, <1>2, ReportAssumption, FS_Subset DEF WholeOn

(* The sums of the reports are sums. *)
LEMMA ReportTotal ==
  ASSUME EntriesType, NEW E \in SUBSET Sta!All
  PROVE  Sta!Total(E) = Sigma(Spent, E)
<1> DEFINE F(it) == [s \in SUBSET E |-> IF s = {} THEN 0
                       ELSE LET x == CHOOSE x \in s : TRUE IN Sta!CostOf(x) + it[s \ {x}]]
           P(it) == it = F(it)
           g == CHOOSE it : P(it)
<1>1. Sta!Total(E) = g[E]
  BY DEF Sta!Total, Sta!Sum, Sta!MapThenSumSet, Sta!MapThenFoldSet
<1>2. IsFiniteSet(E) /\ WholeOn(Spent, E) /\ E \in SUBSET StatsIds
  BY SpentType DEF Sta!All
<1>3. ASSUME NEW it PROVE P(it) <=> AddsUp(it, Spent, E)
  <2> DEFINE H == [s \in SUBSET E |-> IF s = {} THEN 0
                     ELSE LET x == CHOOSE x \in s : TRUE IN Spent[x] + it[s \ {x}]]
  <2>1. ASSUME NEW s \in SUBSET E PROVE F(it)[s] = H[s]
    <3> DEFINE x == CHOOSE x \in s : TRUE
    <3>1. CASE s = {}
      BY <3>1
    <3>2. CASE s # {}
      <4>1. x \in StatsIds
        BY <1>2, <3>2
      <4>2. Spent[x] = Sta!CostOf(x)
        BY <4>1 DEF Spent
      <4>3. F(it)[s] = Sta!CostOf(x) + it[s \ {x}] /\ H[s] = Spent[x] + it[s \ {x}]
        BY <3>2
      <4> QED
        BY <4>2, <4>3
    <3> QED
      BY <3>1, <3>2
  <2>2. F(it) = H
    <3>1. DOMAIN F(it) = SUBSET E /\ DOMAIN H = SUBSET E
      OBVIOUS
    <3>2. F(it) = [s \in SUBSET E |-> F(it)[s]] /\ H = [s \in SUBSET E |-> H[s]]
      OBVIOUS
    <3> HIDE DEF F, H
    <3> QED
      BY <2>1, <3>2
  <2>3. AddsUp(it, Spent, E) <=> it = H
    BY DEF AddsUp
  <2> HIDE DEF F, H
  <2> QED
    BY <2>2, <2>3
<1>4. PICK it : AddsUp(it, Spent, E)
  BY <1>2, SumSolves
<1> HIDE DEF P
<1>5. P(g)
  BY <1>3, <1>4
<1> HIDE DEF g
<1>6. AddsUp(g, Spent, E)
  BY <1>3, <1>5
<1> QED
  BY <1>1, <1>2, <1>6, SumFound

LEMMA ReportSumOf ==
  ASSUME NEW E, IsFiniteSet(E), WholeOn(Second(E), E)
  PROVE  Sta!SumOf(E) = Sigma(Second(E), E)
<1> DEFINE F(it) == [s \in SUBSET E |-> IF s = {} THEN 0
                       ELSE LET x == CHOOSE x \in s : TRUE IN Sta!SecondOf(x) + it[s \ {x}]]
           P(it) == it = F(it)
           g == CHOOSE it : P(it)
           w == Second(E)
<1>1. Sta!SumOf(E) = g[E]
  BY DEF Sta!SumOf, Sta!Sum, Sta!MapThenSumSet, Sta!MapThenFoldSet
<1>3. ASSUME NEW it PROVE P(it) <=> AddsUp(it, w, E)
  <2> DEFINE H == [s \in SUBSET E |-> IF s = {} THEN 0
                     ELSE LET x == CHOOSE x \in s : TRUE IN w[x] + it[s \ {x}]]
  <2>1. ASSUME NEW s \in SUBSET E PROVE F(it)[s] = H[s]
    <3> DEFINE x == CHOOSE x \in s : TRUE
    <3>1. CASE s = {}
      BY <3>1
    <3>2. CASE s # {}
      <4>1. x \in E
        BY <3>2
      <4>2. w[x] = Sta!SecondOf(x)
        BY <4>1 DEF Second, Sta!SecondOf
      <4>3. F(it)[s] = Sta!SecondOf(x) + it[s \ {x}] /\ H[s] = w[x] + it[s \ {x}]
        BY <3>2
      <4> QED
        BY <4>2, <4>3
    <3> QED
      BY <3>1, <3>2
  <2>2. F(it) = H
    <3>2. F(it) = [s \in SUBSET E |-> F(it)[s]] /\ H = [s \in SUBSET E |-> H[s]]
      OBVIOUS
    <3> HIDE DEF F, H
    <3> QED
      BY <2>1, <3>2
  <2>3. AddsUp(it, w, E) <=> it = H
    BY DEF AddsUp
  <2> HIDE DEF F, H
  <2> QED
    BY <2>2, <2>3
<1>4. PICK it : AddsUp(it, w, E)
  BY SumSolves
<1> HIDE DEF P
<1>5. P(g)
  BY <1>3, <1>4
<1> HIDE DEF g
<1>6. AddsUp(g, w, E)
  BY <1>3, <1>5
<1> QED
  BY <1>1, <1>6, SumFound

TypeKey == [e \in StatsIds |-> Sta!TypeOf(e)]
MonthKey == [e \in StatsIds |-> Sta!MonthOf(e)]
StationKey == [e \in StatsIds |-> Sta!StationOf(e)]
FuelKey == [e \in StatsIds |-> Sta!FuelOf(e)]

(* The rows that a report is about *)
Inside == Sta!Between(Sta!Period)
Paid == Sta!Costly(Inside)
Fuelled == {e \in Inside : entries[e].fuel # Null}
Served == {e \in Paid : Sta!StationOf(e) # Null}

LEMMA PartsOfAll ==
  /\ Inside \in SUBSET Sta!All /\ Paid \in SUBSET Sta!All /\ Fuelled \in SUBSET Sta!All
  /\ Served \in SUBSET Sta!All /\ Sta!All \in SUBSET StatsIds
BY DEF Inside, Paid, Fuelled, Served, Sta!Between, Sta!Costly, Sta!All

LEMMA GroupedIs ==
  ASSUME EntriesType
  PROVE  /\ Sta!FindCostsByType(Sta!Period) = Groups(Spent, Paid, TypeKey)
         /\ Sta!FindCostsByMonth = Groups(Spent, Paid, MonthKey)
         /\ Sta!FuelCosts = Groups(Spent, Fuelled, FuelKey)
         /\ Sta!FindCostsByStation = Groups(Spent, Served, StationKey)
<1>1. ASSUME NEW E \in SUBSET Sta!All, NEW k, NEW v
      PROVE  Sta!Total(Fibre(k, E, v)) = Sigma(Spent, Fibre(k, E, v))
  BY ReportTotal DEF Fibre
<1>2. Sta!FindCostsByType(Sta!Period) = Groups(Spent, Paid, TypeKey)
  <2>1. Sta!FindCostsByType(Sta!Period)
          = {<<k, Sta!Total({e \in Paid : Sta!TypeOf(e) = k})>> : k \in {Sta!TypeOf(e) : e \in Paid}}
    BY DEF Sta!FindCostsByType, Sta!Grouped, Paid, Inside
  <2>2. \A e \in Paid : Sta!TypeOf(e) = TypeKey[e]
    BY PartsOfAll DEF TypeKey
  <2>3. {Sta!TypeOf(e) : e \in Paid} = {TypeKey[e] : e \in Paid}
    BY <2>2
  <2>4. \A k : {e \in Paid : Sta!TypeOf(e) = k} = Fibre(TypeKey, Paid, k)
    BY <2>2 DEF Fibre
  <2>5. \A k : Sta!Total({e \in Paid : Sta!TypeOf(e) = k}) = Sigma(Spent, Fibre(TypeKey, Paid, k))
    BY <1>1, <2>4, PartsOfAll
  <2> QED
    BY <2>1, <2>3, <2>5 DEF Groups
<1>3. Sta!FindCostsByMonth = Groups(Spent, Paid, MonthKey)
  <2>1. Sta!FindCostsByMonth
          = {<<k, Sta!Total({e \in Paid : Sta!MonthOf(e) = k})>> : k \in {Sta!MonthOf(e) : e \in Paid}}
    BY DEF Sta!FindCostsByMonth, Sta!Grouped, Paid, Inside
  <2>2. \A e \in Paid : Sta!MonthOf(e) = MonthKey[e]
    BY PartsOfAll DEF MonthKey
  <2>3. {Sta!MonthOf(e) : e \in Paid} = {MonthKey[e] : e \in Paid}
    BY <2>2
  <2>4. \A k : {e \in Paid : Sta!MonthOf(e) = k} = Fibre(MonthKey, Paid, k)
    BY <2>2 DEF Fibre
  <2>5. \A k : Sta!Total({e \in Paid : Sta!MonthOf(e) = k}) = Sigma(Spent, Fibre(MonthKey, Paid, k))
    BY <1>1, <2>4, PartsOfAll
  <2> QED
    BY <2>1, <2>3, <2>5 DEF Groups
<1>4. Sta!FuelCosts = Groups(Spent, Fuelled, FuelKey)
  <2>1. Sta!FuelCosts
          = {<<k, Sta!Total({e \in Fuelled : Sta!FuelOf(e) = k})>> : k \in {Sta!FuelOf(e) : e \in Fuelled}}
    BY DEF Sta!FuelCosts, Sta!Grouped, Fuelled, Inside, Sta!FuelRows
  <2>2. \A e \in Fuelled : Sta!FuelOf(e) = FuelKey[e]
    BY PartsOfAll DEF FuelKey
  <2>3. {Sta!FuelOf(e) : e \in Fuelled} = {FuelKey[e] : e \in Fuelled}
    BY <2>2
  <2>4. \A k : {e \in Fuelled : Sta!FuelOf(e) = k} = Fibre(FuelKey, Fuelled, k)
    BY <2>2 DEF Fibre
  <2>5. \A k : Sta!Total({e \in Fuelled : Sta!FuelOf(e) = k}) = Sigma(Spent, Fibre(FuelKey, Fuelled, k))
    BY <1>1, <2>4, PartsOfAll
  <2> QED
    BY <2>1, <2>3, <2>5 DEF Groups
<1>5. Sta!FindCostsByStation = Groups(Spent, Served, StationKey)
  <2>1. Sta!FindCostsByStation
          = {<<k, Sta!Total({e \in Served : Sta!StationOf(e) = k})>> : k \in {Sta!StationOf(e) : e \in Served}}
    BY DEF Sta!FindCostsByStation, Sta!Grouped, Served, Paid, Inside
  <2>2. \A e \in Served : Sta!StationOf(e) = StationKey[e]
    BY PartsOfAll DEF StationKey
  <2>3. {Sta!StationOf(e) : e \in Served} = {StationKey[e] : e \in Served}
    BY <2>2
  <2>4. \A k : {e \in Served : Sta!StationOf(e) = k} = Fibre(StationKey, Served, k)
    BY <2>2 DEF Fibre
  <2>5. \A k : Sta!Total({e \in Served : Sta!StationOf(e) = k}) = Sigma(Spent, Fibre(StationKey, Served, k))
    BY <1>1, <2>4, PartsOfAll
  <2> QED
    BY <2>1, <2>3, <2>5 DEF Groups
<1> QED
  BY <1>2, <1>3, <1>4, <1>5

(* As long as nothing changed, what a query returned is what is there.  A  *)
(* later query looks at the same rows, so the answers may be compared.     *)
AllPaid == Sta!Costly(Sta!All)

AnswersStand ==
  /\ statsPc > 2 => statsGot["byType"] = Groups(Spent, Paid, TypeKey)
  /\ statsPc > 3 => statsGot["byMonth"] = Groups(Spent, Paid, MonthKey)
  /\ statsPc > 6 => statsGot["fuel"] = Groups(Spent, Fuelled, FuelKey)
  /\ statsPc > 7 => statsGot["byStation"] = Groups(Spent, Served, StationKey)
  /\ statsPc > 9 /\ statsGot["info"].since = Null => statsGot["tco"] = Sigma(Spent, AllPaid)
  /\ statsPc > 11 => statsGot["names"] \subseteq statsGot["byStation"]

ReportInv ==
  /\ Sta!TypeOK
  /\ statsPc = 0 => statsGot = Sta!NothingGot
  /\ statsChanges = 0 => AnswersStand

LEMMA QueryNames ==
  /\ Len(Sta!Queries) = 11 /\ DOMAIN Sta!Queries = 1..11
  /\ Sta!Queries[1] = "info" /\ Sta!Queries[2] = "byType" /\ Sta!Queries[3] = "byMonth"
  /\ Sta!Queries[4] = "previous" /\ Sta!Queries[5] = "refuels" /\ Sta!Queries[6] = "fuel"
  /\ Sta!Queries[7] = "byStation" /\ Sta!Queries[8] = "insurance" /\ Sta!Queries[9] = "tco"
  /\ Sta!Queries[10] = "mileage" /\ Sta!Queries[11] = "names"
BY DEF Sta!Queries

LEMMA QueriesDiffer == \A i, j \in 1..11 : Sta!Queries[i] = Sta!Queries[j] => i = j
<1> SUFFICES ASSUME NEW i \in 1..11, NEW j \in 1..11, Sta!Queries[i] = Sta!Queries[j] PROVE i = j
  OBVIOUS
<1>1. i \in {1, 2, 3, 4, 5, 6, 7, 8, 9, 10, 11} /\ j \in {1, 2, 3, 4, 5, 6, 7, 8, 9, 10, 11}
  OBVIOUS
<1> QED
  BY <1>1, QueryNames

LEMMA QueryDomain ==
  /\ DOMAIN Sta!NothingGot = {Sta!Queries[i] : i \in 1..11}
  /\ \A i \in 1..11 : Sta!Queries[i] \in DOMAIN Sta!NothingGot
                      /\ Sta!NothingGot[Sta!Queries[i]] = Null
BY QueryNames DEF Sta!NothingGot

LEMMA ReportTypeIs ==
  Sta!TypeOK <=>
    /\ EntriesType
    /\ stationIds \subseteq StatsStations /\ reading \in StatsOdometers
    /\ statsPc \in 0..12 /\ statsChanges \in 0..MaxChanges
    /\ query \in [period : Sta!Periods, date : StatsDates] \cup {Null}
    /\ DOMAIN statsGot = DOMAIN Sta!NothingGot
    /\ \A i \in 1..11 : statsPc \in 1..i => statsGot[Sta!Queries[i]] = Null
BY QueryNames DEF Sta!TypeOK, EntriesType

LEMMA ReportInitInv == Sta!Init => ReportInv
<1> SUFFICES ASSUME Sta!Init PROVE ReportInv
  OBVIOUS
<1>1. statsPc = 0 /\ statsGot = Sta!NothingGot /\ statsChanges = 0 /\ query = Null
  BY DEF Sta!Init
<1>2. EntriesType /\ stationIds \subseteq StatsStations /\ reading \in StatsOdometers
  BY DEF Sta!Init, EntriesType
<1>3. Sta!TypeOK
  BY <1>1, <1>2, ReportTypeIs, ReportAssumption
<1> QED
  BY <1>1, <1>3 DEF ReportInv, AnswersStand

LEMMA ReportReads ==
  ASSUME entries' = entries, query' = query
  PROVE  /\ Spent' = Spent /\ Paid' = Paid /\ Fuelled' = Fuelled /\ Served' = Served
         /\ AllPaid' = AllPaid
         /\ TypeKey' = TypeKey /\ MonthKey' = MonthKey /\ FuelKey' = FuelKey
         /\ StationKey' = StationKey
<1>1. Inside' = Inside /\ Sta!All' = Sta!All
  BY DEF Inside, Sta!Between, Sta!All, Sta!Period
<1>2. Spent' = Spent
  BY DEF Spent, Sta!CostOf
<1>3. Paid' = Paid /\ AllPaid' = AllPaid /\ Fuelled' = Fuelled
  BY <1>1 DEF Paid, AllPaid, Fuelled, Sta!Costly
<1>4. Served' = Served
  BY <1>3 DEF Served, Sta!StationOf
<1>5. TypeKey' = TypeKey /\ MonthKey' = MonthKey /\ FuelKey' = FuelKey /\ StationKey' = StationKey
  BY DEF TypeKey, MonthKey, FuelKey, StationKey, Sta!TypeOf, Sta!MonthOf, Sta!FuelOf, Sta!StationOf
<1> QED
  BY <1>2, <1>3, <1>4, <1>5

LEMMA ReportReadKeeps == ReportInv /\ Sta!Read => ReportInv'
<1> SUFFICES ASSUME ReportInv, Sta!Read PROVE ReportInv'
  OBVIOUS
<1>1. /\ statsPc \in 1..11 /\ statsPc' = statsPc + 1
      /\ UNCHANGED <<entries, stationIds, reading, query, statsChanges>>
  BY QueryNames DEF Sta!Read
<1>2. PICK answer \in Sta!Answers(Sta!Queries[statsPc]) :
        statsGot' = [statsGot EXCEPT ![Sta!Queries[statsPc]] = answer]
  BY DEF Sta!Read
<1>3. /\ EntriesType
      /\ stationIds \subseteq StatsStations /\ reading \in StatsOdometers
      /\ statsChanges \in 0..MaxChanges
      /\ query \in [period : Sta!Periods, date : StatsDates] \cup {Null}
      /\ DOMAIN statsGot = DOMAIN Sta!NothingGot
      /\ \A i \in 1..11 : statsPc \in 1..i => statsGot[Sta!Queries[i]] = Null
  BY ReportTypeIs DEF ReportInv
<1>4. /\ DOMAIN statsGot' = DOMAIN Sta!NothingGot
      /\ statsGot'[Sta!Queries[statsPc]] = answer
      /\ \A i \in 1..11 : i # statsPc => statsGot'[Sta!Queries[i]] = statsGot[Sta!Queries[i]]
  <2>1. \A i \in 1..11 : Sta!Queries[i] \in DOMAIN statsGot
    BY <1>3, QueryDomain
  <2> QED
    BY <1>1, <1>2, <1>3, <2>1, QueriesDiffer
<1>5. \A i \in 1..11 : statsPc' \in 1..i => statsGot'[Sta!Queries[i]] = Null
  BY <1>1, <1>3, <1>4
<1>6. Sta!TypeOK'
  <2>1. EntriesType'
    BY <1>1, <1>3 DEF EntriesType
  <2>2. statsPc' \in 0..12
    BY <1>1
  <2>3. stationIds' \subseteq StatsStations /\ reading' \in StatsOdometers
        /\ statsChanges' \in 0..MaxChanges
        /\ query' \in [period : Sta!Periods, date : StatsDates] \cup {Null}
    BY <1>1, <1>3
  <2> QED
    BY <1>4, <1>5, <2>1, <2>2, <2>3, QueryNames DEF Sta!TypeOK, EntriesType
<1>7. ASSUME statsChanges' = 0 PROVE AnswersStand'
  <2>1. AnswersStand
    BY <1>1, <1>7 DEF ReportInv
  <2> DEFINE q == Sta!Queries[statsPc]
  <2>2. /\ q = "byType" => answer = Groups(Spent, Paid, TypeKey)
        /\ q = "byMonth" => answer = Groups(Spent, Paid, MonthKey)
        /\ q = "fuel" => answer = Groups(Spent, Fuelled, FuelKey)
        /\ q = "byStation" => answer = Groups(Spent, Served, StationKey)
    <3>1. q = "byType" => answer = Sta!FindCostsByType(Sta!Period)
      BY <1>2 DEF Sta!Answers
    <3>2. q = "byMonth" => answer = Sta!FindCostsByMonth
      BY <1>2 DEF Sta!Answers
    <3>3. q = "fuel" => answer = Sta!FuelCosts
      BY <1>2 DEF Sta!Answers
    <3>4. q = "byStation" => answer = Sta!FindCostsByStation
      BY <1>2 DEF Sta!Answers
    <3> QED
      BY <3>1, <3>2, <3>3, <3>4, <1>3, GroupedIs
  <2>3. q = "tco" /\ statsGot["info"].since = Null => answer = Sigma(Spent, AllPaid)
    <3> SUFFICES ASSUME q = "tco", statsGot["info"].since = Null PROVE answer = Sigma(Spent, AllPaid)
      OBVIOUS
    <3>1. answer = Sta!TcoOf(statsGot["info"].since)
      BY <1>2 DEF Sta!Answers
    <3>2. Sta!TcoOf(Null) = Sta!Total(AllPaid)
      <4>1. {e \in Sta!Costly(Sta!All) : Null # Null => Sta!NotAfter(Null, entries[e].date)} = AllPaid
        BY DEF AllPaid
      <4> QED
        BY <4>1 DEF Sta!TcoOf
    <3>3. AllPaid \in SUBSET Sta!All
      BY DEF AllPaid, Sta!Costly
    <3> QED
      BY <3>1, <3>2, <3>3, <1>3, ReportTotal
  <2>4. q = "names" => answer \subseteq statsGot["byStation"]
    BY <1>2 DEF Sta!Answers
  <2>5. \A i \in 1..11 : statsPc > i => statsGot'[Sta!Queries[i]] = statsGot[Sta!Queries[i]]
    BY <1>1, <1>4
  <2>6. \A i \in 1..11 : statsPc' > i => statsPc > i \/ statsPc = i
    BY <1>1
  <2> HIDE DEF q
  <2>7. statsPc' > 2 => statsGot'["byType"] = Groups(Spent, Paid, TypeKey)
    BY <2>1, <2>2, <2>5, <2>6, <1>4, QueryNames DEF AnswersStand, q
  <2>8. statsPc' > 3 => statsGot'["byMonth"] = Groups(Spent, Paid, MonthKey)
    BY <2>1, <2>2, <2>5, <2>6, <1>4, QueryNames DEF AnswersStand, q
  <2>9. statsPc' > 6 => statsGot'["fuel"] = Groups(Spent, Fuelled, FuelKey)
    BY <2>1, <2>2, <2>5, <2>6, <1>4, QueryNames DEF AnswersStand, q
  <2>10. statsPc' > 7 => statsGot'["byStation"] = Groups(Spent, Served, StationKey)
    BY <2>1, <2>2, <2>5, <2>6, <1>4, QueryNames DEF AnswersStand, q
  <2>11. statsPc' > 9 /\ statsGot'["info"].since = Null => statsGot'["tco"] = Sigma(Spent, AllPaid)
    <3>1. statsPc' > 9 => statsPc > 1
      BY <1>1
    <3>2. statsPc > 1 => statsGot'["info"] = statsGot["info"]
      BY <2>5, QueryNames
    <3> QED
      BY <2>1, <2>3, <2>5, <2>6, <3>1, <3>2, <1>4, QueryNames DEF AnswersStand, q
  <2>12. statsPc' > 11 => statsGot'["names"] \subseteq statsGot'["byStation"]
    <3>1. statsPc' > 11 => statsPc > 7 /\ statsPc = 11
      BY <1>1
    <3>2. statsPc > 7 => statsGot'["byStation"] = statsGot["byStation"]
      BY <2>5, QueryNames
    <3> QED
      BY <2>4, <3>1, <3>2, <1>4, QueryNames DEF q
  <2> QED
    BY <1>1, <2>7, <2>8, <2>9, <2>10, <2>11, <2>12, ReportReads DEF AnswersStand
<1>8. statsPc' # 0
  BY <1>1
<1> QED
  BY <1>6, <1>7, <1>8 DEF ReportInv

LEMMA ReportOtherKeeps ==
  ReportInv /\ (statsPc = 0 \/ statsChanges' = statsChanges + 1) /\ UNCHANGED <<statsPc, query, statsGot>>
    /\ entries' \in [StatsIds -> StatsRows \cup {Null}] /\ stationIds' \subseteq StatsStations
    /\ reading' \in StatsOdometers /\ statsChanges' \in 0..MaxChanges
    => ReportInv'
<1> SUFFICES ASSUME ReportInv, statsPc = 0 \/ statsChanges' = statsChanges + 1,
                    UNCHANGED <<statsPc, query, statsGot>>,
                    entries' \in [StatsIds -> StatsRows \cup {Null}], stationIds' \subseteq StatsStations,
                    reading' \in StatsOdometers, statsChanges' \in 0..MaxChanges
             PROVE  ReportInv'
  OBVIOUS
<1>1. statsPc \in 0..12 /\ statsChanges \in Nat
  BY ReportTypeIs DEF ReportInv
<1>2. Sta!TypeOK'
  BY DEF ReportInv, Sta!TypeOK
<1>3. statsChanges' = 0 => AnswersStand'
  <2>1. statsChanges' = 0 => statsPc' = 0
    BY <1>1
  <2> QED
    BY <2>1 DEF AnswersStand
<1> QED
  BY <1>2, <1>3 DEF ReportInv

LEMMA ReportNextInv == ReportInv /\ [Sta!Next]_(Sta!vars) => ReportInv'
<1> SUFFICES ASSUME ReportInv, [Sta!Next]_(Sta!vars) PROVE ReportInv'
  OBVIOUS
<1>8. /\ entries \in [StatsIds -> StatsRows \cup {Null}]
      /\ stationIds \subseteq StatsStations /\ reading \in StatsOdometers
      /\ statsPc \in 0..12 /\ statsChanges \in 0..MaxChanges
      /\ query \in [period : Sta!Periods, date : StatsDates] \cup {Null}
      /\ DOMAIN statsGot = DOMAIN Sta!NothingGot
      /\ MaxChanges \in Nat
  BY ReportTypeIs, ReportAssumption DEF ReportInv, EntriesType
<1>9. Sta!Changed => /\ statsPc = 0 \/ statsChanges' = statsChanges + 1
                     /\ UNCHANGED <<statsPc, query, statsGot>> /\ statsChanges' \in 0..MaxChanges
  BY <1>8 DEF Sta!Changed
<1>1. ASSUME NEW period \in Sta!Periods, NEW date \in StatsDates, Sta!Open(period, date)
      PROVE  ReportInv'
  <2>1. /\ statsPc = 0 /\ statsPc' = 1 /\ query' = [period |-> period, date |-> date]
        /\ UNCHANGED <<entries, stationIds, reading, statsGot, statsChanges>>
    BY <1>1 DEF Sta!Open
  <2>2. statsGot' = Sta!NothingGot
    BY <2>1 DEF ReportInv
  <2>3. query' \in [period : Sta!Periods, date : StatsDates]
    BY <2>1
  <2>4. \A i \in 1..11 : statsGot'[Sta!Queries[i]] = Null
    BY <2>2, QueryDomain
  <2>5. Sta!TypeOK'
    BY <1>8, <2>1, <2>2, <2>3, <2>4, QueryNames DEF Sta!TypeOK
  <2> QED
    BY <2>1, <2>5 DEF ReportInv, AnswersStand
<1>2. CASE Sta!Read
  BY <1>2, ReportReadKeeps
<1>3. CASE Sta!Reply
  <2>1. /\ statsPc' = 0 /\ query' = Null /\ statsGot' = Sta!NothingGot /\ statsChanges' = 0
        /\ UNCHANGED <<entries, stationIds, reading>>
    BY <1>3 DEF Sta!Reply
  <2>2. Sta!TypeOK'
    BY <1>8, <2>1, QueryNames DEF Sta!TypeOK
  <2> QED
    BY <2>1, <2>2 DEF ReportInv, AnswersStand
<1>4. ASSUME NEW e \in StatsIds, NEW r \in StatsRows \cup {Null}, Sta!SetEvent(e, r)
      PROVE  ReportInv'
  <2>1. /\ entries' = [entries EXCEPT ![e] = r] /\ Sta!Changed
        /\ UNCHANGED <<stationIds, reading>>
    BY <1>4 DEF Sta!SetEvent
  <2>2. entries' \in [StatsIds -> StatsRows \cup {Null}]
    BY <1>8, <2>1
  <2> QED
    BY <1>8, <1>9, <2>1, <2>2, ReportOtherKeeps
<1>5. ASSUME NEW km \in StatsOdometers, Sta!SetOdometer(km)
      PROVE  ReportInv'
  <2>1. reading' = km /\ Sta!Changed /\ UNCHANGED <<entries, stationIds>>
    BY <1>5 DEF Sta!SetOdometer
  <2> QED
    BY <1>8, <1>9, <2>1, ReportOtherKeeps
<1>6. ASSUME NEW s \in StatsStations, Sta!DeleteStation(s)
      PROVE  ReportInv'
  <2>1. stationIds' = stationIds \ {s} /\ Sta!Changed /\ UNCHANGED <<entries, reading>>
    BY <1>6 DEF Sta!DeleteStation
  <2> QED
    BY <1>8, <1>9, <2>1, ReportOtherKeeps
<1>7. CASE UNCHANGED Sta!vars
  <2>1. UNCHANGED <<entries, stationIds, reading, statsPc, query, statsGot, statsChanges>>
    BY <1>7 DEF Sta!vars
  <2>2. Sta!TypeOK'
    BY <2>1 DEF ReportInv, Sta!TypeOK
  <2>3. AnswersStand => AnswersStand'
    BY <2>1, ReportReads DEF AnswersStand
  <2> QED
    BY <2>1, <2>2, <2>3 DEF ReportInv
<1> QED
  BY <1>1, <1>2, <1>3, <1>4, <1>5, <1>6, <1>7 DEF Sta!Next

LEMMA ReportCardinality == \A S : Sta!Cardinality(S) = Cardinality(S)
BY DEF Cardinality, Sta!Cardinality

(* The extreme months bound the sum of all. *)
LEMMA MonthsBound ==
  ASSUME NEW G, IsFiniteSet(G), WholeOn(Second(G), G), G # {},
         NEW T, T = {pair[2] : pair \in G}
  PROVE  /\ Cardinality(G) * Sta!Min(T) <= Sigma(Second(G), G)
         /\ Sigma(Second(G), G) <= Cardinality(G) * Sta!Max(T)
<1> DEFINE w == Second(G)
<1>1. \A p \in G : w[p] = p[2] /\ w[p] \in Int
  BY DEF Second, WholeOn
<1>2. Bounded(w, G)
  BY FiniteBounded
<1>3. (\E x \in T : \A y \in T : x <= y) /\ (\E x \in T : \A y \in T : x >= y)
  <2>1. PICK a \in G : \A p \in G : w[a] <= w[p]
    BY <1>2 DEF Bounded
  <2>2. PICK b \in G : \A p \in G : w[b] >= w[p]
    BY <1>2 DEF Bounded
  <2> HIDE DEF w
  <2>3. a[2] \in T /\ \A y \in T : a[2] <= y
    BY <1>1, <2>1
  <2>4. b[2] \in T /\ \A y \in T : b[2] >= y
    BY <1>1, <2>2
  <2> QED
    BY <2>3, <2>4
<1>4. /\ Sta!Min(T) \in T /\ \A y \in T : Sta!Min(T) <= y
      /\ Sta!Max(T) \in T /\ \A y \in T : Sta!Max(T) >= y
  BY <1>3 DEF Sta!Min, Sta!Max
<1> HIDE DEF w
<1>5. T \subseteq Int /\ \A p \in G : w[p] \in T
  BY <1>1
<1>6. \A p \in G : Sta!Min(T) <= w[p] /\ w[p] <= Sta!Max(T)
  <2> SUFFICES ASSUME NEW p \in G PROVE Sta!Min(T) <= w[p] /\ w[p] <= Sta!Max(T)
    OBVIOUS
  <2>1. w[p] \in T /\ w[p] \in Int /\ Sta!Max(T) \in Int
    BY <1>4, <1>5
  <2>2. Sta!Min(T) <= w[p] /\ Sta!Max(T) >= w[p]
    BY <1>4, <2>1
  <2> QED
    BY <2>1, <2>2
<1>7. Sta!Min(T) \in Int /\ Sta!Max(T) \in Int /\ WholeOn(w, G)
  BY <1>4, <1>5 DEF w
<1>8. Cardinality(G) * Sta!Min(T) <= Sigma(w, G) /\ Sigma(w, G) <= Cardinality(G) * Sta!Max(T)
  BY <1>6, <1>7, SumBounds
<1> QED
  BY <1>8 DEF w

(* The categories at the top: all of them, or none of the others is more. *)
LEMMA TopOf ==
  ASSUME IsFiniteSet(statsGot["byType"]), \A p \in statsGot["byType"] : p[2] \in Int,
         NEW top \in Sta!TopCategories
  PROVE  /\ Len(top) < TopLimit => Sta!ToSet(top) = statsGot["byType"]
         /\ \A pair \in statsGot["byType"] \ Sta!ToSet(top) : \A i \in DOMAIN top :
              pair[2] <= top[i][2]
<1> DEFINE S == statsGot["byType"]
<1>1. PICK s \in Sta!SetToSeqs(S) :
        /\ \A i \in 1..(Len(s) - 1) : s[i][2] >= s[i + 1][2]
        /\ top = SubSeq(s, 1, IF Len(s) < TopLimit THEN Len(s) ELSE TopLimit)
  BY DEF Sta!TopCategories
<1>2. Listing(s, S)
  <2>1. s \in [1..Cardinality(S) -> S] /\ \A i, j \in 1..Cardinality(S) : i # j => s[i] # s[j]
    BY ReportCardinality DEF Sta!SetToSeqs
  <2> HIDE DEF S
  <2>2. IsFiniteSet(S)
    BY DEF S
  <2> QED
    BY <2>1, <2>2, ListingOf
<1> DEFINE n == Len(s)
           m == IF n < TopLimit THEN n ELSE TopLimit
<1>3. n \in Nat /\ s \in Seq(S) /\ \A x \in S : \E i \in 1..n : s[i] = x
  BY <1>2 DEF Listing
<1>4. TopLimit \in Nat /\ m \in 0..n
  BY <1>3, ReportAssumption
<1>5. /\ top = SubSeq(s, 1, m) /\ Len(top) = m /\ DOMAIN top = 1..m
      /\ \A i \in 1..m : top[i] = s[i]
  BY <1>1, <1>3, <1>4, FirstOf
<1>6. Sta!ToSet(top) = {s[i] : i \in 1..m}
  BY <1>5 DEF Sta!ToSet
<1>7. \A i \in 1..n : s[i] \in S /\ s[i][2] \in Int
  BY <1>3
<1>8. ASSUME Len(top) < TopLimit PROVE Sta!ToSet(top) = S
  <2>1. m = n
    BY <1>3, <1>4, <1>5, <1>8
  <2> HIDE DEF m, n, S
  <2> QED
    BY <2>1, <1>3, <1>6, <1>7
<1>9. ASSUME NEW pair \in S \ Sta!ToSet(top), NEW i \in DOMAIN top PROVE pair[2] <= top[i][2]
  <2>1. PICK j \in 1..n : s[j] = pair
    BY <1>3, <1>9
  <2>2. i \in 1..n /\ i \in 1..m /\ i < j
    <3>1. j \notin 1..m
      BY <1>6, <1>9, <2>1
    <3>2. i \in 1..m
      BY <1>5, <1>9
    <3> HIDE DEF m, n
    <3> QED
      BY <1>3, <1>4, <3>1, <3>2
  <2> DEFINE R == {p \in (1..n) \X (1..n) : s[p[1]][2] >= s[p[2]][2]}
  <2>3. Follows(R, n)
    <3>1. \A k \in 1..(n - 1) : k \in 1..n /\ k + 1 \in 1..n
      BY <1>3
    <3> QED
      BY <1>1, <3>1 DEF Follows
  <2>4. Carries(R, n)
    <3>1. ASSUME NEW a \in 1..n, NEW b \in 1..n, NEW c \in 1..n, <<a, b>> \in R, <<b, c>> \in R
          PROVE  <<a, c>> \in R
      <4>1. s[a][2] >= s[b][2] /\ s[b][2] >= s[c][2]
        BY <3>1
      <4>2. \A x, y, z \in Int : x >= y /\ y >= z => x >= z
        OBVIOUS
      <4>3. s[a][2] >= s[c][2]
        BY <1>7, <4>1, <4>2
      <4> QED
        BY <4>3
    <3> QED
      BY <3>1 DEF Carries
  <2> HIDE DEF R
  <2>5. <<i, j>> \in R
    BY <1>3, <2>1, <2>2, <2>3, <2>4, Throughout
  <2>6. s[i][2] >= s[j][2]
    BY <2>5 DEF R
  <2>7. top[i] = s[i] /\ s[i][2] \in Int /\ s[j][2] \in Int
    BY <1>5, <1>7, <2>2
  <2> QED
    BY <2>1, <2>6, <2>7
<1> QED
  BY <1>8, <1>9

LEMMA Groupings ==
  ASSUME EntriesType, NEW E \in SUBSET Sta!All, NEW k, NEW G, G = Groups(Spent, E, k)
  PROVE  /\ IsFiniteSet(G) /\ WholeOn(Second(G), G)
         /\ Sigma(Second(G), G) = Sigma(Spent, E) /\ Sta!SumOf(G) = Sigma(Spent, E)
         /\ \A p \in G : p[2] \in Int
<1>1. IsFiniteSet(E) /\ WholeOn(Spent, E)
  BY SpentType
<1>2. IsFiniteSet(G) /\ WholeOn(Second(G), G) /\ Sigma(Second(G), G) = Sigma(Spent, E)
  BY <1>1, GroupSums
<1>3. Sta!SumOf(G) = Sigma(Spent, E)
  BY <1>2, ReportSumOf
<1>4. \A p \in G : p[2] \in Int
  BY <1>2 DEF WholeOn, Second
<1> QED
  BY <1>2, <1>3, <1>4

NothingBelow == \A e \in Sta!All : Sta!CostOf(e) >= 0

LEMMA SpentBelow ==
  ASSUME EntriesType, NothingBelow, NEW A \in SUBSET Sta!All, NEW B \in SUBSET A
  PROVE  Sigma(Spent, B) <= Sigma(Spent, A) /\ Sigma(Spent, A) >= 0
<1>1. IsFiniteSet(A) /\ WholeOn(Spent, A) /\ A \in SUBSET A
  BY SpentType
<1>2. \A x \in A : Spent[x] >= 0
  BY PartsOfAll DEF Spent, NothingBelow
<1>3. Sigma(Spent, B) <= Sigma(Spent, A)
  BY <1>1, <1>2, SumOfLess
<1>4. {} \in SUBSET A
  OBVIOUS
<1>5. Sigma(Spent, {}) <= Sigma(Spent, A) /\ Sigma(Spent, {}) = 0
  BY <1>1, <1>2, <1>4, SumOfLess, SumNone
<1>6. Sigma(Spent, A) \in Int
  BY <1>1, SumType
<1> QED
  BY <1>3, <1>5, <1>6

(* Fuel without a cost counts for nothing, and with it is in the total. *)
LEMMA FuelWithin ==
  ASSUME EntriesType, NothingBelow
  PROVE  Sigma(Spent, Fuelled) <= Sigma(Spent, Paid)
<1> DEFINE B == Fuelled \cap Paid
           C == Fuelled \ B
<1>1. IsFiniteSet(Fuelled) /\ WholeOn(Spent, Fuelled)
  BY SpentType, PartsOfAll
<1>2. Sigma(Spent, Fuelled) = Sigma(Spent, B) + Sigma(Spent, C)
  <2>1. B \in SUBSET Fuelled /\ Fuelled \in SUBSET Fuelled
    OBVIOUS
  <2> QED
    BY <1>1, <2>1, SumOfPart
<1>3. Sigma(Spent, C) = 0
  <2>1. C \in SUBSET Fuelled
    OBVIOUS
  <2>2. \A e \in C : Spent[e] = 0
    BY PartsOfAll DEF Spent, Sta!CostOf, Fuelled, Paid, Sta!Costly
  <2> HIDE DEF C
  <2> QED
    BY <1>1, <2>1, <2>2, SumOfNothing
<1>4. Sigma(Spent, B) <= Sigma(Spent, Paid) /\ Sigma(Spent, B) \in Int
  <2>1. B \in SUBSET Paid /\ B \in SUBSET Fuelled
    OBVIOUS
  <2> QED
    BY <1>1, <2>1, SpentBelow, PartsOfAll, SumType
<1> QED
  BY <1>2, <1>3, <1>4

(* The stations that are still there hold a part. *)
LEMMA NamesWithin ==
  ASSUME EntriesType, NothingBelow, NEW G, G = Groups(Spent, Served, StationKey), NEW N \in SUBSET G
  PROVE  Sta!SumOf(N) <= Sigma(Spent, Paid)
<1>1. /\ IsFiniteSet(G) /\ WholeOn(Second(G), G) /\ Sigma(Second(G), G) = Sigma(Spent, Served)
  BY Groupings, PartsOfAll
<1>2. \A p \in G : Second(G)[p] >= 0
  <2> SUFFICES ASSUME NEW p \in G PROVE Second(G)[p] >= 0
    OBVIOUS
  <2>1. PICK x : p = <<x, Sigma(Spent, Fibre(StationKey, Served, x))>>
    BY DEF Groups
  <2>2. Fibre(StationKey, Served, x) \in SUBSET Sta!All /\ {} \in SUBSET Fibre(StationKey, Served, x)
    BY PartsOfAll DEF Fibre
  <2>3. Sigma(Spent, Fibre(StationKey, Served, x)) >= 0
    BY <2>2, SpentBelow
  <2> QED
    BY <2>1, <2>3 DEF Second
<1>3. Sigma(Second(G), N) <= Sigma(Second(G), G)
  <2>1. G \in SUBSET G
    OBVIOUS
  <2> QED
    BY <1>1, <1>2, <2>1, SumOfLess
<1>4. Sta!SumOf(N) = Sigma(Second(G), N)
  <2>1. IsFiniteSet(N) /\ WholeOn(Second(N), N) /\ Alike(Second(N), Second(G), N)
    BY <1>1, FS_Subset DEF WholeOn, Second, Alike
  <2> QED
    BY <2>1, SumSame, ReportSumOf
<1>5. Sigma(Spent, Served) <= Sigma(Spent, Paid)
  <2>1. Served \in SUBSET Paid
    BY DEF Served
  <2> QED
    BY <2>1, SpentBelow, PartsOfAll
<1>6. /\ Sigma(Second(G), N) \in Int /\ Sigma(Spent, Served) \in Int /\ Sigma(Spent, Paid) \in Int
  <2>1. IsFiniteSet(Sta!All) /\ WholeOn(Spent, Sta!All)
    <3>1. Sta!All \in SUBSET Sta!All
      OBVIOUS
    <3> QED
      BY <3>1, SpentType
  <2> QED
    BY <1>1, <2>1, SumType, PartsOfAll
<1> QED
  BY <1>1, <1>3, <1>4, <1>5, <1>6

LEMMA ReportPromises == ReportInv => Sta!TypeOK /\ Sta!ReportAddsUp
<1> SUFFICES ASSUME ReportInv, statsPc = 12, statsChanges = 0
             PROVE  LET total == Sta!SumOf(statsGot["byType"]) IN
               /\ Sta!SumOf(statsGot["byMonth"]) = total
               /\ statsGot["byMonth"] # {} =>
                    LET months == Sta!Cardinality(statsGot["byMonth"]) IN
                    months * Sta!CheapestMonth <= total /\ total <= months * Sta!MostExpensiveMonth
               /\ \A top \in Sta!TopCategories :
                    /\ Len(top) < TopLimit => Sta!SumOf(Sta!ToSet(top)) = total
                    /\ \A pair \in statsGot["byType"] \ Sta!ToSet(top) : \A i \in DOMAIN top :
                         pair[2] <= top[i][2]
               /\ (\A e \in Sta!All : Sta!CostOf(e) >= 0)
                    => /\ Sta!SumOf(statsGot["fuel"]) <= total
                       /\ Sta!SumOf(statsGot["names"]) <= total
               /\ (query.period = "all" /\ statsGot["info"].since = Null) => statsGot["tco"] = total
  BY QueryNames DEF ReportInv, Sta!ReportAddsUp
<1>1. /\ EntriesType
      /\ statsGot["byType"] = Groups(Spent, Paid, TypeKey)
      /\ statsGot["byMonth"] = Groups(Spent, Paid, MonthKey)
      /\ statsGot["fuel"] = Groups(Spent, Fuelled, FuelKey)
      /\ statsGot["byStation"] = Groups(Spent, Served, StationKey)
      /\ statsGot["info"].since = Null => statsGot["tco"] = Sigma(Spent, AllPaid)
      /\ statsGot["names"] \subseteq statsGot["byStation"]
  BY ReportTypeIs DEF ReportInv, AnswersStand
<1> DEFINE total == Sta!SumOf(statsGot["byType"])
           T == statsGot["byType"]
           M == statsGot["byMonth"]
<1>2. total = Sigma(Spent, Paid) /\ IsFiniteSet(T) /\ \A p \in T : p[2] \in Int
  BY <1>1, Groupings, PartsOfAll
<1>3. /\ Sta!SumOf(M) = Sigma(Spent, Paid) /\ Sigma(Second(M), M) = Sigma(Spent, Paid)
      /\ IsFiniteSet(M) /\ WholeOn(Second(M), M)
  BY <1>1, Groupings, PartsOfAll
<1>4. Sta!SumOf(statsGot["fuel"]) = Sigma(Spent, Fuelled)
  BY <1>1, Groupings, PartsOfAll
<1>5. ASSUME M # {}
      PROVE  /\ Sta!Cardinality(M) * Sta!CheapestMonth <= total
             /\ total <= Sta!Cardinality(M) * Sta!MostExpensiveMonth
  <2>1. Cardinality(M) * Sta!CheapestMonth <= Sigma(Second(M), M)
        /\ Sigma(Second(M), M) <= Cardinality(M) * Sta!MostExpensiveMonth
    <3> DEFINE A == {pair[2] : pair \in M}
    <3>1. Sta!CheapestMonth = Sta!Min(A) /\ Sta!MostExpensiveMonth = Sta!Max(A)
      BY DEF Sta!CheapestMonth, Sta!MostExpensiveMonth
    <3>2. A = {pair[2] : pair \in M}
      OBVIOUS
    <3> HIDE DEF A
    <3> QED
      BY <1>3, <1>5, <3>1, <3>2, MonthsBound
  <2> QED
    BY <2>1, <1>2, <1>3, ReportCardinality
<1>6. ASSUME NEW top \in Sta!TopCategories
      PROVE  /\ Len(top) < TopLimit => Sta!SumOf(Sta!ToSet(top)) = total
             /\ \A pair \in T \ Sta!ToSet(top) : \A i \in DOMAIN top : pair[2] <= top[i][2]
  BY <1>2, TopOf
<1>7. ASSUME \A e \in Sta!All : Sta!CostOf(e) >= 0
      PROVE  Sta!SumOf(statsGot["fuel"]) <= total /\ Sta!SumOf(statsGot["names"]) <= total
  <2>1. NothingBelow
    BY <1>7 DEF NothingBelow
  <2> QED
    BY <2>1, <1>1, <1>2, <1>4, FuelWithin, NamesWithin
<1>8. ASSUME query.period = "all" PROVE AllPaid = Paid
  <2>1. Sta!Period = Null
    BY <1>8 DEF Sta!Period
  <2>2. Inside = Sta!All
    BY <2>1 DEF Inside, Sta!Between
  <2> QED
    BY <2>2 DEF AllPaid, Paid
<1> QED
  BY <1>1, <1>2, <1>3, <1>5, <1>6, <1>7, <1>8

-----------------------------------------------------------------------------
(* The dashboard                                                           *)

LEMMA DashAssumption ==
  /\ IsFiniteSet(Vehicles) /\ IsFiniteSet(EventIds) /\ IsFiniteSet(ReminderIds)
  /\ IsFiniteSet(IntervalIds)
  /\ Day \in Nat \ {0} /\ Month \in Nat \ {0} /\ Year \in Nat \ {0} /\ KmPerMonth \in Nat \ {0}
  /\ UpcomingLimit \in Nat \ {0} /\ MaxDay \in Nat /\ MaxChanges \in Nat
  /\ Year % Month = 0 /\ Odometers \subseteq Nat
  /\ \A r \in EventRows : r.date \in Int /\ r.cost \in Int \cup {Null} /\ r.expire \in Int \cup {Null}
  /\ \A r \in ReminderRows \cup IntervalRows : r.date \in Int \cup {Null} /\ r.mileage \in Int \cup {Null}
<1>1. Da!ConstantsAssumption
  BY ServicesAssumption
<1>2. IsFiniteSet(Vehicles \cup EventIds \cup ReminderIds \cup IntervalIds)
  BY <1>1 DEF Da!ConstantsAssumption, IsFiniteSet, Da!IsFiniteSet
<1>3. /\ IsFiniteSet(Vehicles) /\ IsFiniteSet(EventIds) /\ IsFiniteSet(ReminderIds)
      /\ IsFiniteSet(IntervalIds)
  BY <1>2, FS_Subset
<1>4. /\ \A r \in EventRows : r.date \in Int /\ r.cost \in Int \cup {Null} /\ r.expire \in Int \cup {Null}
      /\ \A r \in ReminderRows \cup IntervalRows : r.date \in Int \cup {Null} /\ r.mileage \in Int \cup {Null}
  BY <1>1 DEF Da!ConstantsAssumption
<1>5. /\ Day \in Nat \ {0} /\ Month \in Nat \ {0} /\ Year \in Nat \ {0} /\ KmPerMonth \in Nat \ {0}
      /\ UpcomingLimit \in Nat \ {0} /\ MaxDay \in Nat /\ MaxChanges \in Nat
      /\ Year % Month = 0 /\ Odometers \subseteq Nat
  BY <1>1 DEF Da!ConstantsAssumption
<1> QED
  BY <1>3, <1>4, <1>5

LEMMA DashCardinality == \A S : Da!Cardinality(S) = Cardinality(S)
BY DEF Cardinality, Da!Cardinality

FactsType == facts \in [EventIds -> EventRows \cup {Null}]

AllFacts == {e \in EventIds : facts[e] # Null}

Costs == [e \in EventIds |-> Da!CostOf(e)]

LEMMA CostsType == FactsType => \A E \in SUBSET AllFacts : IsFiniteSet(E) /\ WholeOn(Costs, E)
<1> SUFFICES ASSUME FactsType, NEW E \in SUBSET AllFacts PROVE IsFiniteSet(E) /\ WholeOn(Costs, E)
  OBVIOUS
<1>1. E \subseteq EventIds
  BY DEF AllFacts
<1>2. ASSUME NEW e \in E PROVE Costs[e] \in Int
  <2>1. e \in EventIds /\ facts[e] \in EventRows
    BY <1>1 DEF AllFacts, FactsType
  <2> QED
    BY <2>1, DashAssumption DEF Costs, Da!CostOf
<1> QED
  BY <1>1, <1>2, DashAssumption, FS_Subset DEF WholeOn

LEMMA DashTotal ==
  ASSUME FactsType, NEW E \in SUBSET AllFacts
  PROVE  Da!Total(E) = Sigma(Costs, E)
<1> DEFINE F(it) == [s \in SUBSET E |-> IF s = {} THEN 0
                       ELSE LET x == CHOOSE x \in s : TRUE IN Da!CostOf(x) + it[s \ {x}]]
           P(it) == it = F(it)
           g == CHOOSE it : P(it)
<1>1. Da!Total(E) = g[E]
  BY DEF Da!Total, Da!MapThenSumSet, Da!MapThenFoldSet
<1>2. IsFiniteSet(E) /\ WholeOn(Costs, E) /\ E \in SUBSET EventIds
  BY CostsType DEF AllFacts
<1>3. ASSUME NEW it PROVE P(it) <=> AddsUp(it, Costs, E)
  <2> DEFINE H == [s \in SUBSET E |-> IF s = {} THEN 0
                     ELSE LET x == CHOOSE x \in s : TRUE IN Costs[x] + it[s \ {x}]]
  <2>1. ASSUME NEW s \in SUBSET E PROVE F(it)[s] = H[s]
    <3> DEFINE x == CHOOSE x \in s : TRUE
    <3>1. CASE s = {}
      BY <3>1
    <3>2. CASE s # {}
      <4>1. x \in EventIds
        BY <1>2, <3>2
      <4>2. Costs[x] = Da!CostOf(x)
        BY <4>1 DEF Costs
      <4>3. F(it)[s] = Da!CostOf(x) + it[s \ {x}] /\ H[s] = Costs[x] + it[s \ {x}]
        BY <3>2
      <4> QED
        BY <4>2, <4>3
    <3> QED
      BY <3>1, <3>2
  <2>2. F(it) = H
    <3>1. F(it) = [s \in SUBSET E |-> F(it)[s]] /\ H = [s \in SUBSET E |-> H[s]]
      OBVIOUS
    <3> HIDE DEF F, H
    <3> QED
      BY <2>1, <3>1
  <2>3. AddsUp(it, Costs, E) <=> it = H
    BY DEF AddsUp
  <2> HIDE DEF F, H
  <2> QED
    BY <2>2, <2>3
<1>4. PICK it : AddsUp(it, Costs, E)
  BY <1>2, SumSolves
<1> HIDE DEF P
<1>5. P(g)
  BY <1>3, <1>4
<1> HIDE DEF g
<1>6. AddsUp(g, Costs, E)
  BY <1>3, <1>5
<1> QED
  BY <1>1, <1>2, <1>6, SumFound

LEMMA DashSumOver ==
  ASSUME NEW f, NEW E, E = DOMAIN f, IsFiniteSet(E), WholeOn(f, E)
  PROVE  Da!SumOver(f) = Sigma(f, E)
<1> DEFINE P(it) == it = [s \in SUBSET E |-> IF s = {} THEN 0
                       ELSE LET x == CHOOSE x \in s : TRUE IN f[x] + it[s \ {x}]]
           g == CHOOSE it : P(it)
<1>1. Da!SumOver(f) = g[E]
  BY DEF Da!SumOver, Da!MapThenSumSet, Da!MapThenFoldSet
<1>2. ASSUME NEW it PROVE P(it) <=> AddsUp(it, f, E)
  BY DEF AddsUp
<1>3. PICK it : AddsUp(it, f, E)
  BY SumSolves
<1> HIDE DEF P
<1>4. P(g)
  BY <1>2, <1>3
<1> HIDE DEF g
<1>5. AddsUp(g, f, E)
  BY <1>2, <1>4
<1> QED
  BY <1>1, <1>5, SumFound

-----------------------------------------------------------------------------
(* What a card shows next is due if anything is: due is what has fewer     *)
(* than no months left, by its date or by its mileage.                     *)

LEMMA LeftType ==
  ASSUME NEW r \in IntervalRows, NEW km \in Int, dashNow \in Int
  PROVE  /\ Da!Candidates(r, km) \subseteq Int
         /\ (\E x \in Da!Candidates(r, km) : x < 0) <=> Da!IsDue(r, km, dashNow)
         /\ Da!Candidates(r, km) # {} =>
              /\ Da!Min(Da!Candidates(r, km)) \in Da!Candidates(r, km)
              /\ \A x \in Da!Candidates(r, km) : Da!Min(Da!Candidates(r, km)) <= x
<1> DEFINE C == Da!Candidates(r, km)
           A == {(r.date - dashNow) * KmPerMonth : x \in {r.date} \ {Null}}
           B == {(r.mileage - km) * Month : x \in {r.mileage} \ {Null, 0}}
<1>1. C = A \cup B
  BY DEF Da!Candidates
<1>2. r.date \in Int \cup {Null} /\ r.mileage \in Int \cup {Null}
      /\ KmPerMonth \in Nat \ {0} /\ Month \in Nat \ {0}
  BY DashAssumption
<1>3. \A x \in Int, k \in Nat \ {0} : x * k \in Int /\ (x * k < 0 <=> x < 0)
  OBVIOUS
<1>4. ASSUME r.date # Null
      PROVE  /\ A = {(r.date - dashNow) * KmPerMonth} /\ (r.date - dashNow) * KmPerMonth \in Int
             /\ (r.date - dashNow) * KmPerMonth < 0 <=> r.date < dashNow
  <2>1. r.date - dashNow \in Int /\ (r.date - dashNow < 0 <=> r.date < dashNow)
    BY <1>2, <1>4
  <2>2. A = {(r.date - dashNow) * KmPerMonth}
    BY <1>4
  <2> DEFINE d == r.date - dashNow
  <2> HIDE DEF d
  <2>3. d * KmPerMonth \in Int /\ (d * KmPerMonth < 0 <=> d < 0)
    BY <1>2, <1>3, <2>1 DEF d
  <2> QED
    BY <2>1, <2>2, <2>3 DEF d
<1>5. r.date = Null => A = {}
  OBVIOUS
<1>6. ASSUME r.mileage \notin {Null, 0}
      PROVE  /\ B = {(r.mileage - km) * Month} /\ (r.mileage - km) * Month \in Int
             /\ (r.mileage - km) * Month < 0 <=> r.mileage < km
  <2>1. r.mileage - km \in Int /\ (r.mileage - km < 0 <=> r.mileage < km)
    BY <1>2, <1>6
  <2>2. B = {(r.mileage - km) * Month}
    BY <1>6
  <2> DEFINE d == r.mileage - km
  <2> HIDE DEF d
  <2>3. d * Month \in Int /\ (d * Month < 0 <=> d < 0)
    BY <1>2, <1>3, <2>1 DEF d
  <2> QED
    BY <2>1, <2>2, <2>3 DEF d
<1>7. r.mileage \in {Null, 0} => B = {}
  OBVIOUS
<1> HIDE DEF A, B
<1>8. IsFiniteSet(A) /\ IsFiniteSet(B)
  <2>1. \A x : IsFiniteSet({x})
    BY FS_Singleton
  <2> QED
    BY <1>4, <1>5, <1>6, <1>7, <2>1, FS_EmptySet
<1>9. IsFiniteSet(C) /\ C \subseteq Int
  <2>1. IsFiniteSet(A \cup B)
    BY <1>8, FS_Union
  <2>2. A \subseteq Int /\ B \subseteq Int
    BY <1>4, <1>5, <1>6, <1>7
  <2> QED
    BY <1>1, <2>1, <2>2
<1>10. (\E x \in C : x < 0) <=> Da!IsDue(r, km, dashNow)
  <2>1. (\E x \in A : x < 0) <=> (r.date # Null /\ r.date < dashNow)
    BY <1>4, <1>5
  <2>2. (\E x \in B : x < 0) <=> (r.mileage \notin {Null, 0} /\ r.mileage < km)
    BY <1>6, <1>7
  <2>3. (\E x \in C : x < 0) <=> (\E x \in A : x < 0) \/ (\E x \in B : x < 0)
    BY <1>1
  <2> QED
    BY <2>1, <2>2, <2>3 DEF Da!IsDue
<1> HIDE DEF C
<1>11. ASSUME C # {} PROVE Da!Min(C) \in C /\ \A x \in C : Da!Min(C) <= x
  <2> DEFINE w == [x \in C |-> x]
  <2>1. WholeOn(w, C)
    BY <1>9 DEF WholeOn
  <2>2. \A x \in C : w[x] = x
    OBVIOUS
  <2> HIDE DEF w
  <2>3. Bounded(w, C)
    BY <1>9, <1>11, <2>1, FiniteBounded
  <2>4. \E x \in C : \A y \in C : x <= y
    BY <2>2, <2>3 DEF Bounded
  <2> QED
    BY <2>4 DEF Da!Min
<1> QED
  BY <1>9, <1>10, <1>11 DEF C

LEMMA PickDue ==
  ASSUME NEW R \in SUBSET IntervalRows, NEW km \in Int, dashNow \in Int,
         NEW next \in Da!PickNearestMaintenance(R, km),
         NEW r \in R, Da!IsDue(r, km, dashNow)
  PROVE  Da!IsDue(next, km, dashNow)
<1> DEFINE Left(x) == Da!Candidates(x, km)
           scored == {x \in R : Left(x) # {}}
<1>1. PICK c \in Left(r) : c < 0
  BY LeftType
<1>2. r \in scored /\ R # {} /\ scored # {}
  BY <1>1
<1>3. next \in scored /\ \A other \in scored : Da!Min(Left(next)) <= Da!Min(Left(other))
  BY <1>2 DEF Da!PickNearestMaintenance
<1>4. next \in IntervalRows /\ r \in IntervalRows /\ Left(next) # {} /\ Left(r) # {}
  BY <1>2, <1>3
<1> HIDE DEF scored
<1>5. /\ Left(next) \subseteq Int /\ Da!Min(Left(next)) \in Left(next)
      /\ Left(r) \subseteq Int /\ Da!Min(Left(r)) \in Left(r) /\ Da!Min(Left(r)) <= c
  BY <1>1, <1>4, LeftType
<1>6. Da!Min(Left(next)) <= Da!Min(Left(r))
  BY <1>2, <1>3
<1>7. Da!Min(Left(next)) \in Int /\ Da!Min(Left(r)) \in Int /\ c \in Int
  BY <1>1, <1>5
<1>8. Da!Min(Left(next)) < 0
  BY <1>1, <1>5, <1>6, <1>7
<1> QED
  BY <1>4, <1>5, <1>8, LeftType

(* The document that is shown next: of the latest ones the first to expire *)
LEMMA NearestTells ==
  ASSUME IsFiniteSet(dashGot["documents"]), \A d \in dashGot["documents"] : d.expire \in Int,
         NEW v, NEW doc \in Da!BuildNearestDocument(v)
  PROVE  LET R == {d \in dashGot["documents"] : d.vehicle = v} IN
         IF R = {} THEN doc = Null
         ELSE /\ doc \in R
              /\ \A d \in R : d.document = doc.document => d.expire <= doc.expire
              /\ \A d \in R : \E e \in R : e.document = d.document /\ e.expire >= doc.expire
              /\ \A d \in R : (\A e \in R : e.document = d.document => e.expire <= d.expire)
                                => doc.expire <= d.expire
<1> DEFINE R == {d \in dashGot["documents"] : d.vehicle = v}
           latest == {d \in R : \A other \in R : other.document = d.document => other.expire <= d.expire}
<1>1. R = {} => doc = Null
  BY DEF Da!BuildNearestDocument
<1>2. ASSUME R # {}
      PROVE  doc \in latest /\ \A other \in latest : doc.expire <= other.expire
  BY <1>2 DEF Da!BuildNearestDocument
<1>3. IsFiniteSet(R) /\ \A d \in R : d.expire \in Int
  BY FS_Subset
<1>4. ASSUME NEW d \in R PROVE \E e \in latest : e.document = d.document
  <2> DEFINE K == {e \in R : e.document = d.document}
             w == [e \in K |-> e.expire]
  <2>1. IsFiniteSet(K) /\ K # {} /\ WholeOn(w, K)
    BY <1>3, FS_Subset DEF WholeOn
  <2>2. \A e \in K : w[e] = e.expire
    OBVIOUS
  <2>3. Bounded(w, K)
    <3> HIDE DEF K, w
    <3> QED
      BY <2>1, FiniteBounded
  <2>4. PICK e \in K : \A y \in K : w[e] >= w[y]
    BY <2>3 DEF Bounded
  <2>5. \A y \in K : y.expire <= e.expire
    <3>1. \A y \in K : y.expire \in Int
      BY <1>3
    <3> HIDE DEF K, w
    <3> QED
      BY <2>2, <2>4, <3>1
  <2>6. e \in latest
    BY <2>5
  <2> QED
    BY <2>6
<1>5. ASSUME R # {}, NEW d \in R PROVE \E e \in R : e.document = d.document /\ e.expire >= doc.expire
  <2>1. PICK e \in latest : e.document = d.document
    BY <1>4, <1>5
  <2>2. doc.expire <= e.expire /\ e.expire \in Int /\ doc.expire \in Int
    BY <1>2, <1>3, <1>5
  <2> QED
    BY <2>1, <2>2
<1> QED
  BY <1>1, <1>2, <1>5

(* The list of reminders: the order is one, and what is cut off comes      *)
(* after what is shown.                                                    *)
RemindersRead ==
  /\ DOMAIN dashGot["reminders"] \subseteq ReminderIds
  /\ \A r \in DOMAIN dashGot["reminders"] :
       dashGot["reminders"][r] \in ReminderRows /\ dashGot["reminders"][r].vehicle \in Da!Asked

VehiclesRead == \A v \in Da!Asked : v \in Vehicles /\ dashGot["vehicles"][v] \in Int

Listed(row) == row \in ReminderRows /\ row.vehicle \in Da!Asked

LEMMA RankType ==
  ASSUME VehiclesRead, NEW r, Listed(r)
  PROVE  /\ Da!Rank(r) \in {1, 2, 3}
         /\ Da!Rank(r) = 1 => r.date \in Int
         /\ Da!Rank(r) = 2 => Da!Remaining(r) \in Int
<1>1. r.date \in Int \cup {Null} /\ r.mileage \in Int \cup {Null}
  BY DashAssumption DEF Listed
<1>2. dashGot["vehicles"][r.vehicle] \in Int
  BY DEF VehiclesRead, Listed
<1> QED
  BY <1>1, <1>2 DEF Da!Rank, Da!Remaining

LEMMA RankOrder ==
  ASSUME VehiclesRead, NEW a, NEW b, NEW c, Listed(a), Listed(b), Listed(c),
         Da!NotAfter(a, b)
  PROVE  /\ Da!NotAfter(b, c) => Da!NotAfter(a, c)
         /\ Da!GivesWay(b, a)
<1>1. /\ Da!Rank(a) \in {1, 2, 3} /\ Da!Rank(b) \in {1, 2, 3} /\ Da!Rank(c) \in {1, 2, 3}
      /\ Da!Rank(a) = 1 => a.date \in Int
      /\ Da!Rank(b) = 1 => b.date \in Int
      /\ Da!Rank(c) = 1 => c.date \in Int
      /\ Da!Rank(a) = 2 => Da!Remaining(a) \in Int
      /\ Da!Rank(b) = 2 => Da!Remaining(b) \in Int
      /\ Da!Rank(c) = 2 => Da!Remaining(c) \in Int
  BY RankType
<1>2. Da!NotAfter(b, c) => Da!NotAfter(a, c)
  BY <1>1 DEF Da!NotAfter
<1>3. Da!GivesWay(b, a)
  <2>1. b.date # Null => a.date # Null /\ a.date <= b.date
    BY <1>1 DEF Da!NotAfter, Da!Rank
  <2>2. Da!IsOverdue(b) => Da!Rank(a) = 1 \/ Da!IsOverdue(a)
    BY <1>1 DEF Da!NotAfter, Da!IsOverdue
  <2>3. Da!Rank(a) = 1 => a.date # Null
    BY DEF Da!Rank
  <2> QED
    BY <2>1, <2>2, <2>3 DEF Da!GivesWay
<1> QED
  BY <1>2, <1>3

ListTells ==
  LET D == DOMAIN dashGot["reminders"]
      lst == dashGot["upcoming"]
  IN /\ Len(lst) \in Nat /\ Len(lst) <= Cardinality(D)
     /\ Len(lst) < Cardinality(D) => Len(lst) = UpcomingLimit
     /\ \A r \in D \ {lst[i] : i \in DOMAIN lst} :
          /\ Len(lst) = UpcomingLimit
          /\ \A i \in DOMAIN lst :
               Da!GivesWay(dashGot["reminders"][r], dashGot["reminders"][lst[i]])

LEMMA UpcomingTells ==
  ASSUME RemindersRead, VehiclesRead, NEW lst \in Da!Upcoming
  PROVE  LET D == DOMAIN dashGot["reminders"]
         IN /\ Len(lst) \in Nat /\ Len(lst) <= Cardinality(D)
            /\ Len(lst) < Cardinality(D) => Len(lst) = UpcomingLimit
            /\ \A r \in D \ {lst[i] : i \in DOMAIN lst} :
                 /\ Len(lst) = UpcomingLimit
                 /\ \A i \in DOMAIN lst :
                      Da!GivesWay(dashGot["reminders"][r], dashGot["reminders"][lst[i]])
<1> DEFINE D == DOMAIN dashGot["reminders"]
           Row(r) == dashGot["reminders"][r]
<1>1. PICK s \in Da!SetToSeqs(D) :
        /\ \A i \in 1..(Len(s) - 1) : Da!NotAfter(Row(s[i]), Row(s[i + 1]))
        /\ lst = SubSeq(s, 1, IF Len(s) < UpcomingLimit THEN Len(s) ELSE UpcomingLimit)
  BY DEF Da!Upcoming, Da!SortRemindersByUrgency
<1>2. IsFiniteSet(D)
  BY DashAssumption, FS_Subset DEF RemindersRead
<1>3. \A r \in D : Listed(Row(r))
  BY DEF RemindersRead, Listed
<1>4. s \in [1..Cardinality(D) -> D] /\ \A i, j \in 1..Cardinality(D) : i # j => s[i] # s[j]
  BY DashCardinality DEF Da!SetToSeqs
<1> HIDE DEF D, Row
<1>5. Listing(s, D)
  BY <1>2, <1>4, ListingOf
<1> DEFINE n == Len(s)
           m == IF n < UpcomingLimit THEN n ELSE UpcomingLimit
<1>6. n \in Nat /\ s \in Seq(D) /\ n = Cardinality(D) /\ \A x \in D : \E i \in 1..n : s[i] = x
  BY <1>5 DEF Listing
<1>7. UpcomingLimit \in Nat /\ m \in 0..n
  BY <1>6, DashAssumption
<1>8. /\ lst = SubSeq(s, 1, m) /\ Len(lst) = m /\ DOMAIN lst = 1..m
      /\ \A i \in 1..m : lst[i] = s[i]
  BY <1>1, <1>6, <1>7, FirstOf
<1>9. \A i \in 1..n : s[i] \in D /\ Listed(Row(s[i]))
  BY <1>3, <1>6
<1>10. m \in Nat /\ m <= n /\ (m < n => m = UpcomingLimit)
  BY <1>6, <1>7
<1>11. ASSUME NEW r \in D \ {lst[i] : i \in DOMAIN lst}
       PROVE  /\ Len(lst) = UpcomingLimit
              /\ \A i \in DOMAIN lst : Da!GivesWay(Row(r), Row(lst[i]))
  <2>1. PICK j \in 1..n : s[j] = r
    BY <1>6, <1>11
  <2>2. j \notin 1..m
    BY <1>8, <1>11, <2>1
  <2> HIDE DEF m, n
  <2>3. m < j /\ m < n
    BY <1>6, <1>10, <2>1, <2>2
  <2> DEFINE R == {p \in (1..n) \X (1..n) : Da!NotAfter(Row(s[p[1]]), Row(s[p[2]]))}
  <2>4. Follows(R, n)
    <3>1. \A k \in 1..(n - 1) : k \in 1..n /\ k + 1 \in 1..n
      BY <1>6
    <3> QED
      BY <1>1, <3>1 DEF Follows, n
  <2>5. Carries(R, n)
    <3>1. ASSUME NEW a \in 1..n, NEW b \in 1..n, NEW c \in 1..n, <<a, b>> \in R, <<b, c>> \in R
          PROVE  <<a, c>> \in R
      <4>1. Da!NotAfter(Row(s[a]), Row(s[b])) /\ Da!NotAfter(Row(s[b]), Row(s[c]))
        BY <3>1
      <4>2. Listed(Row(s[a])) /\ Listed(Row(s[b])) /\ Listed(Row(s[c]))
        BY <1>9
      <4>3. Da!NotAfter(Row(s[a]), Row(s[c]))
        BY <4>1, <4>2, RankOrder
      <4> QED
        BY <4>3
    <3> QED
      BY <3>1 DEF Carries
  <2>6. ASSUME NEW i \in 1..m
        PROVE  Da!GivesWay(Row(r), Row(lst[i]))
    <3>1. i \in 1..n /\ i < j
      BY <1>6, <1>10, <2>1, <2>3
    <3>2. <<i, j>> \in R
      <4> HIDE DEF R
      <4> QED
        BY <1>6, <2>1, <2>4, <2>5, <3>1, Throughout
    <3>3. Da!NotAfter(Row(s[i]), Row(s[j])) /\ Listed(Row(s[i])) /\ Listed(Row(s[j]))
      BY <1>9, <2>1, <3>1, <3>2
    <3>4. Da!GivesWay(Row(s[j]), Row(s[i]))
      BY <3>3, RankOrder
    <3> QED
      BY <1>8, <2>1, <3>4
  <2> QED
    BY <1>8, <1>10, <2>3, <2>6
<1> QED
  BY <1>6, <1>8, <1>10, <1>11 DEF D, Row

-----------------------------------------------------------------------------
(* A year begins with one of its months. *)

LEMMA WholeMonths == \A k \in Nat : Year * k = Month * ((Year \div Month) * k)
<1>1. /\ Month \in Nat \ {0} /\ Year \in Nat \ {0} /\ Year % Month = 0
  BY DashAssumption
<1>2. Year = Month * (Year \div Month) /\ Year \div Month \in Int
  BY <1>1
<1>3. \A a, b, k \in Int : (a * b) * k = a * (b * k)
  OBVIOUS
<1> DEFINE q == Year \div Month
<1> HIDE DEF q
<1>4. ASSUME NEW k \in Nat PROVE (Month * q) * k = Month * (q * k)
  BY <1>1, <1>2, <1>3 DEF q
<1> QED
  BY <1>2, <1>4 DEF q

LEMMA Division ==
  ASSUME NEW n \in Int, NEW d \in Int, d > 0
  PROVE  n = d * (n \div d) + (n % d) /\ n \div d \in Int /\ n % d \in 0..(d - 1)
OBVIOUS

LEMMA StartsInOrder ==
  ASSUME dashNow \in Nat
  PROVE  /\ Da!Start(Year) \in Int /\ Da!Start(Month) \in Int
         /\ Da!Start(Year) <= Da!Start(Month)
<1>1. /\ Month \in Nat \ {0} /\ Year \in Nat \ {0}
  BY DashAssumption
<1>2. ASSUME NEW d \in Nat \ {0}
      PROVE  /\ dashNow \div d \in Nat /\ dashNow % d \in 0..(d - 1)
             /\ dashNow = d * (dashNow \div d) + (dashNow % d)
  <2>1. dashNow \div d \in Nat
    OBVIOUS
  <2>2. dashNow % d \in 0..(d - 1)
    OBVIOUS
  <2>3. dashNow \in Int /\ d \in Int /\ d > 0
    OBVIOUS
  <2>4. dashNow = d * (dashNow \div d) + (dashNow % d)
    BY <2>3, Division, Zenon
  <2> QED
    BY <2>1, <2>2, <2>4
<1> DEFINE y == dashNow \div Year
           m == dashNow \div Month
           q == Year \div Month
           x == q * y
<1>3. y \in Nat /\ m \in Nat /\ q \in Int /\ x \in Int
  <2>1. y \in Nat /\ m \in Nat
    BY <1>1, <1>2
  <2>2. \A a, b \in Int : b > 0 => a \div b \in Int
    OBVIOUS
  <2>3. q \in Int
    BY <1>1, <2>2
  <2>4. \A a, b \in Int : a * b \in Int
    OBVIOUS
  <2> QED
    BY <2>1, <2>3, <2>4
<1>4. Da!Start(Year) = Year * y /\ Da!Start(Month) = Month * m
  <2> DEFINE a == dashNow % Year
             b == dashNow % Month
  <2>1. dashNow = Year * y + a /\ a \in Int /\ Year * y \in Int
    BY <1>1, <1>2
  <2>2. dashNow = Month * m + b /\ b \in Int /\ Month * m \in Int
    BY <1>1, <1>2
  <2>3. Da!Start(Year) = dashNow - a /\ Da!Start(Month) = dashNow - b
    BY DEF Da!Start
  <2> HIDE DEF a, b, y, m
  <2>4. \A u, v, w \in Int : u = v + w => u - w = v
    OBVIOUS
  <2> QED
    BY <2>1, <2>2, <2>3, <2>4
<1>5. Year * y = Month * x
  BY <1>3, WholeMonths
<1>6. /\ Month * x <= dashNow /\ dashNow < Month * (m + 1)
  <2>1. dashNow % Year \in Nat /\ dashNow = Year * y + (dashNow % Year)
    BY <1>1, <1>2
  <2>2. dashNow % Month \in 0..(Month - 1) /\ dashNow = Month * m + (dashNow % Month)
    BY <1>1, <1>2
  <2>3. Month * m \in Int /\ Month * x \in Int /\ Month * (m + 1) = Month * m + Month
    <3>1. \A a \in Nat \ {0}, b \in Int : a * b \in Int /\ a * (b + 1) = a * b + a
      OBVIOUS
    <3> HIDE DEF m, x
    <3> QED
      BY <1>1, <1>3, <3>1
  <2> DEFINE a == Month * m
             b == Month * x
             c == dashNow % Month
             d == dashNow % Year
             e == Month * (m + 1)
  <2>4. a \in Int /\ b \in Int /\ e = a + Month
    BY <2>3
  <2>6. c \in 0..(Month - 1) /\ d \in Nat /\ dashNow = a + c
    BY <2>1, <2>2
  <2>7. Year * y = b
    BY <1>5
  <2>8. dashNow = b + d
    BY <2>1, <2>7, Zenon
  <2> HIDE DEF a, b, c, d, e
  <2>5. b <= dashNow /\ dashNow < e
    BY <2>4, <2>6, <2>8, <1>1
  <2> QED
    BY <2>5 DEF b, e
<1>7. x <= m
  <2>1. \A k \in Nat \ {0}, a, b, n \in Int : k * a <= n /\ n < k * (b + 1) => a <= b
    <3>1. SUFFICES ASSUME NEW k \in Nat \ {0}, NEW a \in Int, NEW b \in Int, NEW n \in Int,
                          k * a <= n, n < k * (b + 1), ~(a <= b)
                   PROVE  FALSE
      OBVIOUS
    <3>2. a - (b + 1) \in Nat
      BY <3>1
    <3>3. k * (a - (b + 1)) >= 0 /\ k * (a - (b + 1)) = k * a - k * (b + 1)
      <4>1. \A i, j \in Nat : i * j >= 0
        OBVIOUS
      <4>2. \A i, j, l \in Int : i * (j - l) = i * j - i * l
        OBVIOUS
      <4> QED
        BY <3>2, <4>1, <4>2
    <3>4. k * a \in Int /\ k * (b + 1) \in Int
      OBVIOUS
    <3> QED
      BY <3>1, <3>3, <3>4
  <2> HIDE DEF x, m
  <2> QED
    BY <1>1, <1>3, <1>6, <2>1
<1>8. \A k \in Nat \ {0}, a, b \in Int : a <= b => k * a <= k * b /\ k * a \in Int /\ k * b \in Int
  <2>1. SUFFICES ASSUME NEW k \in Nat \ {0}, NEW a \in Int, NEW b \in Int, a <= b
                 PROVE  k * a <= k * b /\ k * a \in Int /\ k * b \in Int
    OBVIOUS
  <2>2. b - a \in Nat
    BY <2>1
  <2>3. k * (b - a) >= 0 /\ k * (b - a) = k * b - k * a
    <3>1. \A i, j \in Nat : i * j >= 0
      OBVIOUS
    <3>2. \A i, j, l \in Int : i * (j - l) = i * j - i * l
      OBVIOUS
    <3> QED
      BY <2>2, <3>1, <3>2
  <2> QED
    BY <2>3
<1> HIDE DEF x, y, m
<1> QED
  BY <1>1, <1>3, <1>4, <1>5, <1>7, <1>8

-----------------------------------------------------------------------------
(* What the steps have yielded, as long as nothing changed *)

Owned == Da!EventsOf(Da!Live)
OnOrAfter == {e \in Owned : facts[e].date >= Da!Start(Month)}
ThisMonth ==
  {e \in Owned : facts[e].date \in Da!Start(Month)..dashNow /\ facts[e].type \notin Da!Excluded}
ThisYear ==
  {e \in Owned : facts[e].date \in Da!Start(Year)..dashNow /\ facts[e].type \notin Da!Excluded}
CarOf == [e \in EventIds |-> facts[e].vehicle]

(* The insurance of v runs out at x, which is when its latest does. *)
Insured(v, x) ==
  /\ x \in Int /\ x # Null
  /\ \E d \in Da!DocumentsOf({v}) : d.document = "INSURANCE_OC" /\ d.expire = x
  /\ \A d \in Da!DocumentsOf({v}) :
       d.document = "INSURANCE_OC" => d.expire \in Int /\ d.expire <= x

FiguresStand ==
  /\ dashPc > 1 => Da!Asked = Da!Live
  /\ dashPc > 2 => /\ DOMAIN dashGot["expenses"] = Da!Live
                   /\ \A v \in Da!Live :
                        dashGot["expenses"][v] = Sigma(Costs, Fibre(CarOf, OnOrAfter, v))
  /\ dashPc > 3 => \A v \in Da!Live :
                     dashGot["insurance"][v] # Null => Insured(v, dashGot["insurance"][v])
  /\ dashPc > 4 => /\ DOMAIN dashGot["count"] = Da!Live
                   /\ \A v \in Da!Live : dashGot["count"][v] = Cardinality(Da!RemindersOf({v}))
  /\ dashPc > 7 => \A v \in Da!Live :
                     dashGot["cards"].insurance[v] = "EXPIRED"
                       => \E x \in Int : Insured(v, x) /\ x < dashNow
  /\ dashPc > 8 => dashGot["documents"] = {d \in Da!DocumentsOf(Da!Live) : d.expire # Null}
  /\ dashPc > 9 => dashGot["month"] = Sigma(Costs, ThisMonth)
  /\ dashPc > 10 => dashGot["year"] = Sigma(Costs, ThisYear)
  /\ dashPc > 11 => DOMAIN dashGot["reminders"] = Da!RemindersOf(Da!Live)

(* Whatever changed: what the answer is made from is well typed, and each  *)
(* list follows from what was read for it.                                 *)
MaintenanceRead ==
  \A v \in Da!Asked : dashGot["maintenance"][v] \subseteq IntervalRows

DueShown ==
  \A v \in Da!Asked :
    (\E r \in dashGot["maintenance"][v] : Da!IsDue(r, dashGot["vehicles"][v], dashGot["cards"].at))
      => Da!IsDue(dashGot["cards"].next[v], dashGot["vehicles"][v], dashGot["cards"].at)

DocumentsRead ==
  IsFiniteSet(dashGot["documents"]) /\ \A d \in dashGot["documents"] : d.expire \in Int

NearestShown == \A v \in Da!Asked : dashGot["nearest"][v] \in Da!BuildNearestDocument(v)

AnswersFollow ==
  /\ dashPc > 1 => VehiclesRead
  /\ dashPc > 5 => MaintenanceRead
  /\ dashPc > 7 => DueShown
  /\ dashPc > 8 => DocumentsRead
  /\ dashPc > 11 => RemindersRead
  /\ dashPc > 12 => ListTells
  /\ dashPc > 13 => NearestShown

DashInv ==
  /\ Da!TypeOK
  /\ dashPc = 0 => dashGot = Da!NothingGot
  /\ AnswersFollow
  /\ dashChanges = 0 => FiguresStand

LEMMA StepNames ==
  /\ Len(Da!Steps) = 13 /\ DOMAIN Da!Steps = 1..13
  /\ Da!Steps[1] = "vehicles" /\ Da!Steps[2] = "expenses" /\ Da!Steps[3] = "insurance"
  /\ Da!Steps[4] = "count" /\ Da!Steps[5] = "maintenance" /\ Da!Steps[6] = "refuels"
  /\ Da!Steps[7] = "cards" /\ Da!Steps[8] = "documents" /\ Da!Steps[9] = "month"
  /\ Da!Steps[10] = "year" /\ Da!Steps[11] = "reminders" /\ Da!Steps[12] = "upcoming"
  /\ Da!Steps[13] = "nearest"
BY DEF Da!Steps

LEMMA StepsDiffer == \A i, j \in 1..13 : Da!Steps[i] = Da!Steps[j] => i = j
<1> SUFFICES ASSUME NEW i \in 1..13, NEW j \in 1..13, Da!Steps[i] = Da!Steps[j] PROVE i = j
  OBVIOUS
<1>1. /\ i \in {1, 2, 3, 4, 5, 6, 7, 8, 9, 10, 11, 12, 13}
      /\ j \in {1, 2, 3, 4, 5, 6, 7, 8, 9, 10, 11, 12, 13}
  OBVIOUS
<1> QED
  BY <1>1, StepNames

LEMMA StepDomain ==
  /\ DOMAIN Da!NothingGot = {Da!Steps[i] : i \in 1..13}
  /\ \A i \in 1..13 : Da!Steps[i] \in DOMAIN Da!NothingGot /\ Da!NothingGot[Da!Steps[i]] = Null
BY StepNames DEF Da!NothingGot

LEMMA DashTypeIs ==
  Da!TypeOK <=>
    /\ odos \in [Vehicles -> Odometers \cup {Null}]
    /\ FactsType
    /\ reminders \in [ReminderIds -> ReminderRows \cup {Null}]
    /\ intervals \in [IntervalIds -> IntervalRows \cup {Null}]
    /\ dashNow \in 0..MaxDay /\ dashPc \in 0..14 /\ dashChanges \in 0..MaxChanges
    /\ DOMAIN dashGot = DOMAIN Da!NothingGot
    /\ \A i \in 1..13 : dashPc \in 1..i => dashGot[Da!Steps[i]] = Null
BY StepNames DEF Da!TypeOK, FactsType

LEMMA DashInitInv == Da!Init => DashInv
<1> SUFFICES ASSUME Da!Init PROVE DashInv
  OBVIOUS
<1>1. dashPc = 0 /\ dashGot = Da!NothingGot /\ dashChanges = 0 /\ dashNow = 0
  BY DEF Da!Init
<1>2. /\ odos \in [Vehicles -> Odometers \cup {Null}]
      /\ FactsType
      /\ reminders \in [ReminderIds -> ReminderRows \cup {Null}]
      /\ intervals \in [IntervalIds -> IntervalRows \cup {Null}]
  BY DEF Da!Init, FactsType
<1>3. Da!TypeOK
  BY <1>1, <1>2, DashTypeIs, DashAssumption
<1> QED
  BY <1>1, <1>3 DEF DashInv, AnswersFollow, FiguresStand

LEMMA OwnedFacts ==
  /\ Owned \in SUBSET AllFacts /\ OnOrAfter \in SUBSET AllFacts
  /\ ThisMonth \in SUBSET AllFacts /\ ThisYear \in SUBSET AllFacts
BY DEF Owned, OnOrAfter, ThisMonth, ThisYear, AllFacts, Da!EventsOf

-----------------------------------------------------------------------------
(* What each step yields *)

LEMMA ExpensesYield ==
  ASSUME FactsType, NEW v \in Da!Live
  PROVE  Da!MonthlyExpenses(v) = Sigma(Costs, Fibre(CarOf, OnOrAfter, v))
<1>1. {e \in Da!EventsOf({v}) : facts[e].date >= Da!Start(Month)} = Fibre(CarOf, OnOrAfter, v)
  BY DEF Da!EventsOf, Fibre, CarOf, OnOrAfter, Owned
<1>2. Fibre(CarOf, OnOrAfter, v) \in SUBSET AllFacts
  BY OwnedFacts DEF Fibre
<1> QED
  BY <1>1, <1>2, DashTotal DEF Da!MonthlyExpenses

LEMMA SumsYield ==
  ASSUME FactsType, Da!Asked = Da!Live
  PROVE  /\ Da!FindExpensesSum(Da!Start(Month)) = Sigma(Costs, ThisMonth)
         /\ Da!FindExpensesSum(Da!Start(Year)) = Sigma(Costs, ThisYear)
<1>1. Da!FindExpensesSum(Da!Start(Month)) = Da!Total(ThisMonth)
  BY DEF Da!FindExpensesSum, ThisMonth, Owned
<1>2. Da!FindExpensesSum(Da!Start(Year)) = Da!Total(ThisYear)
  BY DEF Da!FindExpensesSum, ThisYear, Owned
<1> QED
  BY <1>1, <1>2, OwnedFacts, DashTotal

LEMMA FactsFinite == \A V : IsFiniteSet(Da!DocumentsOf(V))
<1> SUFFICES ASSUME NEW V PROVE IsFiniteSet(Da!DocumentsOf(V))
  OBVIOUS
<1> DEFINE E == {f \in Da!EventsOf(V) : facts[f].document # Null}
           g == [e \in E |-> facts[e]]
<1>1. IsFiniteSet(E)
  <2>1. E \subseteq EventIds
    BY DEF Da!EventsOf
  <2> QED
    BY <2>1, DashAssumption, FS_Subset
<1>2. Da!DocumentsOf(V) = {g[e] : e \in E}
  BY DEF Da!DocumentsOf
<1> HIDE DEF E, g
<1> QED
  BY <1>1, <1>2, ImageFinite

LEMMA DocumentType ==
  ASSUME FactsType, NEW V, NEW d \in Da!DocumentsOf(V)
  PROVE  d.expire \in Int \cup {Null} /\ d.vehicle \in V
<1>1. PICK e \in EventIds : facts[e] # Null /\ facts[e] = d /\ facts[e].vehicle \in V
  BY DEF Da!DocumentsOf, Da!EventsOf
<1>2. d \in EventRows
  BY <1>1 DEF FactsType
<1> QED
  BY <1>1, <1>2, DashAssumption

LEMMA InsuranceYield ==
  ASSUME FactsType, NEW v, Da!LatestInsuranceExpireDate(v) # Null
  PROVE  Insured(v, Da!LatestInsuranceExpireDate(v))
<1> DEFINE D == {c \in Da!DocumentsOf({v}) : c.document = "INSURANCE_OC"}
           T == {d.expire : d \in D}
<1>1. Da!LatestInsuranceExpireDate(v) = IF T = {} \/ Null \in T THEN Null ELSE Da!Max(T)
  BY DEF Da!LatestInsuranceExpireDate
<1>2. T # {} /\ Null \notin T /\ Da!LatestInsuranceExpireDate(v) = Da!Max(T)
  BY <1>1
<1>3. IsFiniteSet(D) /\ D # {} /\ \A d \in D : d.expire \in Int
  <2>1. D \subseteq Da!DocumentsOf({v}) /\ D # {}
    BY <1>2
  <2>2. IsFiniteSet(D)
    BY <2>1, FactsFinite, FS_Subset
  <2>3. \A d \in D : d.expire \in T
    OBVIOUS
  <2>4. ASSUME NEW d \in D PROVE d.expire \in Int
    <3>1. d.expire \in Int \cup {Null}
      BY <2>1, DocumentType
    <3> HIDE DEF T
    <3> QED
      BY <1>2, <2>3, <3>1
  <2> QED
    BY <2>1, <2>2, <2>4
<1>4. \E x \in T : \A y \in T : x >= y
  <2> DEFINE w == [d \in D |-> d.expire]
  <2>1. WholeOn(w, D) /\ \A d \in D : w[d] = d.expire
    BY <1>3 DEF WholeOn
  <2> HIDE DEF w, D
  <2>2. Bounded(w, D)
    BY <1>3, <2>1, FiniteBounded
  <2>3. PICK b \in D : \A y \in D : w[b] >= w[y]
    BY <2>2 DEF Bounded
  <2>4. \A y \in D : b.expire >= y.expire
    BY <2>1, <2>3
  <2> QED
    BY <2>4
<1> HIDE DEF T
<1>5. Da!Max(T) \in T /\ \A y \in T : Da!Max(T) >= y
  BY <1>4 DEF Da!Max
<1>6. \A d \in D : d.expire <= Da!Max(T)
  <2> SUFFICES ASSUME NEW d \in D PROVE d.expire <= Da!Max(T)
    OBVIOUS
  <2>1. d.expire \in T /\ d.expire \in Int /\ Da!Max(T) \in Int
    BY <1>3, <1>5 DEF T
  <2> QED
    BY <1>5, <2>1
<1>7. \E d \in D : d.expire = Da!Max(T)
  BY <1>5 DEF T
<1>8. Da!Max(T) \in Int
  BY <1>3, <1>7
<1> QED
  BY <1>2, <1>3, <1>6, <1>7, <1>8 DEF Insured

LEMMA ExpiredYield ==
  ASSUME dashNow \in Int, NEW x \in Int, Da!BuildInsuranceInfo(x) = "EXPIRED", x # Null
  PROVE  x < dashNow
<1>1. Day \in Nat \ {0}
  BY DashAssumption
<1>2. Da!CeilingDays(x - dashNow) < 0
  BY DEF Da!BuildInsuranceInfo
<1> DEFINE t == x - dashNow
<1>3. t \in Int /\ -t \in Int
  OBVIOUS
<1> HIDE DEF t
<1>4. Da!CeilingDays(t) = -((-t) \div Day)
  BY DEF Da!CeilingDays
<1>5. /\ -t = Day * ((-t) \div Day) + ((-t) % Day) /\ (-t) \div Day \in Int
      /\ (-t) % Day \in 0..(Day - 1)
  BY <1>1, <1>3, Division
<1> DEFINE q == (-t) \div Day
           r == (-t) % Day
           z == -t
<1>6. q \in Int /\ r \in Nat /\ -q < 0
  <2>1. Da!CeilingDays(t) < 0
    BY <1>2 DEF t
  <2> QED
    BY <2>1, <1>1, <1>4, <1>5
<1>7. z = Day * q + r /\ z \in Int
  BY <1>3, <1>5, Zenon
<1> HIDE DEF q, r, z
<1>8. Day * q > 0
  <2>1. \A a \in Nat \ {0}, b \in Int : b > 0 => a * b > 0
    OBVIOUS
  <2>2. q > 0
    BY <1>6
  <2> QED
    BY <1>1, <1>6, <2>1, <2>2
<1>9. z > 0
  <2>1. \A a, b, c \in Int : a = b + c /\ b > 0 /\ c >= 0 => a > 0
    OBVIOUS
  <2>2. Day * q \in Int
    BY <1>1, <1>6
  <2> QED
    BY <2>1, <2>2, <1>6, <1>7, <1>8
<1>10. -t > 0
  BY <1>9 DEF z
<1> QED
  BY <1>3, <1>10 DEF t

-----------------------------------------------------------------------------
(* A step of the request *)

StepTaken(y) ==
  /\ dashPc \in 1..13 /\ dashPc' = dashPc + 1
  /\ UNCHANGED <<odos, facts, reminders, intervals, dashNow, dashChanges>>
  /\ y \in Da!Yields(Da!Steps[dashPc])
  /\ DOMAIN dashGot' = DOMAIN Da!NothingGot
  /\ dashGot'[Da!Steps[dashPc]] = y
  /\ \A i \in 1..13 : i # dashPc => dashGot'[Da!Steps[i]] = dashGot[Da!Steps[i]]

LEMMA StepTakes ==
  ASSUME DashInv, Da!Step
  PROVE  \E y : StepTaken(y)
<1>1. /\ dashPc \in 1..13 /\ dashPc' = dashPc + 1
      /\ UNCHANGED <<odos, facts, reminders, intervals, dashNow, dashChanges>>
  BY StepNames DEF Da!Step
<1>2. PICK y \in Da!Yields(Da!Steps[dashPc]) : dashGot' = [dashGot EXCEPT ![Da!Steps[dashPc]] = y]
  BY DEF Da!Step
<1>3. DOMAIN dashGot = DOMAIN Da!NothingGot
  BY DashTypeIs DEF DashInv
<1>4. \A i \in 1..13 : Da!Steps[i] \in DOMAIN dashGot
  BY <1>3, StepDomain
<1>5. /\ DOMAIN dashGot' = DOMAIN Da!NothingGot
      /\ dashGot'[Da!Steps[dashPc]] = y
      /\ \A i \in 1..13 : i # dashPc => dashGot'[Da!Steps[i]] = dashGot[Da!Steps[i]]
  BY <1>1, <1>2, <1>3, <1>4, StepsDiffer
<1> QED
  BY <1>1, <1>2, <1>5 DEF StepTaken

(* What is read stays. *)
LEMMA StepKeeps ==
  ASSUME NEW y, StepTaken(y)
  PROVE  /\ dashPc > 1 => dashGot'["vehicles"] = dashGot["vehicles"] /\ Da!Asked' = Da!Asked
         /\ dashPc > 2 => dashGot'["expenses"] = dashGot["expenses"]
         /\ dashPc > 3 => dashGot'["insurance"] = dashGot["insurance"]
         /\ dashPc > 4 => dashGot'["count"] = dashGot["count"]
         /\ dashPc > 5 => dashGot'["maintenance"] = dashGot["maintenance"]
         /\ dashPc > 7 => dashGot'["cards"] = dashGot["cards"]
         /\ dashPc > 8 => dashGot'["documents"] = dashGot["documents"]
         /\ dashPc > 9 => dashGot'["month"] = dashGot["month"]
         /\ dashPc > 10 => dashGot'["year"] = dashGot["year"]
         /\ dashPc > 11 => dashGot'["reminders"] = dashGot["reminders"]
         /\ dashPc > 12 => dashGot'["upcoming"] = dashGot["upcoming"]
<1>1. \A i \in 1..13 : dashPc > i => dashGot'[Da!Steps[i]] = dashGot[Da!Steps[i]]
  BY DEF StepTaken
<1>2. dashPc > 1 => dashGot'["vehicles"] = dashGot["vehicles"]
  BY <1>1, StepNames
<1> QED
  BY <1>1, <1>2, StepNames DEF Da!Asked

LEMMA StepYields ==
  ASSUME NEW y, StepTaken(y)
  PROVE  /\ dashPc = 1 => dashGot'["vehicles"] = y /\ y \in Da!Yields("vehicles")
         /\ dashPc = 2 => dashGot'["expenses"] = y /\ y \in Da!Yields("expenses")
         /\ dashPc = 3 => dashGot'["insurance"] = y /\ y \in Da!Yields("insurance")
         /\ dashPc = 4 => dashGot'["count"] = y /\ y \in Da!Yields("count")
         /\ dashPc = 5 => dashGot'["maintenance"] = y /\ y \in Da!Yields("maintenance")
         /\ dashPc = 7 => dashGot'["cards"] = y /\ y \in Da!Yields("cards")
         /\ dashPc = 8 => dashGot'["documents"] = y /\ y \in Da!Yields("documents")
         /\ dashPc = 9 => dashGot'["month"] = y /\ y \in Da!Yields("month")
         /\ dashPc = 10 => dashGot'["year"] = y /\ y \in Da!Yields("year")
         /\ dashPc = 11 => dashGot'["reminders"] = y /\ y \in Da!Yields("reminders")
         /\ dashPc = 12 => dashGot'["upcoming"] = y /\ y \in Da!Yields("upcoming")
         /\ dashPc = 13 => dashGot'["nearest"] = y /\ y \in Da!Yields("nearest")
BY StepNames DEF StepTaken

LEMMA NextStep ==
  ASSUME NEW y, StepTaken(y), NEW j \in 1..13, dashPc' > j
  PROVE  dashPc = j \/ dashPc > j
BY DEF StepTaken

LEMMA DashReads ==
  ASSUME odos' = odos, facts' = facts, reminders' = reminders, dashNow' = dashNow
  PROVE  /\ Costs' = Costs /\ Da!Live' = Da!Live /\ OnOrAfter' = OnOrAfter
         /\ ThisMonth' = ThisMonth /\ ThisYear' = ThisYear /\ CarOf' = CarOf
         /\ Da!DocumentsOf(Da!Live)' = Da!DocumentsOf(Da!Live)
         /\ Da!RemindersOf(Da!Live)' = Da!RemindersOf(Da!Live)
<1>1. Da!Live' = Da!Live
  BY DEF Da!Live
<1>2. Owned' = Owned
  BY <1>1 DEF Owned, Da!EventsOf
<1>3. Costs' = Costs /\ CarOf' = CarOf
  BY DEF Costs, Da!CostOf, CarOf
<1>4. OnOrAfter' = OnOrAfter /\ ThisMonth' = ThisMonth /\ ThisYear' = ThisYear
  BY <1>2 DEF OnOrAfter, ThisMonth, ThisYear, Da!Start
<1>5. Da!DocumentsOf(Da!Live)' = Da!DocumentsOf(Da!Live)
  BY <1>1 DEF Da!DocumentsOf, Da!EventsOf
<1>6. Da!RemindersOf(Da!Live)' = Da!RemindersOf(Da!Live)
  BY <1>1 DEF Da!RemindersOf
<1> QED
  BY <1>1, <1>3, <1>4, <1>5, <1>6

LEMMA InsuredStays ==
  ASSUME NEW v, NEW x, facts' = facts
  PROVE  Insured(v, x)' <=> Insured(v, x)
BY DEF Insured, Da!DocumentsOf, Da!EventsOf

LEMMA DashTypes ==
  ASSUME DashInv
  PROVE  /\ odos \in [Vehicles -> Odometers \cup {Null}]
         /\ FactsType
         /\ reminders \in [ReminderIds -> ReminderRows \cup {Null}]
         /\ intervals \in [IntervalIds -> IntervalRows \cup {Null}]
         /\ dashNow \in Nat /\ dashPc \in 0..14 /\ dashChanges \in Nat
BY DashTypeIs, DashAssumption DEF DashInv

LEMMA VehiclesStep ==
  ASSUME DashInv, NEW y, StepTaken(y)
  PROVE  VehiclesRead' /\ (dashChanges' = 0 => Da!Asked' = Da!Live')
<1>1. CASE dashPc = 1
  <2>1. dashGot'["vehicles"] = [v \in Da!Live |-> odos[v]]
    BY <1>1, StepYields DEF Da!Yields
  <2>2. Da!Asked' = Da!Live
    BY <2>1 DEF Da!Asked
  <2>3. ASSUME NEW v \in Da!Live PROVE v \in Vehicles /\ odos[v] \in Int
    <3>1. v \in Vehicles /\ odos[v] # Null
      BY DEF Da!Live
    <3>2. odos[v] \in Odometers \cup {Null}
      BY <3>1, DashTypes
    <3>3. Odometers \subseteq Int
      BY DashAssumption
    <3> QED
      BY <3>1, <3>2, <3>3
  <2>4. Da!Live' = Da!Live
    BY DEF Da!Live, StepTaken
  <2> QED
    BY <2>1, <2>2, <2>3, <2>4 DEF VehiclesRead
<1>2. CASE dashPc > 1
  <2>1. dashGot'["vehicles"] = dashGot["vehicles"] /\ Da!Asked' = Da!Asked
    BY <1>2, StepKeeps
  <2>2. VehiclesRead /\ (dashChanges = 0 => Da!Asked = Da!Live)
    BY <1>2 DEF DashInv, AnswersFollow, FiguresStand
  <2>3. Da!Live' = Da!Live /\ dashChanges' = dashChanges
    BY DEF Da!Live, StepTaken
  <2> QED
    BY <2>1, <2>2, <2>3 DEF VehiclesRead
<1> QED
  BY <1>1, <1>2 DEF StepTaken

LEMMA MaintenanceStep ==
  ASSUME DashInv, NEW y, StepTaken(y), dashPc' > 5
  PROVE  MaintenanceRead'
<1>1. Da!Asked' = Da!Asked
  BY StepKeeps DEF StepTaken
<1>2. CASE dashPc = 5
  <2>1. dashGot'["maintenance"] = [v \in Da!Asked |-> {r \in Da!Rows(intervals) : r.vehicle = v}]
    BY <1>2, StepYields DEF Da!Yields
  <2>2. Da!Rows(intervals) \subseteq IntervalRows
    BY DashTypes DEF Da!Rows
  <2> QED
    BY <1>1, <2>1, <2>2 DEF MaintenanceRead
<1>3. CASE dashPc > 5
  <2>1. dashGot'["maintenance"] = dashGot["maintenance"] /\ MaintenanceRead
    BY <1>3, StepKeeps DEF DashInv, AnswersFollow
  <2> QED
    BY <1>1, <2>1 DEF MaintenanceRead
<1> QED
  BY <1>2, <1>3, NextStep

LEMMA DueStep ==
  ASSUME DashInv, NEW y, StepTaken(y), dashPc' > 7
  PROVE  DueShown'
<1>1. /\ Da!Asked' = Da!Asked /\ dashGot'["vehicles"] = dashGot["vehicles"]
      /\ dashGot'["maintenance"] = dashGot["maintenance"]
  BY StepKeeps DEF StepTaken
<1>2. CASE dashPc = 7
  <2>1. y \in Da!Cards /\ dashGot'["cards"] = y
    BY <1>2, StepYields DEF Da!Yields
  <2>2. y.at = dashNow
    BY <2>1 DEF Da!Cards
  <2>3. \A v \in Da!Asked :
          y.next[v] \in Da!PickNearestMaintenance(dashGot["maintenance"][v], dashGot["vehicles"][v])
    BY <2>1 DEF Da!Cards
  <2>4. MaintenanceRead /\ VehiclesRead /\ dashNow \in Int
    BY <1>2, DashTypes DEF DashInv, AnswersFollow
  <2>5. ASSUME NEW v \in Da!Asked, NEW r \in dashGot["maintenance"][v],
               Da!IsDue(r, dashGot["vehicles"][v], dashNow)
        PROVE  Da!IsDue(y.next[v], dashGot["vehicles"][v], dashNow)
    <3>1. dashGot["maintenance"][v] \in SUBSET IntervalRows /\ dashGot["vehicles"][v] \in Int
      BY <2>4 DEF MaintenanceRead, VehiclesRead
    <3> QED
      BY <2>3, <2>4, <2>5, <3>1, PickDue
  <2> QED
    BY <1>1, <2>1, <2>2, <2>5 DEF DueShown
<1>3. CASE dashPc > 7
  <2>1. dashGot'["cards"] = dashGot["cards"] /\ DueShown
    BY <1>3, StepKeeps DEF DashInv, AnswersFollow
  <2> QED
    BY <1>1, <2>1 DEF DueShown
<1> QED
  BY <1>2, <1>3, NextStep

LEMMA DocumentsStep ==
  ASSUME DashInv, NEW y, StepTaken(y), dashPc' > 8
  PROVE  /\ DocumentsRead'
         /\ dashChanges' = 0 => dashGot'["documents"] = {d \in Da!DocumentsOf(Da!Live) : d.expire # Null}
<1>1. CASE dashPc = 8
  <2>1. dashGot'["documents"] = {d \in Da!DocumentsOf(Da!Asked) : d.expire # Null}
    BY <1>1, StepYields DEF Da!Yields, Da!FindNearestDocuments
  <2>2. IsFiniteSet(dashGot'["documents"])
    <3>1. dashGot'["documents"] \subseteq Da!DocumentsOf(Da!Asked)
      BY <2>1
    <3> QED
      BY <3>1, FactsFinite, FS_Subset
  <2>3. \A d \in dashGot'["documents"] : d.expire \in Int
    BY <2>1, DashTypes, DocumentType
  <2>4. dashChanges' = 0 => Da!Asked = Da!Live
    BY <1>1 DEF DashInv, FiguresStand, StepTaken
  <2> QED
    BY <2>1, <2>2, <2>3, <2>4 DEF DocumentsRead
<1>2. CASE dashPc > 8
  <2>1. dashGot'["documents"] = dashGot["documents"] /\ DocumentsRead
    BY <1>2, StepKeeps DEF DashInv, AnswersFollow
  <2>2. dashChanges' = 0 => dashGot["documents"] = {d \in Da!DocumentsOf(Da!Live) : d.expire # Null}
    BY <1>2 DEF DashInv, FiguresStand, StepTaken
  <2> QED
    BY <2>1, <2>2 DEF DocumentsRead
<1> QED
  BY <1>1, <1>2, NextStep

LEMMA RemindersStep ==
  ASSUME DashInv, NEW y, StepTaken(y), dashPc' > 11
  PROVE  /\ RemindersRead'
         /\ dashChanges' = 0 => DOMAIN dashGot'["reminders"] = Da!RemindersOf(Da!Live)
<1>1. Da!Asked' = Da!Asked
  BY StepKeeps DEF StepTaken
<1>2. CASE dashPc = 11
  <2>1. dashGot'["reminders"] = [r \in Da!RemindersOf(Da!Asked) |-> reminders[r]]
    BY <1>2, StepYields DEF Da!Yields
  <2>2. \A r \in Da!RemindersOf(Da!Asked) :
          r \in ReminderIds /\ reminders[r] \in ReminderRows /\ reminders[r].vehicle \in Da!Asked
    BY DashTypes DEF Da!RemindersOf
  <2>3. dashChanges' = 0 => Da!Asked = Da!Live
    BY <1>2 DEF DashInv, FiguresStand, StepTaken
  <2> QED
    BY <1>1, <2>1, <2>2, <2>3 DEF RemindersRead
<1>3. CASE dashPc > 11
  <2>1. dashGot'["reminders"] = dashGot["reminders"] /\ RemindersRead
    BY <1>3, StepKeeps DEF DashInv, AnswersFollow
  <2>2. dashChanges' = 0 => DOMAIN dashGot["reminders"] = Da!RemindersOf(Da!Live)
    BY <1>3 DEF DashInv, FiguresStand, StepTaken
  <2> QED
    BY <1>1, <2>1, <2>2 DEF RemindersRead
<1> QED
  BY <1>2, <1>3, NextStep

LEMMA UpcomingStep ==
  ASSUME DashInv, NEW y, StepTaken(y), dashPc' > 12
  PROVE  ListTells'
<1>1. dashGot'["vehicles"] = dashGot["vehicles"] /\ dashGot'["reminders"] = dashGot["reminders"]
  BY StepKeeps DEF StepTaken
<1>3. CASE dashPc = 12
  <2>1. y \in Da!Upcoming /\ dashGot'["upcoming"] = y
    BY <1>3, StepYields DEF Da!Yields
  <2>2. RemindersRead /\ VehiclesRead
    BY <1>3 DEF DashInv, AnswersFollow
  <2> DEFINE D == DOMAIN dashGot["reminders"]
  <2>3. /\ Len(y) \in Nat /\ Len(y) <= Cardinality(D)
        /\ Len(y) < Cardinality(D) => Len(y) = UpcomingLimit
        /\ \A r \in D \ {y[i] : i \in DOMAIN y} :
             /\ Len(y) = UpcomingLimit
             /\ \A i \in DOMAIN y :
                  Da!GivesWay(dashGot["reminders"][r], dashGot["reminders"][y[i]])
    BY <2>1, <2>2, UpcomingTells
  <2> QED
    BY <1>1, <2>1, <2>3 DEF ListTells, Da!GivesWay, Da!IsOverdue, Da!Rank, Da!Remaining
<1>4. CASE dashPc > 12
  <2>1. dashGot'["upcoming"] = dashGot["upcoming"] /\ ListTells
    BY <1>4, StepKeeps DEF DashInv, AnswersFollow
  <2> QED
    BY <1>1, <2>1 DEF ListTells, Da!GivesWay, Da!IsOverdue, Da!Rank, Da!Remaining
<1> QED
  BY <1>3, <1>4, NextStep

LEMMA NearestStep ==
  ASSUME DashInv, NEW y, StepTaken(y), dashPc' > 13
  PROVE  NearestShown'
<1>1. dashGot'["documents"] = dashGot["documents"] /\ Da!Asked' = Da!Asked
  BY StepKeeps DEF StepTaken
<1>2. dashPc = 13
  BY DEF StepTaken
<1>3. \A v \in Da!Asked : dashGot'["nearest"][v] \in Da!BuildNearestDocument(v)
  BY <1>2, StepYields DEF Da!Yields
<1>4. ASSUME NEW v PROVE Da!BuildNearestDocument(v)' = Da!BuildNearestDocument(v)
  BY <1>1 DEF Da!BuildNearestDocument
<1> QED
  BY <1>1, <1>3, <1>4 DEF NearestShown

LEMMA SameFigures ==
  ASSUME NEW y, StepTaken(y)
  PROVE  /\ Costs' = Costs /\ Da!Live' = Da!Live /\ OnOrAfter' = OnOrAfter
         /\ ThisMonth' = ThisMonth /\ ThisYear' = ThisYear /\ CarOf' = CarOf
         /\ dashNow' = dashNow /\ facts' = facts /\ dashChanges' = dashChanges
<1>1. /\ odos' = odos /\ facts' = facts /\ reminders' = reminders /\ dashNow' = dashNow
      /\ dashChanges' = dashChanges
  BY DEF StepTaken
<1> QED
  BY <1>1, DashReads

LEMMA ExpensesStep ==
  ASSUME DashInv, NEW y, StepTaken(y), dashPc' > 2, dashChanges' = 0
  PROVE  /\ DOMAIN dashGot'["expenses"] = Da!Live
         /\ \A v \in Da!Live :
              dashGot'["expenses"][v] = Sigma(Costs, Fibre(CarOf, OnOrAfter, v))
<1>1. dashChanges = 0 /\ FiguresStand
  BY SameFigures DEF DashInv
<1>2. CASE dashPc = 2
  <2>1. dashGot'["expenses"] = [v \in Da!Asked |-> Da!MonthlyExpenses(v)]
    BY <1>2, StepYields DEF Da!Yields, Da!OnAsked
  <2>2. Da!Asked = Da!Live
    BY <1>1, <1>2 DEF FiguresStand
  <2>3. \A v \in Da!Live : Da!MonthlyExpenses(v) = Sigma(Costs, Fibre(CarOf, OnOrAfter, v))
    BY DashTypes, ExpensesYield
  <2> QED
    BY <2>1, <2>2, <2>3
<1>3. CASE dashPc > 2
  <2>1. dashGot'["expenses"] = dashGot["expenses"]
    BY <1>3, StepKeeps
  <2> QED
    BY <1>1, <1>3, <2>1 DEF FiguresStand
<1> QED
  BY <1>2, <1>3, NextStep

LEMMA InsuranceStep ==
  ASSUME DashInv, NEW y, StepTaken(y), dashPc' > 3, dashChanges' = 0
  PROVE  \A v \in Da!Live :
           dashGot'["insurance"][v] # Null => Insured(v, dashGot'["insurance"][v])
<1>1. dashChanges = 0 /\ FiguresStand
  BY SameFigures DEF DashInv
<1>2. CASE dashPc = 3
  <2>1. dashGot'["insurance"] = [v \in Da!Asked |-> Da!LatestInsuranceExpireDate(v)]
    BY <1>2, StepYields DEF Da!Yields, Da!OnAsked
  <2>2. Da!Asked = Da!Live
    BY <1>1, <1>2 DEF FiguresStand
  <2>3. \A v \in Da!Live : dashGot'["insurance"][v] = Da!LatestInsuranceExpireDate(v)
    BY <2>1, <2>2
  <2> QED
    BY <2>3, DashTypes, InsuranceYield
<1>3. CASE dashPc > 3
  <2>1. dashGot'["insurance"] = dashGot["insurance"]
    BY <1>3, StepKeeps
  <2> QED
    BY <1>1, <1>3, <2>1 DEF FiguresStand
<1> QED
  BY <1>2, <1>3, NextStep

LEMMA CountStep ==
  ASSUME DashInv, NEW y, StepTaken(y), dashPc' > 4, dashChanges' = 0
  PROVE  /\ DOMAIN dashGot'["count"] = Da!Live
         /\ \A v \in Da!Live : dashGot'["count"][v] = Cardinality(Da!RemindersOf({v}))
<1>1. dashChanges = 0 /\ FiguresStand
  BY SameFigures DEF DashInv
<1>2. CASE dashPc = 4
  <2>1. dashGot'["count"] = [v \in Da!Asked |-> Da!Cardinality(Da!RemindersOf({v}))]
    BY <1>2, StepYields DEF Da!Yields
  <2>2. Da!Asked = Da!Live
    BY <1>1, <1>2 DEF FiguresStand
  <2> QED
    BY <2>1, <2>2, DashCardinality
<1>3. CASE dashPc > 4
  <2>1. dashGot'["count"] = dashGot["count"]
    BY <1>3, StepKeeps
  <2> QED
    BY <1>1, <1>3, <2>1 DEF FiguresStand
<1> QED
  BY <1>2, <1>3, NextStep

LEMMA CardsStep ==
  ASSUME DashInv, NEW y, StepTaken(y), dashPc' > 7, dashChanges' = 0
  PROVE  \A v \in Da!Live :
           dashGot'["cards"].insurance[v] = "EXPIRED"
             => \E x \in Int : Insured(v, x) /\ x < dashNow
<1>1. dashChanges = 0 /\ FiguresStand
  BY SameFigures DEF DashInv
<1>2. CASE dashPc = 7
  <2>1. y \in Da!Cards /\ dashGot'["cards"] = y
    BY <1>2, StepYields DEF Da!Yields
  <2>2. Da!Asked = Da!Live
    BY <1>1, <1>2 DEF FiguresStand
  <2>3. \A v \in Da!Live : y.insurance[v] = Da!BuildInsuranceInfo(dashGot["insurance"][v])
    BY <2>1, <2>2 DEF Da!Cards
  <2> SUFFICES ASSUME NEW v \in Da!Live, y.insurance[v] = "EXPIRED"
               PROVE  \E x \in Int : Insured(v, x) /\ x < dashNow
    BY <2>1
  <2> DEFINE x == dashGot["insurance"][v]
  <2>4. Da!BuildInsuranceInfo(x) = "EXPIRED"
    BY <2>3
  <2>5. x # Null
    BY <2>4 DEF Da!BuildInsuranceInfo
  <2>6. Insured(v, x)
    BY <1>1, <1>2, <2>5 DEF FiguresStand
  <2>7. x \in Int
    BY <2>6 DEF Insured
  <2> HIDE DEF x
  <2>8. x < dashNow
    BY <2>4, <2>5, <2>7, DashTypes, ExpiredYield
  <2> QED
    BY <2>6, <2>7, <2>8
<1>3. CASE dashPc > 7
  <2>1. dashGot'["cards"] = dashGot["cards"]
    BY <1>3, StepKeeps
  <2> QED
    BY <1>1, <1>3, <2>1 DEF FiguresStand
<1> QED
  BY <1>2, <1>3, NextStep

LEMMA SumsStep ==
  ASSUME DashInv, NEW y, StepTaken(y), dashChanges' = 0
  PROVE  /\ dashPc' > 9 => dashGot'["month"] = Sigma(Costs, ThisMonth)
         /\ dashPc' > 10 => dashGot'["year"] = Sigma(Costs, ThisYear)
<1>1. dashChanges = 0 /\ FiguresStand
  BY SameFigures DEF DashInv
<1>2. CASE dashPc = 9
  <2>1. dashGot'["month"] = Da!FindExpensesSum(Da!Start(Month))
    BY <1>2, StepYields DEF Da!Yields
  <2>2. Da!Asked = Da!Live
    BY <1>1, <1>2 DEF FiguresStand
  <2>3. dashGot'["month"] = Sigma(Costs, ThisMonth)
    BY <2>1, <2>2, DashTypes, SumsYield
  <2> QED
    BY <1>2, <2>3 DEF StepTaken
<1>3. CASE dashPc = 10
  <2>1. dashGot'["year"] = Da!FindExpensesSum(Da!Start(Year))
    BY <1>3, StepYields DEF Da!Yields
  <2>2. Da!Asked = Da!Live
    BY <1>1, <1>3 DEF FiguresStand
  <2>3. dashGot'["year"] = Sigma(Costs, ThisYear)
    BY <2>1, <2>2, DashTypes, SumsYield
  <2>4. dashGot'["month"] = Sigma(Costs, ThisMonth)
    BY <1>1, <1>3, StepKeeps DEF FiguresStand
  <2> QED
    BY <2>3, <2>4
<1>4. CASE dashPc > 10
  <2>1. dashGot'["month"] = dashGot["month"] /\ dashGot'["year"] = dashGot["year"]
    BY <1>4, StepKeeps DEF StepTaken
  <2>2. dashGot["month"] = Sigma(Costs, ThisMonth) /\ dashGot["year"] = Sigma(Costs, ThisYear)
    BY <1>1, <1>4 DEF FiguresStand, StepTaken
  <2> QED
    BY <2>1, <2>2
<1>5. CASE dashPc < 9
  BY <1>5 DEF StepTaken
<1> QED
  BY <1>2, <1>3, <1>4, <1>5 DEF StepTaken

LEMMA FiguresStep ==
  ASSUME DashInv, NEW y, StepTaken(y), dashChanges' = 0
  PROVE  FiguresStand'
<1>1. /\ Costs' = Costs /\ Da!Live' = Da!Live /\ OnOrAfter' = OnOrAfter
      /\ ThisMonth' = ThisMonth /\ ThisYear' = ThisYear /\ CarOf' = CarOf
      /\ dashNow' = dashNow /\ facts' = facts
  BY SameFigures
<1>2. /\ reminders' = reminders /\ Da!DocumentsOf(Da!Live)' = Da!DocumentsOf(Da!Live)
      /\ Da!RemindersOf(Da!Live)' = Da!RemindersOf(Da!Live)
  BY DashReads DEF StepTaken
<1>3. \A v, x : Insured(v, x)' <=> Insured(v, x)
  BY <1>1, InsuredStays
<1>4. \A v : Da!RemindersOf({v})' = Da!RemindersOf({v})
  BY <1>2 DEF Da!RemindersOf
<1>5. Da!Asked' = Da!Live'
  BY VehiclesStep
<1>6. dashPc' > 2 => (/\ DOMAIN dashGot["expenses"] = Da!Live
                      /\ \A v \in Da!Live :
                           dashGot["expenses"][v] = Sigma(Costs, Fibre(CarOf, OnOrAfter, v)))'
  <2>1. \A v : Sigma(Costs, Fibre(CarOf, OnOrAfter, v))' = Sigma(Costs, Fibre(CarOf, OnOrAfter, v))
    BY <1>1
  <2> QED
    BY <1>1, <2>1, ExpensesStep
<1>7. dashPc' > 3 => (\A v \in Da!Live :
                       dashGot["insurance"][v] # Null => Insured(v, dashGot["insurance"][v]))'
  BY <1>1, <1>3, InsuranceStep
<1>8. dashPc' > 4 => (/\ DOMAIN dashGot["count"] = Da!Live
                      /\ \A v \in Da!Live :
                           dashGot["count"][v] = Cardinality(Da!RemindersOf({v})))'
  BY <1>1, <1>4, CountStep
<1>9. dashPc' > 7 => (\A v \in Da!Live :
                       dashGot["cards"].insurance[v] = "EXPIRED"
                         => \E x \in Int : Insured(v, x) /\ x < dashNow)'
  BY <1>1, <1>3, CardsStep
<1>10. dashPc' > 8 =>
         (dashGot["documents"] = {d \in Da!DocumentsOf(Da!Live) : d.expire # Null})'
  BY <1>2, DocumentsStep
<1>11. /\ dashPc' > 9 => (dashGot["month"] = Sigma(Costs, ThisMonth))'
       /\ dashPc' > 10 => (dashGot["year"] = Sigma(Costs, ThisYear))'
  <2>1. Sigma(Costs, ThisMonth)' = Sigma(Costs, ThisMonth)
    BY <1>1
  <2>2. Sigma(Costs, ThisYear)' = Sigma(Costs, ThisYear)
    BY <1>1
  <2> QED
    BY <2>1, <2>2, SumsStep
<1>12. dashPc' > 11 => (DOMAIN dashGot["reminders"] = Da!RemindersOf(Da!Live))'
  BY <1>2, RemindersStep
<1> QED
  BY <1>5, <1>6, <1>7, <1>8, <1>9, <1>10, <1>11, <1>12 DEF FiguresStand

LEMMA DashTypeNext ==
  ASSUME odos' \in [Vehicles -> Odometers \cup {Null}], FactsType',
         reminders' \in [ReminderIds -> ReminderRows \cup {Null}],
         intervals' \in [IntervalIds -> IntervalRows \cup {Null}],
         dashNow' \in 0..MaxDay, dashPc' \in 0..14, dashChanges' \in 0..MaxChanges,
         DOMAIN dashGot' = DOMAIN Da!NothingGot,
         \A i \in 1..13 : dashPc' \in 1..i => dashGot'[Da!Steps[i]] = Null
  PROVE  Da!TypeOK'
<1>1. Len(Da!Steps) = 13
  BY StepNames
<1> QED
  BY <1>1 DEF Da!TypeOK, FactsType

LEMMA DashStepInv ==
  ASSUME DashInv, Da!Step
  PROVE  DashInv'
<1>1. PICK y : StepTaken(y)
  BY StepTakes
<1>2. Da!TypeOK'
  <2>1. /\ odos \in [Vehicles -> Odometers \cup {Null}]
        /\ FactsType
        /\ reminders \in [ReminderIds -> ReminderRows \cup {Null}]
        /\ intervals \in [IntervalIds -> IntervalRows \cup {Null}]
        /\ dashNow \in 0..MaxDay /\ dashChanges \in 0..MaxChanges
        /\ \A i \in 1..13 : dashPc \in 1..i => dashGot[Da!Steps[i]] = Null
    BY DashTypeIs DEF DashInv
  <2>2. /\ odos' = odos /\ facts' = facts /\ reminders' = reminders /\ intervals' = intervals
        /\ dashNow' = dashNow /\ dashChanges' = dashChanges
        /\ DOMAIN dashGot' = DOMAIN Da!NothingGot /\ dashPc' \in 0..14
    BY <1>1 DEF StepTaken
  <2>3. FactsType'
    BY <2>1, <2>2 DEF FactsType
  <2>4. ASSUME NEW i \in 1..13, dashPc' \in 1..i PROVE dashGot'[Da!Steps[i]] = Null
    <3>1. dashPc \in 1..i /\ i # dashPc
      BY <1>1, <2>4 DEF StepTaken
    <3> QED
      BY <1>1, <2>1, <3>1 DEF StepTaken
  <2> QED
    BY <2>1, <2>2, <2>3, <2>4, DashTypeNext
<1>3. dashPc' # 0
  BY <1>1 DEF StepTaken
<1>4. AnswersFollow'
  BY <1>1, VehiclesStep, MaintenanceStep, DueStep, DocumentsStep, RemindersStep, UpcomingStep,
     NearestStep DEF AnswersFollow
<1>5. dashChanges' = 0 => FiguresStand'
  BY <1>1, FiguresStep
<1> QED
  BY <1>2, <1>3, <1>4, <1>5 DEF DashInv

(* What is read follows from itself, whatever the tables become. *)
LEMMA AnswersStay ==
  ASSUME dashGot' = dashGot, AnswersFollow, dashPc' = dashPc
  PROVE  AnswersFollow'
<1>1. Da!Asked' = Da!Asked
  BY DEF Da!Asked
<1>2. VehiclesRead' <=> VehiclesRead
  BY <1>1 DEF VehiclesRead
<1>3. MaintenanceRead' <=> MaintenanceRead
  BY <1>1 DEF MaintenanceRead
<1>4. DueShown' <=> DueShown
  BY <1>1 DEF DueShown, Da!IsDue
<1>5. DocumentsRead' <=> DocumentsRead
  BY DEF DocumentsRead
<1>6. RemindersRead' <=> RemindersRead
  BY <1>1 DEF RemindersRead
<1>7. ListTells' <=> ListTells
  BY DEF ListTells, Da!GivesWay, Da!IsOverdue, Da!Rank, Da!Remaining
<1>8. NearestShown' <=> NearestShown
  BY <1>1 DEF NearestShown, Da!BuildNearestDocument
<1> QED
  BY <1>2, <1>3, <1>4, <1>5, <1>6, <1>7, <1>8 DEF AnswersFollow

LEMMA DashChangeInv ==
  ASSUME DashInv, Da!Changed,
         odos' \in [Vehicles -> Odometers \cup {Null}],
         facts' \in [EventIds -> EventRows \cup {Null}],
         reminders' \in [ReminderIds -> ReminderRows \cup {Null}],
         intervals' \in [IntervalIds -> IntervalRows \cup {Null}],
         dashNow' \in 0..MaxDay
  PROVE  DashInv'
<1>1. dashPc' = dashPc /\ dashGot' = dashGot
  BY DEF Da!Changed
<1>2. /\ dashChanges \in 0..MaxChanges /\ MaxChanges \in Nat /\ dashPc \in 0..14
      /\ DOMAIN dashGot = DOMAIN Da!NothingGot
      /\ \A i \in 1..13 : dashPc \in 1..i => dashGot[Da!Steps[i]] = Null
  BY DashTypeIs, DashAssumption DEF DashInv
<1>3. dashChanges' \in 0..MaxChanges /\ (dashPc = 0 \/ dashChanges' # 0)
  BY <1>2 DEF Da!Changed
<1>4. Da!TypeOK'
  <2>1. FactsType'
    BY DEF FactsType
  <2>2. DOMAIN Da!NothingGot' = DOMAIN Da!NothingGot
    BY DEF Da!NothingGot, Da!Steps
  <2>3. \A i \in 1..13 : dashPc' \in 1..i => dashGot'[Da!Steps[i]] = Null
    BY <1>1, <1>2 DEF Da!Steps
  <2> QED
    BY <1>1, <1>2, <1>3, <2>1, <2>2, <2>3, DashTypeNext
<1>5. dashPc' = 0 => dashGot' = Da!NothingGot'
  BY <1>1 DEF DashInv, Da!NothingGot, Da!Steps
<1>6. AnswersFollow'
  BY <1>1, AnswersStay DEF DashInv
<1>7. dashChanges' = 0 => FiguresStand'
  <2>1. dashPc' = 0 => FiguresStand'
    BY DEF FiguresStand
  <2> QED
    BY <1>1, <1>3, <2>1
<1> QED
  BY <1>4, <1>5, <1>6, <1>7 DEF DashInv

LEMMA DashOpenInv ==
  ASSUME DashInv, Da!Open
  PROVE  DashInv'
<1>1. /\ dashPc = 0 /\ dashPc' = 1 /\ dashGot' = dashGot /\ dashChanges' = dashChanges
      /\ odos' = odos /\ facts' = facts /\ reminders' = reminders /\ intervals' = intervals
      /\ dashNow' = dashNow
  BY DEF Da!Open
<1>2. dashGot = Da!NothingGot
  BY <1>1 DEF DashInv
<1>3. /\ odos \in [Vehicles -> Odometers \cup {Null}]
      /\ FactsType
      /\ reminders \in [ReminderIds -> ReminderRows \cup {Null}]
      /\ intervals \in [IntervalIds -> IntervalRows \cup {Null}]
      /\ dashNow \in 0..MaxDay /\ dashChanges \in 0..MaxChanges
  BY DashTypeIs DEF DashInv
<1>4. \A i \in 1..13 : dashGot'[Da!Steps[i]] = Null
  BY <1>1, <1>2, StepDomain
<1>5. Da!TypeOK'
  <2>1. FactsType'
    BY <1>1, <1>3 DEF FactsType
  <2>2. DOMAIN dashGot' = DOMAIN Da!NothingGot /\ dashPc' \in 0..14
    BY <1>1, <1>2 DEF Da!NothingGot, Da!Steps
  <2>3. \A i \in 1..13 : dashPc' \in 1..i => dashGot'[Da!Steps[i]] = Null
    BY <1>4
  <2> QED
    BY <1>1, <1>3, <2>1, <2>2, <2>3, DashTypeNext
<1> QED
  BY <1>1, <1>5 DEF DashInv, AnswersFollow, FiguresStand

LEMMA DashReplyInv ==
  ASSUME DashInv, Da!Reply
  PROVE  DashInv'
<1>1. /\ dashPc' = 0 /\ dashGot' = Da!NothingGot /\ dashChanges' = 0
      /\ odos' = odos /\ facts' = facts /\ reminders' = reminders /\ intervals' = intervals
      /\ dashNow' = dashNow
  BY DEF Da!Reply
<1>2. Da!NothingGot' = Da!NothingGot
  BY DEF Da!NothingGot, Da!Steps
<1>3. /\ odos \in [Vehicles -> Odometers \cup {Null}]
      /\ FactsType
      /\ reminders \in [ReminderIds -> ReminderRows \cup {Null}]
      /\ intervals \in [IntervalIds -> IntervalRows \cup {Null}]
      /\ dashNow \in 0..MaxDay
  BY DashTypeIs DEF DashInv
<1>4. Da!TypeOK'
  <2>1. FactsType'
    BY <1>1, <1>3 DEF FactsType
  <2>2. dashPc' \in 0..14 /\ dashChanges' \in 0..MaxChanges
    BY <1>1, DashAssumption
  <2>3. \A i \in 1..13 : dashPc' \in 1..i => dashGot'[Da!Steps[i]] = Null
    BY <1>1
  <2> QED
    BY <1>1, <1>2, <1>3, <2>1, <2>2, <2>3, DashTypeNext
<1> QED
  BY <1>1, <1>2, <1>4 DEF DashInv, AnswersFollow, FiguresStand

LEMMA DashStutterInv ==
  ASSUME DashInv, UNCHANGED Da!vars
  PROVE  DashInv'
<1>1. /\ dashPc' = dashPc /\ dashGot' = dashGot /\ dashChanges' = dashChanges
      /\ odos' = odos /\ facts' = facts /\ reminders' = reminders /\ intervals' = intervals
      /\ dashNow' = dashNow
  BY DEF Da!vars
<1>2. Da!TypeOK' /\ (dashPc' = 0 => dashGot' = Da!NothingGot')
  BY <1>1 DEF DashInv, Da!TypeOK, Da!NothingGot, Da!Steps
<1>3. AnswersFollow'
  BY <1>1, AnswersStay DEF DashInv
<1>4. ASSUME dashChanges' = 0 PROVE FiguresStand'
  <2>1. FiguresStand
    BY <1>1, <1>4 DEF DashInv
  <2>2. /\ Costs' = Costs /\ Da!Live' = Da!Live /\ OnOrAfter' = OnOrAfter
        /\ ThisMonth' = ThisMonth /\ ThisYear' = ThisYear /\ CarOf' = CarOf
        /\ Da!DocumentsOf(Da!Live)' = Da!DocumentsOf(Da!Live)
        /\ Da!RemindersOf(Da!Live)' = Da!RemindersOf(Da!Live)
    BY <1>1, DashReads
  <2>3. \A v, x : Insured(v, x)' <=> Insured(v, x)
    BY <1>1, InsuredStays
  <2>4. \A v : Da!RemindersOf({v})' = Da!RemindersOf({v})
    BY <1>1 DEF Da!RemindersOf
  <2>5. Da!Asked' = Da!Asked
    BY <1>1 DEF Da!Asked
  <2>6. /\ Sigma(Costs, ThisMonth)' = Sigma(Costs, ThisMonth)
        /\ Sigma(Costs, ThisYear)' = Sigma(Costs, ThisYear)
        /\ \A v : Sigma(Costs, Fibre(CarOf, OnOrAfter, v))' = Sigma(Costs, Fibre(CarOf, OnOrAfter, v))
    BY <2>2
  <2> QED
    BY <1>1, <2>1, <2>2, <2>3, <2>4, <2>5, <2>6 DEF FiguresStand
<1> QED
  BY <1>2, <1>3, <1>4 DEF DashInv

LEMMA DashNextInv == DashInv /\ [Da!Next]_(Da!vars) => DashInv'
<1> SUFFICES ASSUME DashInv, [Da!Next]_(Da!vars) PROVE DashInv'
  OBVIOUS
<1>1. /\ odos \in [Vehicles -> Odometers \cup {Null}]
      /\ facts \in [EventIds -> EventRows \cup {Null}]
      /\ reminders \in [ReminderIds -> ReminderRows \cup {Null}]
      /\ intervals \in [IntervalIds -> IntervalRows \cup {Null}]
      /\ dashNow \in 0..MaxDay
  BY DashTypeIs DEF DashInv, FactsType
<1>2. CASE Da!SetEvent
  <2>1. PICK e \in EventIds, r \in EventRows \cup {Null} :
          Da!SetRow(facts, e, r) /\ facts' = [facts EXCEPT ![e] = r]
          /\ reminders' = reminders /\ intervals' = intervals
    BY <1>2 DEF Da!SetEvent
  <2>2. Da!Changed /\ odos' = odos /\ dashNow' = dashNow
    BY <2>1 DEF Da!SetRow
  <2>3. facts' \in [EventIds -> EventRows \cup {Null}]
    BY <1>1, <2>1
  <2> QED
    BY <1>1, <2>1, <2>2, <2>3, DashChangeInv
<1>3. CASE Da!SetReminder
  <2>1. PICK e \in ReminderIds, r \in ReminderRows \cup {Null} :
          Da!SetRow(reminders, e, r) /\ reminders' = [reminders EXCEPT ![e] = r]
          /\ facts' = facts /\ intervals' = intervals
    BY <1>3 DEF Da!SetReminder
  <2>2. Da!Changed /\ odos' = odos /\ dashNow' = dashNow
    BY <2>1 DEF Da!SetRow
  <2>3. reminders' \in [ReminderIds -> ReminderRows \cup {Null}]
    BY <1>1, <2>1
  <2> QED
    BY <1>1, <2>1, <2>2, <2>3, DashChangeInv
<1>4. CASE Da!SetInterval
  <2>1. PICK e \in IntervalIds, r \in IntervalRows \cup {Null} :
          Da!SetRow(intervals, e, r) /\ intervals' = [intervals EXCEPT ![e] = r]
          /\ facts' = facts /\ reminders' = reminders
    BY <1>4 DEF Da!SetInterval
  <2>2. Da!Changed /\ odos' = odos /\ dashNow' = dashNow
    BY <2>1 DEF Da!SetRow
  <2>3. intervals' \in [IntervalIds -> IntervalRows \cup {Null}]
    BY <1>1, <2>1
  <2> QED
    BY <1>1, <2>1, <2>2, <2>3, DashChangeInv
<1>5. ASSUME NEW v \in Vehicles, NEW km \in Odometers \cup {Null}, Da!SetOdometer(v, km)
      PROVE  DashInv'
  <2>1. /\ Da!Changed /\ odos' = [odos EXCEPT ![v] = km] /\ facts' = facts
        /\ reminders' = reminders /\ intervals' = intervals /\ dashNow' = dashNow
    BY <1>5 DEF Da!SetOdometer
  <2>2. odos' \in [Vehicles -> Odometers \cup {Null}]
    BY <1>1, <1>5, <2>1
  <2> QED
    BY <1>1, <2>1, <2>2, DashChangeInv
<1>6. CASE Da!Tick
  <2>1. /\ Da!Changed /\ odos' = odos /\ facts' = facts
        /\ reminders' = reminders /\ intervals' = intervals
    BY <1>6 DEF Da!Tick
  <2>2. dashNow' \in 0..MaxDay
    BY <1>1, <1>6, DashAssumption DEF Da!Tick
  <2> QED
    BY <1>1, <2>1, <2>2, DashChangeInv
<1> QED
  BY <1>2, <1>3, <1>4, <1>5, <1>6, DashOpenInv, DashStepInv, DashReplyInv, DashStutterInv DEF Da!Next

-----------------------------------------------------------------------------
(* What the answer promises *)

LEMMA ExpensesAddUp ==
  ASSUME FactsType, DOMAIN dashGot["expenses"] = Da!Live,
         \A v \in Da!Live : dashGot["expenses"][v] = Sigma(Costs, Fibre(CarOf, OnOrAfter, v))
  PROVE  Da!SumOver(dashGot["expenses"]) = Sigma(Costs, OnOrAfter)
<1> DEFINE u == dashGot["expenses"]
<1>1. IsFiniteSet(Da!Live)
  <2>1. Da!Live \in SUBSET Vehicles
    BY DEF Da!Live
  <2> QED
    BY <2>1, DashAssumption, FS_Subset
<1>2. IsFiniteSet(OnOrAfter) /\ WholeOn(Costs, OnOrAfter)
  BY OwnedFacts, CostsType
<1>3. \A e \in OnOrAfter : CarOf[e] \in Da!Live
  BY DEF OnOrAfter, Owned, Da!EventsOf, CarOf
<1>4. DOMAIN u = Da!Live /\ \A v \in Da!Live : u[v] = Sigma(Costs, Fibre(CarOf, OnOrAfter, v))
  OBVIOUS
<1> HIDE DEF u
<1>5. WholeOn(u, Da!Live) /\ Sigma(u, Da!Live) = Sigma(Costs, OnOrAfter)
  BY <1>1, <1>2, <1>3, <1>4, SumOfFibres
<1>6. Da!SumOver(u) = Sigma(u, Da!Live)
  BY <1>1, <1>4, <1>5, DashSumOver
<1> QED
  BY <1>5, <1>6 DEF u

LEMMA MonthAddsUp ==
  ASSUME FactsType, dashNow \in Nat, Da!Asked = Da!Live
  PROVE  Sigma(Costs, OnOrAfter) = Sigma(Costs, ThisMonth) + Da!Total(Da!LeftOut)
<1>1. IsFiniteSet(OnOrAfter) /\ WholeOn(Costs, OnOrAfter)
  BY OwnedFacts, CostsType
<1>2. \A e \in Owned : facts[e].date \in Int
  BY DashAssumption DEF Owned, Da!EventsOf, FactsType
<1>3. Da!Start(Month) \in Int
  BY StartsInOrder
<1>4. ThisMonth \in SUBSET OnOrAfter
  BY <1>2, <1>3 DEF ThisMonth, OnOrAfter
<1>5. Da!LeftOut = OnOrAfter \ ThisMonth
  BY <1>2, <1>3 DEF Da!LeftOut, ThisMonth, OnOrAfter, Owned
<1>6. Da!LeftOut \in SUBSET AllFacts
  BY <1>5, OwnedFacts
<1>7. OnOrAfter \in SUBSET OnOrAfter
  OBVIOUS
<1>8. Sigma(Costs, OnOrAfter) = Sigma(Costs, ThisMonth) + Sigma(Costs, OnOrAfter \ ThisMonth)
  BY <1>1, <1>4, <1>7, SumOfPart
<1> QED
  BY <1>5, <1>6, <1>8, DashTotal

LEMMA MonthWithinYear ==
  ASSUME FactsType, dashNow \in Nat, \A e \in Owned : Da!CostOf(e) >= 0
  PROVE  Sigma(Costs, ThisMonth) <= Sigma(Costs, ThisYear)
<1>1. IsFiniteSet(ThisYear) /\ WholeOn(Costs, ThisYear)
  BY OwnedFacts, CostsType
<1>2. \A e \in ThisYear : Costs[e] >= 0
  BY DEF ThisYear, Owned, Da!EventsOf, Costs
<1>3. ThisMonth \in SUBSET ThisYear
  BY StartsInOrder DEF ThisMonth, ThisYear
<1>4. ThisYear \in SUBSET ThisYear
  OBVIOUS
<1> QED
  BY <1>1, <1>2, <1>3, <1>4, SumOfLess

LEMMA CountsAddUp ==
  ASSUME DOMAIN dashGot["count"] = Da!Live,
         \A v \in Da!Live : dashGot["count"][v] = Cardinality(Da!RemindersOf({v}))
  PROVE  Da!SumOver(dashGot["count"]) = Cardinality(Da!RemindersOf(Da!Live))
<1> DEFINE u == dashGot["count"]
           E == Da!RemindersOf(Da!Live)
           w == [x \in E |-> 1]
           k == [x \in E |-> reminders[x].vehicle]
<1>1. IsFiniteSet(Da!Live)
  <2>1. Da!Live \in SUBSET Vehicles
    BY DEF Da!Live
  <2> QED
    BY <2>1, DashAssumption, FS_Subset
<1>2. IsFiniteSet(E)
  <2>1. E \in SUBSET ReminderIds
    BY DEF Da!RemindersOf
  <2> HIDE DEF E
  <2> QED
    BY <2>1, DashAssumption, FS_Subset
<1>3. \A x \in E : k[x] \in Da!Live
  BY DEF Da!RemindersOf
<1>4. WholeOn(w, E)
  BY DEF WholeOn
<1>5. ASSUME NEW v \in Da!Live PROVE u[v] = Sigma(w, Fibre(k, E, v))
  <2> DEFINE S == Fibre(k, E, v)
             one == [x \in S |-> 1]
  <2>1. S = Da!RemindersOf({v})
    BY <1>5 DEF Fibre, Da!RemindersOf
  <2>2. S \in SUBSET E
    BY DEF Fibre
  <2>3. Alike(one, w, S) /\ WholeOn(one, S)
    BY <2>2 DEF Alike, WholeOn
  <2>4. u[v] = Cardinality(Da!RemindersOf({v}))
    OBVIOUS
  <2> HIDE DEF S, E, w
  <2>5. IsFiniteSet(S)
    BY <1>2, <2>2, FS_Subset
  <2>6. Sigma(one, S) = Cardinality(S)
    BY <2>5, SumOfOnes
  <2> HIDE DEF one
  <2>7. Sigma(one, S) = Sigma(w, S)
    BY <2>3, <2>5, SumSame
  <2> QED
    BY <2>1, <2>4, <2>6, <2>7 DEF S
<1>6. Sigma(w, E) = Cardinality(E)
  <2> HIDE DEF E
  <2> QED
    BY <1>2, SumOfOnes
<1>7. DOMAIN u = Da!Live
  OBVIOUS
<1> HIDE DEF u, E, w, k
<1>8. WholeOn(u, Da!Live) /\ Sigma(u, Da!Live) = Sigma(w, E)
  BY <1>1, <1>2, <1>3, <1>4, <1>5, SumOfFibres
<1>9. Da!SumOver(u) = Sigma(u, Da!Live)
  BY <1>1, <1>7, <1>8, DashSumOver
<1> QED
  BY <1>6, <1>8, <1>9 DEF u, E

LEMMA ExpiredShown ==
  ASSUME DocumentsRead, dashGot["documents"] = {d \in Da!DocumentsOf(Da!Live) : d.expire # Null},
         dashNow \in Int, NEW v \in Da!Live, NEW doc \in Da!BuildNearestDocument(v),
         NEW x \in Int, Insured(v, x), x < dashNow
  PROVE  doc # Null /\ doc.expire < dashNow
<1> DEFINE R == {d \in dashGot["documents"] : d.vehicle = v}
<1>1. \A V, d : d \in Da!DocumentsOf(V) <=>
        \E e \in EventIds : /\ facts[e] # Null /\ facts[e].vehicle \in V
                            /\ facts[e].document # Null /\ facts[e] = d
  BY DEF Da!DocumentsOf, Da!EventsOf
<1>2. PICK d \in Da!DocumentsOf({v}) : d.document = "INSURANCE_OC" /\ d.expire = x
  BY DEF Insured
<1>3. d \in R
  <2>1. d \in Da!DocumentsOf(Da!Live) /\ d.vehicle = v
    BY <1>1, <1>2
  <2>2. d.expire # Null
    BY <1>2 DEF Insured
  <2> QED
    BY <2>1, <2>2
<1>4. ASSUME NEW e \in R, e.document = d.document PROVE e.expire <= d.expire
  <2>1. e \in Da!DocumentsOf({v})
    BY <1>1, <1>4
  <2> QED
    BY <1>2, <1>4, <2>1 DEF Insured
<1>5. \A e \in R : e # Null /\ e.expire \in Int
  BY <1>1 DEF DocumentsRead
<1>6. doc \in R /\ doc.expire <= d.expire
  <2>1. /\ R # {} => doc \in R
        /\ \A c \in R : (\A e \in R : e.document = c.document => e.expire <= c.expire)
                          => doc.expire <= c.expire
    BY NearestTells DEF DocumentsRead
  <2> HIDE DEF R
  <2> QED
    BY <1>3, <1>4, <2>1
<1> HIDE DEF R
<1> QED
  BY <1>2, <1>5, <1>6

LEMMA DashPromises ==
  DashInv => /\ Da!TypeOK /\ Da!OverdueShown /\ Da!RenewedNotShown
             /\ Da!OverdueListed /\ Da!FiguresAgree
<1> SUFFICES ASSUME DashInv
             PROVE  Da!OverdueShown /\ Da!RenewedNotShown /\ Da!OverdueListed /\ Da!FiguresAgree
  BY DEF DashInv
<1>1. Da!Answered => /\ dashPc = 14 /\ VehiclesRead /\ DueShown /\ DocumentsRead /\ RemindersRead
                     /\ ListTells /\ NearestShown
  BY StepNames DEF Da!Answered, DashInv, AnswersFollow
<1>2. FactsType /\ dashNow \in Nat
  BY DashTypes
<1>3. Da!OverdueShown
  BY <1>1 DEF Da!OverdueShown, DueShown
<1>4. Da!RenewedNotShown
  <2> SUFFICES ASSUME Da!Answered, NEW v \in Da!Asked
               PROVE  LET R == {d \in dashGot["documents"] : d.vehicle = v}
                          doc == dashGot["nearest"][v] IN
                      IF R = {} THEN doc = Null
                      ELSE /\ doc \in R
                           /\ \A d \in R : d.document = doc.document => d.expire <= doc.expire
                           /\ \A d \in R : \E e \in R :
                                e.document = d.document /\ e.expire >= doc.expire
    BY DEF Da!RenewedNotShown
  <2>1. IsFiniteSet(dashGot["documents"]) /\ \A d \in dashGot["documents"] : d.expire \in Int
    BY <1>1 DEF DocumentsRead
  <2>2. dashGot["nearest"][v] \in Da!BuildNearestDocument(v)
    BY <1>1 DEF NearestShown
  <2> QED
    BY <2>1, <2>2, NearestTells
<1>5. Da!OverdueListed
  BY <1>1 DEF Da!OverdueListed, ListTells
<1>6. ASSUME Da!Answered, dashChanges = 0
      PROVE  /\ Da!SumOver(dashGot["expenses"]) = dashGot["month"] + Da!Total(Da!LeftOut)
             /\ (\A e \in Da!EventsOf(Da!Asked) : Da!CostOf(e) >= 0)
                  => dashGot["month"] <= dashGot["year"]
             /\ Len(dashGot["upcoming"]) <= Da!SumOver(dashGot["count"])
             /\ Len(dashGot["upcoming"]) < Da!SumOver(dashGot["count"])
                  => Len(dashGot["upcoming"]) = UpcomingLimit
             /\ \A v \in Da!Asked :
                  dashGot["cards"].insurance[v] = "EXPIRED"
                    => dashGot["nearest"][v] # Null /\ dashGot["nearest"][v].expire < dashNow
  <2>1. dashPc = 14 /\ FiguresStand
    BY <1>1, <1>6 DEF DashInv
  <2>2. /\ Da!Asked = Da!Live
        /\ DOMAIN dashGot["expenses"] = Da!Live
        /\ \A v \in Da!Live : dashGot["expenses"][v] = Sigma(Costs, Fibre(CarOf, OnOrAfter, v))
        /\ DOMAIN dashGot["count"] = Da!Live
        /\ \A v \in Da!Live : dashGot["count"][v] = Cardinality(Da!RemindersOf({v}))
        /\ dashGot["documents"] = {d \in Da!DocumentsOf(Da!Live) : d.expire # Null}
        /\ dashGot["month"] = Sigma(Costs, ThisMonth) /\ dashGot["year"] = Sigma(Costs, ThisYear)
        /\ DOMAIN dashGot["reminders"] = Da!RemindersOf(Da!Live)
    BY <2>1 DEF FiguresStand
  <2>3. Da!SumOver(dashGot["expenses"]) = dashGot["month"] + Da!Total(Da!LeftOut)
    BY <1>2, <2>2, ExpensesAddUp, MonthAddsUp
  <2>4. ASSUME \A e \in Da!EventsOf(Da!Asked) : Da!CostOf(e) >= 0
        PROVE  dashGot["month"] <= dashGot["year"]
    <3>1. \A e \in Owned : Da!CostOf(e) >= 0
      BY <2>2, <2>4 DEF Owned
    <3> QED
      BY <1>2, <2>2, <3>1, MonthWithinYear
  <2>5. Da!SumOver(dashGot["count"]) = Cardinality(DOMAIN dashGot["reminders"])
    BY <2>2, CountsAddUp
  <2>6. /\ Len(dashGot["upcoming"]) <= Da!SumOver(dashGot["count"])
        /\ Len(dashGot["upcoming"]) < Da!SumOver(dashGot["count"])
             => Len(dashGot["upcoming"]) = UpcomingLimit
    BY <1>1, <1>6, <2>5 DEF ListTells
  <2>7. ASSUME NEW v \in Da!Asked, dashGot["cards"].insurance[v] = "EXPIRED"
        PROVE  dashGot["nearest"][v] # Null /\ dashGot["nearest"][v].expire < dashNow
    <3>1. v \in Da!Live /\ dashGot["nearest"][v] \in Da!BuildNearestDocument(v)
      BY <1>1, <1>6, <2>2, <2>7 DEF NearestShown
    <3>2. PICK x \in Int : Insured(v, x) /\ x < dashNow
      BY <2>1, <2>7, <3>1 DEF FiguresStand
    <3> QED
      BY <1>1, <1>2, <1>6, <2>2, <3>1, <3>2, ExpiredShown
  <2> QED
    BY <2>3, <2>4, <2>6, <2>7
<1>7. Da!FiguresAgree
  BY <1>6 DEF Da!FiguresAgree
<1> QED
  BY <1>3, <1>4, <1>5, <1>7

-----------------------------------------------------------------------------
(* What both promise of ServicesSpec *)

LEMMA DashboardStep ==
  [ServicesNext]_servicesVars => part' = part /\ (part = "dashboard" => [Da!Next]_(Da!vars))
<1>1. ASSUME UNCHANGED servicesVars PROVE part' = part /\ UNCHANGED Da!vars
  <2>1. part' = part /\ UNCHANGED dashVars
    BY <1>1 DEF servicesVars
  <2> QED
    BY <2>1 DEF dashVars, Da!vars
<1>2. ASSUME ServicesNext PROVE part' = part /\ (part = "dashboard" => Da!Next)
  BY <1>2 DEF ServicesNext, Others
<1> QED
  BY <1>1, <1>2

ReportsInv ==
  /\ part = "stats" => ReportInv
  /\ part = "dashboard" => DashInv

LEMMA ReportsInductive == ServicesSpec => []ReportsInv
<1>1. ServicesInit => ReportsInv
  BY ReportInitInv, DashInitInv DEF ServicesInit, ReportsInv
<1>2. ReportsInv /\ [ServicesNext]_servicesVars => ReportsInv'
  <2> SUFFICES ASSUME ReportsInv, [ServicesNext]_servicesVars PROVE ReportsInv'
    OBVIOUS
  <2>1. /\ part' = part /\ (part = "stats" => [Sta!Next]_(Sta!vars))
        /\ part = "dashboard" => [Da!Next]_(Da!vars)
    BY StepOfPart, DashboardStep
  <2>2. part = "stats" => ReportInv'
    BY <2>1, ReportNextInv DEF ReportsInv
  <2>3. part = "dashboard" => DashInv'
    BY <2>1, DashNextInv DEF ReportsInv
  <2> QED
    BY <2>1, <2>2, <2>3 DEF ReportsInv
<1> QED
  BY <1>1, <1>2, PTL DEF ServicesSpec

(* StatsService: in a report during which nothing changed, the categories  *)
(* and the months add up to one total, the extreme months bound it, fuel   *)
(* and stations are part of it unless a cost is negative, the categories   *)
(* shown are the largest, and the cost of ownership is the total where     *)
(* both are about everything; for any rows, costs, dates and stations.     *)
THEOREM Adding == ServicesSpec => []ReportAddsUp
<1>1. ReportsInv => ReportAddsUp
  BY ReportPromises DEF ReportsInv, ReportAddsUp
<1> QED
  BY <1>1, ReportsInductive, PTL

(* DashboardService: whatever changes while an answer is made, no interval *)
(* that is due hides behind one that is not, no renewed document is shown  *)
(* instead of one that runs out, and a reminder is left out only of a full *)
(* list: past its date, of others past theirs; overdue by its mileage, of  *)
(* any with a date and of others overdue by theirs.  Where nothing changed *)
(* meanwhile, what the vehicles cost is the month of the summary with what *)
(* the latter leaves out.                                                  *)
THEOREM Telling == ServicesSpec => []DashboardTells
<1>1. ReportsInv => DashboardTells
  BY DashPromises DEF ReportsInv, DashboardTells
<1> QED
  BY <1>1, ReportsInductive, PTL

=============================================================================
