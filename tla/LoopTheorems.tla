---------------------------- MODULE LoopTheorems ----------------------------
(***************************************************************************)
(* Loops of the program over a list, as recursive functions of the number  *)
(* of turns done: that they are defined, and induction over their turns.   *)
(***************************************************************************)
EXTENDS Integers, WellFoundedInduction, TLAPS

(* A set of numbers with no least member is empty: what an induction over  *)
(* the turns of a loop comes down to.                                      *)
LEMMA LeastNumber ==
    ASSUME NEW T \in SUBSET Nat, T # {}
    PROVE  \E k \in T : \A j \in T : k <= j
<1>1. PICK k \in T : \A j \in T : ~ (<<j, k>> \in OpToRel(<, Nat))
  BY WFMin, NatLessThanWellFounded
<1>2. \A j \in T : ~ (j < k)
  BY <1>1 DEF OpToRel
<1> QED  BY <1>2

(* A set that holds 0 and with each number below N the next one holds them *)
(* all up to N.                                                            *)
LEMMA CountingUp ==
    ASSUME NEW N \in Nat, NEW S, 0 \in S,
           \A k \in 0 .. N : k # N /\ k \in S => k + 1 \in S
    PROVE  \A k \in 0 .. N : k \in S
<1> DEFINE T == {k \in 0 .. N : k \notin S}
<1> SUFFICES ASSUME T # {} PROVE FALSE
  OBVIOUS
<1>1. T \in SUBSET Nat
  OBVIOUS
<1>2. PICK k \in T : \A j \in T : k <= j
  BY <1>1, LeastNumber
<1>3. k \in 0 .. N /\ k # 0
  OBVIOUS
<1>4. k - 1 \in 0 .. N /\ k - 1 # N /\ k - 1 \notin T
  BY <1>2, <1>3
<1>5. k - 1 \in S
  BY <1>4
<1>6. (k - 1) + 1 \in S
  BY <1>4, <1>5
<1> QED  BY <1>3, <1>6

(* A loop of N turns with its state in V is a function of the number of    *)
(* turns done.                                                             *)
IsLoop(f, N, V, start, turn) ==
    /\ f \in [0 .. N -> V]
    /\ \A n \in 0 .. N : f[n] = IF n = 0 THEN start ELSE turn[n][f[n - 1]]

LEMMA LoopExists ==
    ASSUME NEW N \in Nat, NEW V, NEW start \in V, NEW turn \in [1 .. N -> [V -> V]]
    PROVE  \E f : IsLoop(f, N, V, start, turn)
<1> DEFINE Runs(f, k) ==
             \A n \in 0 .. k : f[n] = IF n = 0 THEN start ELSE turn[n][f[n - 1]]
           S == {k \in Nat : \E f \in [0 .. k -> V] : Runs(f, k)}
<1>1. 0 \in S
  <2> DEFINE f == [n \in 0 .. 0 |-> start]
  <2>1. f \in [0 .. 0 -> V] /\ Runs(f, 0)
    OBVIOUS
  <2> QED  BY <2>1
<1>2. ASSUME NEW k \in 0 .. N, k # N, k \in S
      PROVE  k + 1 \in S
  <2>1. PICK f \in [0 .. k -> V] : Runs(f, k)
    BY <1>2
  <2> DEFINE g == [n \in 0 .. k + 1 |-> IF n = k + 1 THEN turn[n][f[k]] ELSE f[n]]
  <2>2. k \in Nat /\ k + 1 \in 1 .. N /\ k \in 0 .. k
    BY <1>2
  <2>3. turn[k + 1][f[k]] \in V
    BY <2>2
  <2>4. g \in [0 .. k + 1 -> V]
    BY <2>2, <2>3
  <2>5. ASSUME NEW n \in 0 .. k + 1
        PROVE  g[n] = IF n = 0 THEN start ELSE turn[n][g[n - 1]]
    <3>1. CASE n = k + 1
      <4>1. g[k] = f[k]
        BY <2>2
      <4> QED  BY <3>1, <4>1, <2>2
    <3>2. CASE n \in 1 .. k
      <4>1. n \in 0 .. k /\ n - 1 \in 0 .. k /\ n # k + 1 /\ n - 1 # k + 1
        BY <3>2, <2>2
      <4>2. g[n] = f[n] /\ g[n - 1] = f[n - 1]
        BY <4>1, <2>2
      <4>3. f[n] = IF n = 0 THEN start ELSE turn[n][f[n - 1]]
        BY <4>1, <2>1
      <4> QED  BY <4>2, <4>3
    <3>3. CASE n = 0
      <4>1. g[0] = f[0] /\ f[0] = start
        BY <2>1, <2>2
      <4> QED  BY <3>3, <4>1
    <3> QED  BY <2>2, <3>1, <3>2, <3>3
  <2> HIDE DEF g
  <2>6. Runs(g, k + 1)
    BY <2>5
  <2> HIDE DEF IsLoop
  <2> QED  BY <2>2, <2>4, <2>6
<1>3. N \in S
  <2> HIDE DEF S
  <2>1. \A k \in 0 .. N : k \in S
    BY <1>1, <1>2, CountingUp
  <2> QED  BY <2>1
<1> QED  BY <1>3 DEF IsLoop
=============================================================================
