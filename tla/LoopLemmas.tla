----------------------------- MODULE LoopLemmas -----------------------------
(***************************************************************************)
(* Induction over the naturals through a set, and the loops it serves: a   *)
(* loop of n passes is a function on 0 .. n that holds what each pass      *)
(* leaves.                                                                 *)
(***************************************************************************)
EXTENDS Integers, WellFoundedInduction, TLAPS

\* A set of naturals that is not empty has a least one.
LEMMA LeastOf ==
    ASSUME NEW T \in SUBSET Nat, T # {}
    PROVE  \E n \in T : \A m \in T : n <= m
<1>1. PICK n \in T : \A m \in T : <<m, n>> \notin OpToRel(<, Nat)
  BY NatLessThanWellFounded, WFMin
<1>2. \A m \in T : ~(m < n)
  BY <1>1 DEF OpToRel
<1>. HIDE <1>1
<1>. QED  BY <1>2

\* A set with 0 and the successor of each natural in it has them all.
LEMMA Inductive ==
    ASSUME NEW T, 0 \in T, \A n \in Nat : n \in T => n + 1 \in T
    PROVE  Nat \subseteq T
<1>. SUFFICES ASSUME Nat \ T # {} PROVE FALSE
  OBVIOUS
<1>1. PICK n \in Nat \ T : \A m \in Nat \ T : n <= m
  BY LeastOf
<1>2. n # 0 /\ n - 1 \in Nat /\ n - 1 \notin Nat \ T
  BY <1>1
<1>. QED  BY <1>1, <1>2

\* f holds what a loop of n passes over values of S has after each pass.
Loop(f, n, S, x, pass) ==
    f \in [0 .. n -> S] /\ f[0] = x /\ \A i \in 1 .. n : f[i] = pass[i][f[i - 1]]

\* There is such a function, whatever the passes do.
LEMMA LoopExists ==
    ASSUME NEW n \in Nat, NEW S, NEW x \in S, NEW pass \in [1 .. n -> [S -> S]]
    PROVE  \E f : Loop(f, n, S, x, pass)
<1>. DEFINE Runs(f, r) == f \in [0 .. r -> S] /\ f[0] = x /\ \A i \in 1 .. r : f[i] = pass[i][f[i - 1]]
            T == {r \in Nat : r <= n => \E f : Runs(f, r)}
<1>1. 0 \in T
  <2>1. Runs([i \in 0 .. 0 |-> x], 0)
    OBVIOUS
  <2>. QED  BY <2>1
<1>2. ASSUME NEW r \in Nat, r \in T PROVE r + 1 \in T
  <2>. SUFFICES ASSUME r + 1 <= n PROVE \E f : Runs(f, r + 1)
    OBVIOUS
  <2>1. PICK f : Runs(f, r)
    BY <1>2
  <2>. DEFINE h == [i \in 0 .. r + 1 |-> IF i = r + 1 THEN pass[r + 1][f[r]] ELSE f[i]]
  <2>2. pass[r + 1][f[r]] \in S
    <3>1. r + 1 \in 1 .. n /\ f[r] \in S
      BY <2>1
    <3>. QED  BY <3>1
  <2>3. h \in [0 .. r + 1 -> S]
    <3>1. \A i \in 0 .. r + 1 : i # r + 1 => i \in 0 .. r
      OBVIOUS
    <3>. QED  BY <2>1, <2>2, <3>1
  <2>4. h[0] = x
    BY <2>1
  <2>5. ASSUME NEW i \in 1 .. r + 1 PROVE h[i] = pass[i][h[i - 1]]
    <3>1. CASE i = r + 1
      <4>1. i - 1 = r /\ r \in 0 .. r + 1 /\ r # r + 1 /\ i \in 0 .. r + 1
        BY <3>1
      <4>. QED  BY <3>1, <4>1
    <3>2. CASE i # r + 1
      <4>1. i \in 1 .. r /\ i \in 0 .. r + 1 /\ i - 1 \in 0 .. r + 1 /\ i - 1 # r + 1
        BY <3>2
      <4>. QED  BY <2>1, <3>2, <4>1
    <3>. QED  BY <3>1, <3>2
  <2>. HIDE DEF h
  <2>6. Runs(h, r + 1)
    BY <2>3, <2>4, <2>5
  <2>. QED  BY <2>6
<1>3. n \in T
  <2>. HIDE DEF T
  <2>. QED  BY <1>1, <1>2, Inductive
<1>. QED  BY <1>3 DEF Loop

=============================================================================
