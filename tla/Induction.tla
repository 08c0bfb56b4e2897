----------------------------- MODULE Induction -----------------------------
(***************************************************************************)
(* Induction over the naturals and recursion on an interval, for formulas   *)
(* that are given as sets and functions: the theorems of NaturalsInduction   *)
(* take operators as parameters.                                            *)
(***************************************************************************)
EXTENDS Integers, Sequences, TLAPS, NaturalsInduction, WellFoundedInduction

\* A set of naturals that has 0 and every successor of a member has them all.
LEMMA NatSetInduction ==
  ASSUME NEW T, 0 \in T, \A n \in Nat : n \in T => n + 1 \in T
  PROVE  \A n \in Nat : n \in T
<1> DEFINE U == {n \in Nat : n \notin T}
<1> SUFFICES ASSUME U # {} PROVE FALSE
  OBVIOUS
<1>1. PICK x \in U : \A y \in U : ~ (<<y, x>> \in OpToRel(<, Nat))
  <2>1. U \subseteq Nat
    OBVIOUS
  <2> HIDE DEF U
  <2> QED BY <2>1, NatLessThanWellFounded, WFMin
<1>2. x \in Nat /\ x # 0
  OBVIOUS
<1>3. <<x - 1, x>> \in OpToRel(<, Nat) /\ x - 1 \in Nat
  BY <1>2 DEF OpToRel
<1>4. x - 1 \in T
  BY <1>1, <1>3
<1>5. (x - 1) + 1 \in T
  BY <1>3, <1>4
<1> QED BY <1>2, <1>5

\* The same up to a bound.
LEMMA IntervalInduction ==
  ASSUME NEW n \in Nat, NEW T, 0 \in T,
         \A i \in 0 .. n - 1 : i \in T => i + 1 \in T
  PROVE  \A i \in 0 .. n : i \in T
<1> DEFINE U == {i \in Nat : i <= n => i \in T}
<1>1. 0 \in U
  OBVIOUS
<1>2. ASSUME NEW i \in Nat, i \in U PROVE i + 1 \in U
  BY <1>2
<1> HIDE DEF U
<1>3. \A i \in Nat : i \in U
  BY <1>1, <1>2, NatSetInduction
<1> QED BY <1>3 DEF U

\* The same downwards.
LEMMA DownInduction ==
  ASSUME NEW n \in Nat, NEW T, n \in T,
         \A i \in 0 .. n - 1 : i + 1 \in T => i \in T
  PROVE  \A i \in 0 .. n : i \in T
<1> DEFINE U == {i \in Nat : i <= n => n - i \in T}
<1>1. 0 \in U
  OBVIOUS
<1>2. ASSUME NEW i \in 0 .. n - 1, i \in U PROVE i + 1 \in U
  <2>1. n - i \in T /\ n - (i + 1) \in 0 .. n - 1 /\ (n - (i + 1)) + 1 = n - i
    BY <1>2
  <2>2. n - (i + 1) \in T
    BY <2>1
  <2> QED BY <2>2
<1> HIDE DEF U
<1>3. \A i \in 0 .. n : i \in U
  BY <1>1, <1>2, IntervalInduction
<1> QED
  <2> SUFFICES ASSUME NEW i \in 0 .. n PROVE i \in T
    OBVIOUS
  <2>1. n - i \in 0 .. n /\ n - (n - i) = i
    OBVIOUS
  <2> QED BY <1>3, <2>1 DEF U

\* f starts at c and goes from i - 1 to i by step[i].
Recurs(f, n, S, c, step) ==
  /\ f \in [0 .. n -> S] /\ f[0] = c
  /\ \A i \in 1 .. n : f[i] = step[i][f[i - 1]]

\* There is such a function, whatever the steps.
LEMMA RecursionExists ==
  ASSUME NEW n \in Nat, NEW S, NEW c \in S, NEW step \in [1 .. n -> [S -> S]]
  PROVE  \E f : Recurs(f, n, S, c, step)
<1> DEFINE Good(f, k) == Recurs(f, k, S, c, step)
           T == {k \in 0 .. n : \E f : Good(f, k)}
<1> USE DEF Recurs
<1>1. 0 \in T
  <2> DEFINE z == [i \in 0 .. 0 |-> c]
  <2>1. z \in [0 .. 0 -> S] /\ z[0] = c
    OBVIOUS
  <2> HIDE DEF z
  <2>2. Good(z, 0)
    BY <2>1
  <2> QED BY <2>2
<1>2. ASSUME NEW k \in 0 .. n - 1, k \in T PROVE k + 1 \in T
  <2>1. PICK f : Good(f, k)
    BY <1>2
  <2> DEFINE g == [i \in 0 .. k + 1 |-> IF i <= k THEN f[i] ELSE step[k + 1][f[k]]]
  <2>2. step[k + 1][f[k]] \in S
    <3>1. f[k] \in S /\ k + 1 \in 1 .. n
      BY <2>1
    <3> QED BY <3>1
  <2>3. g \in [0 .. k + 1 -> S]
    BY <2>1, <2>2
  <2>4. g[0] = c
    BY <2>1
  <2>5. ASSUME NEW i \in 1 .. k + 1 PROVE g[i] = step[i][g[i - 1]]
    <3>1. g[i - 1] = f[i - 1]
      OBVIOUS
    <3>2. CASE i <= k
      BY <2>1, <3>1, <3>2
    <3>3. CASE i = k + 1
      BY <3>1, <3>3
    <3> QED BY <3>2, <3>3
  <2> HIDE DEF g
  <2>6. Good(g, k + 1)
    BY <2>3, <2>4, <2>5
  <2> QED BY <2>6
<1>3. n \in T
  <2>1. n \in 0 .. n
    OBVIOUS
  <2> HIDE DEF T
  <2> QED BY <1>1, <1>2, <2>1, IntervalInduction
<1> QED BY <1>3
=============================================================================
