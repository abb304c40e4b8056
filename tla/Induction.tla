------------------------------ MODULE Induction ------------------------------
(***************************************************************************)
(* Induction over the natural numbers, and recursive functions on them,    *)
(* stated for sets and functions.                                          *)
(***************************************************************************)
EXTENDS Integers, WellFoundedInduction, TLAPS

\* A set of natural numbers that is not empty has a least element.
LEMMA LeastOf ==
  ASSUME NEW T \in SUBSET Nat, T # {}
  PROVE  \E x \in T : \A y \in T : x <= y
<1> DEFINE R == OpToRel(<, Nat)
<1>1. IsWellFoundedOn(R, Nat)
  BY NatLessThanWellFounded
<1>2. R = {ss \in Nat \X Nat : ss[1] < ss[2]}
  BY DEF OpToRel
<1> HIDE DEF R
<1>3. PICK x \in T : \A y \in T : ~(<<y, x>> \in R)
  BY <1>1, WFMin
<1>4. ASSUME NEW y \in T PROVE x <= y
  <2>1. ~(<<y, x>> \in R) /\ x \in Nat /\ y \in Nat
    BY <1>3
  <2>2. ~(y < x)
    BY <1>2, <2>1
  <2> QED BY <2>1, <2>2
<1> QED BY <1>4

\* A set that has 0 and with every number its successor has them all.
LEMMA SetInduction ==
  ASSUME NEW S, 0 \in S, \A n \in Nat : n \in S => n + 1 \in S
  PROVE  \A n \in Nat : n \in S
<1> SUFFICES ASSUME Nat \ S # {} PROVE FALSE
  OBVIOUS
<1>1. PICK x \in Nat \ S : \A y \in Nat \ S : x <= y
  BY LeastOf
<1>2. x # 0 /\ x - 1 \in Nat /\ x - 1 \in S
  BY <1>1
<1> QED BY <1>1, <1>2

\* A set that has every number whose predecessors it has has them all.
LEMMA StrongInduction ==
  ASSUME NEW S, \A n \in Nat : (\A m \in Nat : m < n => m \in S) => n \in S
  PROVE  \A n \in Nat : n \in S
<1> SUFFICES ASSUME Nat \ S # {} PROVE FALSE
  OBVIOUS
<1>1. PICK x \in Nat \ S : \A y \in Nat \ S : x <= y
  BY LeastOf
<1>2. \A m \in Nat : m < x => m \in S
  BY <1>1
<1> QED BY <1>1, <1>2

\* f starts with base and goes on by step.
Iterates(f, T, base, step) ==
  f \in [Nat -> T] /\ f[0] = base /\ \A n \in Nat : f[n + 1] = step[<<n, f[n]>>]

\* A value at 0 and a step from each number to the next make a function.
LEMMA PrimitiveRecursion ==
  ASSUME NEW T, NEW base \in T, NEW step \in [Nat \X T -> T]
  PROVE  \E f : Iterates(f, T, base, step)
<1> DEFINE Begins(n) == {g \in [0 .. n -> T] : g[0] = base /\ \A i \in 0 .. n - 1 : g[i + 1] = step[<<i, g[i]>>]}
<1>1. ASSUME NEW n \in Nat PROVE Begins(n) # {}
  <2> DEFINE S == {k \in Nat : Begins(k) # {}}
  <2>1. 0 \in S
    <3>1. [i \in 0 .. 0 |-> base] \in Begins(0)
      OBVIOUS
    <3> QED BY <3>1
  <2>2. ASSUME NEW k \in Nat, k \in S PROVE k + 1 \in S
    <3>1. PICK g : g \in Begins(k)
      BY <2>2
    <3> DEFINE h == [i \in 0 .. k + 1 |-> IF i <= k THEN g[i] ELSE step[<<k, g[k]>>]]
    <3>2. g \in [0 .. k -> T] /\ g[0] = base /\ \A i \in 0 .. k - 1 : g[i + 1] = step[<<i, g[i]>>]
      BY <3>1
    <3>3. <<k, g[k]>> \in Nat \X T
      BY <3>2
    <3>4. h \in [0 .. k + 1 -> T]
      BY <3>2, <3>3
    <3>5. ASSUME NEW i \in 0 .. k PROVE h[i + 1] = step[<<i, h[i]>>]
      <4>1. CASE i = k
        BY <4>1
      <4>2. CASE i < k
        <5>1. i \in 0 .. k - 1 /\ i + 1 <= k /\ i + 1 \in 0 .. k + 1 /\ i \in 0 .. k + 1
          BY <4>2
        <5>2. h[i + 1] = g[i + 1] /\ h[i] = g[i]
          BY <5>1
        <5> QED BY <3>2, <5>1, <5>2
      <4> QED BY <4>1, <4>2
    <3>6. h[0] = base
      BY <3>2
    <3> HIDE DEF h
    <3>7. h \in Begins(k + 1)
      <4>1. \A i \in 0 .. (k + 1) - 1 : h[i + 1] = step[<<i, h[i]>>]
        BY <3>5
      <4> QED BY <3>4, <3>6, <4>1
    <3> QED BY <3>7
  <2> HIDE DEF S
  <2>3. n \in S
    BY <2>1, <2>2, SetInduction
  <2> QED BY <2>3 DEF S
<1>2. ASSUME NEW n \in Nat, NEW m \in Nat, NEW g \in Begins(n), NEW h \in Begins(m), NEW k \in Nat,
             k <= n, k <= m
      PROVE  g[k] = h[k]
  <2> DEFINE S == {i \in Nat : i <= n /\ i <= m => g[i] = h[i]}
  <2>1. 0 \in S
    BY <1>2
  <2>2. ASSUME NEW i \in Nat, i \in S PROVE i + 1 \in S
    <3>1. SUFFICES ASSUME i + 1 <= n, i + 1 <= m PROVE g[i + 1] = h[i + 1]
      OBVIOUS
    <3>2. g[i + 1] = step[<<i, g[i]>>] /\ h[i + 1] = step[<<i, h[i]>>]
      BY <1>2, <3>1
    <3> QED BY <2>2, <3>1, <3>2
  <2> HIDE DEF S
  <2>3. k \in S
    BY <2>1, <2>2, SetInduction
  <2> QED BY <1>2, <2>3 DEF S
<1> DEFINE part == [n \in Nat |-> CHOOSE g : g \in Begins(n)]
           f == [n \in Nat |-> part[n][n]]
<1>3. ASSUME NEW n \in Nat PROVE part[n] \in Begins(n)
  BY <1>1
<1> HIDE DEF part
<1>4. f \in [Nat -> T]
  <2>1. ASSUME NEW n \in Nat PROVE part[n][n] \in T
    BY <1>3
  <2> QED BY <2>1
<1>5. f[0] = base
  BY <1>3
<1>6. ASSUME NEW n \in Nat PROVE f[n + 1] = step[<<n, f[n]>>]
  <2>1. part[n + 1][n + 1] = step[<<n, part[n + 1][n]>>]
    BY <1>3
  <2> HIDE DEF Begins
  <2>2. part[n + 1][n] = part[n][n]
    BY <1>2, <1>3
  <2> QED BY <2>1, <2>2
<1> HIDE DEF f
<1> QED BY <1>4, <1>5, <1>6 DEF Iterates
=============================================================================
