----------------------------- MODULE Recursion ------------------------------
(***************************************************************************)
(* What the proofs need to know about functions that are defined by        *)
(* recursion on the natural numbers: such a function exists, so that its   *)
(* defining equation holds.  The steps of the recursion are a function     *)
(* too, which keeps the facts first-order.                                 *)
(***************************************************************************)
EXTENDS Integers, TLAPS, WellFoundedInduction

\* A set of natural numbers that is not empty has a least element.
LEMMA LeastNumber ==
  ASSUME NEW T \in SUBSET Nat, T # {}
  PROVE  \E x \in T : \A y \in T : x <= y
  <1>1. PICK x \in T : \A y \in T : <<y, x>> \notin OpToRel(<, Nat)
    BY NatLessThanWellFounded, WFMin
  <1>2. \A y \in T : ~(y < x)
    BY <1>1 DEF OpToRel
  <1> QED
    BY <1>2

\* f is defined up to n: the value at 0 is base, the one at k is given by
\* step from the one at the earlier place from[k].
Defined(f, n, V, base, from, step) ==
  /\ f \in [0 .. n -> V]
  /\ f[0] = base
  /\ \A k \in 1 .. n : f[k] = step[<<k, f[from[k]]>>]

\* Where two functions are defined they agree.
Agree(V, base, from, step) ==
  \A n, m \in Nat : \A f, g :
    Defined(f, n, V, base, from, step) /\ Defined(g, m, V, base, from, step)
    => \A k \in Nat : k <= n /\ k <= m => f[k] = g[k]

LEMMA DefinedAgree ==
  ASSUME NEW V, NEW base \in V,
         NEW from \in [Nat -> Nat], \A k \in Nat \ {0} : from[k] < k,
         NEW step \in [Nat \X V -> V]
  PROVE  Agree(V, base, from, step)
  <1> SUFFICES \A n, m \in Nat : \A f, g :
                 Defined(f, n, V, base, from, step) /\ Defined(g, m, V, base, from, step)
                 => \A k \in Nat : k <= n /\ k <= m => f[k] = g[k]
    BY DEF Agree
  <1> TAKE n, m \in Nat
  <1> TAKE f, g
  <1> HAVE Defined(f, n, V, base, from, step) /\ Defined(g, m, V, base, from, step)
  <1> DEFINE Differ == {x \in Nat : x <= n /\ x <= m /\ f[x] # g[x]}
  <1> SUFFICES ASSUME Differ # {} PROVE FALSE
    OBVIOUS
  <1>1. PICK x \in Differ : \A y \in Differ : x <= y
    <2>1. Differ \in SUBSET Nat
      OBVIOUS
    <2> HIDE DEF Differ
    <2> QED
      BY <2>1, LeastNumber
  <1>2. x \in Nat /\ x <= n /\ x <= m /\ f[x] # g[x]
    BY <1>1
  <1>3. x # 0
    BY <1>2 DEF Defined
  <1>4. from[x] \in Nat /\ from[x] < x
    BY <1>2, <1>3
  <1>5. f[from[x]] = g[from[x]]
    BY <1>1, <1>2, <1>4
  <1>6. x \in 1 .. n /\ x \in 1 .. m
    BY <1>2, <1>3
  <1> QED
    BY <1>2, <1>5, <1>6 DEF Defined

LEMMA DefinedExists ==
  ASSUME NEW V, NEW base \in V,
         NEW from \in [Nat -> Nat], \A k \in Nat \ {0} : from[k] < k,
         NEW step \in [Nat \X V -> V]
  PROVE  \A n \in Nat : \E f : Defined(f, n, V, base, from, step)
  <1> DEFINE Undefined == {n \in Nat : ~\E f : Defined(f, n, V, base, from, step)}
  <1> SUFFICES ASSUME Undefined # {} PROVE FALSE
    OBVIOUS
  <1>1. PICK n \in Undefined : \A m \in Undefined : n <= m
    <2>1. Undefined \in SUBSET Nat
      OBVIOUS
    <2> HIDE DEF Undefined
    <2> QED
      BY <2>1, LeastNumber
  <1>2. n \in Nat /\ \A f : ~Defined(f, n, V, base, from, step)
    BY <1>1
  <1>3. n # 0
    <2> SUFFICES ASSUME n = 0 PROVE FALSE
      OBVIOUS
    <2>1. Defined([k \in 0 .. 0 |-> base], 0, V, base, from, step)
      BY DEF Defined
    <2> QED
      BY <1>2, <2>1
  <1>4. n - 1 \in Nat /\ n - 1 \notin Undefined
    <2>1. n - 1 \in Nat /\ ~(n <= n - 1)
      BY <1>2, <1>3
    <2> HIDE DEF Undefined
    <2> QED
      BY <1>1, <2>1
  <1>5. PICK f : Defined(f, n - 1, V, base, from, step)
    BY <1>4
  <1>6. from[n] \in 0 .. n - 1
    BY <1>2, <1>3
  <1> DEFINE g == [k \in 0 .. n |-> IF k < n THEN f[k] ELSE step[<<n, f[from[n]]>>]]
  <1>7. f \in [0 .. n - 1 -> V] /\ f[0] = base
        /\ \A k \in 1 .. n - 1 : f[k] = step[<<k, f[from[k]]>>]
    BY <1>5 DEF Defined
  <1>8. step[<<n, f[from[n]]>>] \in V
    BY <1>2, <1>6, <1>7
  <1>9. g \in [0 .. n -> V] /\ g[0] = base
    BY <1>2, <1>3, <1>7, <1>8
  <1>10. ASSUME NEW k \in 1 .. n PROVE g[k] = step[<<k, g[from[k]]>>]
    <2>1. from[k] \in Nat /\ from[k] < k
      BY <1>2
    <2>2. from[k] \in 0 .. n /\ from[k] < n
      BY <1>2, <2>1
    <2>3. g[from[k]] = f[from[k]]
      BY <2>2
    <2>4. CASE k < n
      <3>1. k \in 1 .. n - 1 /\ k \in 0 .. n
        BY <1>2, <2>4
      <3>2. g[k] = f[k]
        BY <2>4, <3>1
      <3> QED
        BY <1>7, <2>3, <3>1, <3>2
    <2>5. CASE ~(k < n)
      <3>1. k = n
        BY <1>2, <2>5
      <3>2. g[n] = step[<<n, f[from[n]]>>]
        BY <1>2
      <3> QED
        BY <2>3, <3>1, <3>2
    <2> QED
      BY <2>4, <2>5
  <1>11. Defined(g, n, V, base, from, step)
    BY <1>9, <1>10 DEF Defined
  <1> QED
    BY <1>2, <1>11

\* A function on the natural numbers that is defined everywhere.
IsDefined(f, V, base, from, step) ==
  /\ f \in [Nat -> V]
  /\ f[0] = base
  /\ \A k \in Nat \ {0} : f[k] = step[<<k, f[from[k]]>>]

(***************************************************************************)
(* There is a function with the given value at 0 and the given steps.      *)
(***************************************************************************)
THEOREM RecursionExists ==
  ASSUME NEW V, NEW base \in V,
         NEW from \in [Nat -> Nat], \A k \in Nat \ {0} : from[k] < k,
         NEW step \in [Nat \X V -> V]
  PROVE  \E f : IsDefined(f, V, base, from, step)
  <1>0. Agree(V, base, from, step)
    BY DefinedAgree
  <1> DEFINE D(f, n) == Defined(f, n, V, base, from, step)
             upto(n) == CHOOSE f : D(f, n)
             f == [n \in Nat |-> upto(n)[n]]
  <1>1. \A n \in Nat : D(upto(n), n)
    <2>1. \A n \in Nat : \E h : D(h, n)
      BY DefinedExists
    <2> HIDE DEF D
    <2> QED
      BY <2>1
  <1>2. ASSUME NEW n \in Nat, NEW k \in 0 .. n PROVE upto(n)[k] = f[k]
    <2>1. k \in Nat /\ k <= n /\ k <= k
      OBVIOUS
    <2>2. PICK g, h : g = upto(n) /\ h = upto(k) /\ D(g, n) /\ D(h, k)
      BY <1>1, <2>1
    <2>3. Defined(g, n, V, base, from, step) /\ Defined(h, k, V, base, from, step)
      BY <2>2
    <2>4. g[k] = h[k]
      BY <2>1, <2>3, <1>0 DEF Agree
    <2> HIDE DEF upto
    <2> QED
      BY <2>1, <2>2, <2>4
  <1>3. \A n \in Nat : /\ upto(n) \in [0 .. n -> V] /\ upto(n)[0] = base
                       /\ \A k \in 1 .. n : upto(n)[k] = step[<<k, upto(n)[from[k]]>>]
    BY <1>1 DEF Defined
  <1> HIDE DEF upto
  <1>4. f \in [Nat -> V] /\ f[0] = base
    BY <1>3
  <1>5. ASSUME NEW k \in Nat \ {0} PROVE f[k] = step[<<k, f[from[k]]>>]
    <2>1. from[k] \in 0 .. k /\ k \in 1 .. k
      OBVIOUS
    <2>2. f[k] = step[<<k, upto(k)[from[k]]>>]
      BY <1>3, <2>1
    <2>3. upto(k)[from[k]] = f[from[k]]
      BY <1>2, <2>1
    <2> QED
      BY <2>2, <2>3
  <1> QED
    BY <1>4, <1>5 DEF IsDefined
=============================================================================
