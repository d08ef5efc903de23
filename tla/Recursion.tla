------------------------------ MODULE Recursion ------------------------------
(***************************************************************************)
(* Induction and recursion over the naturals, over sets and functions      *)
(* instead of operators.                                                   *)
(***************************************************************************)
EXTENDS Naturals, WellFoundedInduction, TLAPS

LEMMA InductionOverNat ==
    ASSUME NEW T, 0 \in T, \A n \in Nat : n \in T => n + 1 \in T
    PROVE  Nat \subseteq T
<1> SUFFICES ASSUME Nat \ T # {}
             PROVE  FALSE
  OBVIOUS
<1> DEFINE less == OpToRel(<, Nat)
<1>1. IsWellFoundedOn(less, Nat)
  BY NatLessThanWellFounded
<1> HIDE DEF less
<1>2. PICK x \in Nat \ T : \A y \in Nat \ T : ~ (<<y, x>> \in less)
  BY <1>1, WFMin
<1>3. x \in Nat /\ x \notin T /\ x # 0
  OBVIOUS
<1>4. x - 1 \in Nat /\ x - 1 < x
  BY <1>3
<1>5. <<x - 1, x>> \in less
  BY <1>3, <1>4 DEF less, OpToRel
<1>6. x - 1 \in T
  BY <1>2, <1>4, <1>5
<1>7. (x - 1) + 1 \in T
  BY <1>4, <1>6
<1> QED
  BY <1>3, <1>7

\* The steps of a recursion with values in S, and its results.  They are
\* operators for the provers' sake, which match a lemma by the terms it names.
StepsOver(S) == [Nat \X S -> S]
ValuesIn(S) == [Nat -> S]

\* f follows the recursion up to m.
Upto(f, a, step, m) ==
    /\ f[0] = a
    /\ \A n \in 1..m : f[n] = step[<<n, f[n - 1]>>]

Recursion(f, a, step) ==
    /\ f[0] = a
    /\ \A n \in Nat \ {0} : f[n] = step[<<n, f[n - 1]>>]

LEMMA RecursionUpto ==
    ASSUME NEW S, NEW a \in S, NEW step \in StepsOver(S)
    PROVE  \A m \in Nat : \E f \in ValuesIn(S) : Upto(f, a, step, m)
<1> DEFINE T == {m \in Nat : \E f \in [Nat -> S] : Upto(f, a, step, m)}
<1>1. 0 \in T
  <2> DEFINE f == [n \in Nat |-> a]
  <2>1. f \in [Nat -> S] /\ Upto(f, a, step, 0)
    BY DEF Upto
  <2> HIDE DEF f
  <2> QED
    BY <2>1
<1>2. ASSUME NEW m \in Nat, m \in T
      PROVE  m + 1 \in T
  <2>1. PICK f \in [Nat -> S] : Upto(f, a, step, m)
    BY <1>2
  <2> DEFINE g == [n \in Nat |-> IF n = m + 1 THEN step[<<n, f[m]>>] ELSE f[n]]
  <2>2. g \in [Nat -> S]
    BY DEF StepsOver
  <2>3. g[0] = a
    BY <2>1 DEF Upto
  <2>4. ASSUME NEW n \in 1..(m + 1)
        PROVE  g[n] = step[<<n, g[n - 1]>>]
    <3>1. CASE n = m + 1
      BY <3>1
    <3>2. CASE n \in 1..m
      BY <2>1, <3>2 DEF Upto
    <3> QED
      BY <3>1, <3>2
  <2>5. Upto(g, a, step, m + 1)
    BY <2>3, <2>4 DEF Upto
  <2> HIDE DEF g
  <2> QED
    BY <2>2, <2>5
<1> HIDE DEF T
<1>3. Nat \subseteq T
  BY <1>1, <1>2, InductionOverNat
<1> QED
  BY <1>3 DEF T, ValuesIn

LEMMA RecursionUnique ==
    ASSUME NEW a, NEW step, NEW f, NEW g, NEW m \in Nat, NEW k \in Nat, m <= k,
           Upto(f, a, step, m), Upto(g, a, step, k)
    PROVE  f[m] = g[m]
<1> DEFINE E == {n \in Nat : n <= m => f[n] = g[n]}
<1>1. 0 \in E
  BY DEF Upto
<1>2. ASSUME NEW n \in Nat, n \in E
      PROVE  n + 1 \in E
  <2>1. SUFFICES ASSUME n + 1 <= m
                 PROVE  f[n + 1] = g[n + 1]
    OBVIOUS
  <2>2. n + 1 \in 1..m /\ n + 1 \in 1..k /\ n <= m
    BY <2>1
  <2>3. f[n] = g[n] /\ (n + 1) - 1 = n
    BY <1>2, <2>2
  <2>4. f[n + 1] = step[<<n + 1, f[n]>>] /\ g[n + 1] = step[<<n + 1, g[n]>>]
    BY <2>2, <2>3 DEF Upto
  <2> QED
    BY <2>3, <2>4
<1> HIDE DEF E
<1>3. Nat \subseteq E
  BY <1>1, <1>2, InductionOverNat
<1> QED
  BY <1>3 DEF E

\* A recursive function over the naturals exists.
LEMMA RecursionOverNat ==
    ASSUME NEW S, NEW a \in S, NEW step \in StepsOver(S)
    PROVE  \E f \in ValuesIn(S) : Recursion(f, a, step)
<1> DEFINE part == [m \in Nat |-> CHOOSE f \in ValuesIn(S) : Upto(f, a, step, m)]
           all == [n \in Nat |-> part[n][n]]
<1>1. \A m \in Nat : part[m] \in ValuesIn(S) /\ Upto(part[m], a, step, m)
  BY RecursionUpto
<1> HIDE DEF part
<1>2. all \in ValuesIn(S)
  BY <1>1 DEF ValuesIn
<1>3. all[0] = a
  BY <1>1 DEF Upto
<1>4. ASSUME NEW n \in Nat \ {0}
      PROVE  all[n] = step[<<n, all[n - 1]>>]
  <2>1. n - 1 \in Nat /\ n - 1 <= n /\ n \in 1..n /\ n \in Nat
    OBVIOUS
  <2>2. part[n][n] = step[<<n, part[n][n - 1]>>]
    BY <1>1, <2>1 DEF Upto
  <2>3. Upto(part[n - 1], a, step, n - 1) /\ Upto(part[n], a, step, n)
    BY <1>1, <2>1
  <2>4. part[n - 1][n - 1] = part[n][n - 1]
    BY <2>1, <2>3, RecursionUnique
  <2> QED
    BY <2>1, <2>2, <2>4
<1> HIDE DEF all
<1>5. Recursion(all, a, step)
  BY <1>3, <1>4 DEF Recursion
<1> QED
  BY <1>2, <1>5

=============================================================================
