----------------------------- MODULE Recursion -----------------------------
(***************************************************************************)
(* Induction over the natural numbers, as a fact about sets of them: in    *)
(* this form it can be used for any property, by looking at the least      *)
(* number that lacks it.  And recursion over them.                         *)
(*                                                                         *)
(* A function that is defined by recursion over the natural numbers is the *)
(* CHOOSE of one that satisfies its equation.  It does satisfy it, because *)
(* such a function exists, whatever First and Step are: no set has to be   *)
(* known that its values are in.                                           *)
(***************************************************************************)
EXTENDS Integers, TLAPS, WellFoundedInduction

CONSTANTS First(_), Step(_, _, _)

Below == {pair \in Nat \X Nat : pair[1] < pair[2]}

(* No sequence of numbers goes down forever.                               *)
LEMMA BelowIsWellFounded == IsWellFoundedOn(Below, Nat)
  BY NatLessThanWellFounded, Zenon DEF OpToRel, Below

(* A set of natural numbers that is not empty has a least element.         *)
LEMMA ALeastNumber ==
  ASSUME NEW T \in SUBSET Nat, T # {}
  PROVE  \E x \in T : \A y \in T : x <= y
<1>1. PICK x \in T : \A y \in T : <<y, x>> \notin Below
  BY BelowIsWellFounded, WFMin, Zenon
<1>2. ASSUME NEW y \in T
      PROVE  x <= y
  <2>1. ~(y < x)
    BY <1>1 DEF Below
  <2> QED  BY <2>1
<1> QED  BY <1>2

(* A set that has 0 and with each number the next one has all of them.     *)
LEMMA EveryNumber ==
  ASSUME NEW T \in SUBSET Nat, 0 \in T, \A n \in T : n + 1 \in T
  PROVE  T = Nat
<1> SUFFICES ASSUME Nat \ T # {}
             PROVE  FALSE
  OBVIOUS
<1>1. PICK m \in Nat \ T : \A y \in Nat \ T : m <= y
  BY ALeastNumber
<1>2. m # 0 /\ m - 1 \in Nat /\ m - 1 \notin Nat \ T
  BY <1>1
<1>3. (m - 1) + 1 \in T
  BY <1>2
<1> QED  BY <1>3

---------------------------------------------------------------------------
Recursive(p) == CHOOSE f : f = [n \in Nat |-> IF n = 0 THEN First(p) ELSE Step(p, n, f[n - 1])]

(* The first n steps.                                                      *)
Steps(p, n, f) == f = [i \in 0 .. n |-> IF i = 0 THEN First(p) ELSE Step(p, i, f[i - 1])]

(* They can be taken, however many they are.                               *)
LEMMA StepsExist ==
  ASSUME NEW p, NEW n \in Nat
  PROVE  \E f : Steps(p, n, f)
<1> DEFINE T == {m \in Nat : \E f : Steps(p, m, f)}
<1>1. 0 \in T
  <2>1. Steps(p, 0, [i \in 0 .. 0 |-> First(p)])
    BY DEF Steps
  <2> QED  BY <2>1
<1>2. ASSUME NEW m \in T
      PROVE  m + 1 \in T
  <2>1. PICK f : Steps(p, m, f)
    OBVIOUS
  <2> DEFINE g == [i \in 0 .. m + 1 |-> IF i = m + 1 THEN Step(p, m + 1, f[m]) ELSE f[i]]
  <2>2. ASSUME NEW i \in 0 .. m + 1
        PROVE  g[i] = IF i = 0 THEN First(p) ELSE Step(p, i, g[i - 1])
    <3>1. CASE i = m + 1
      <4>1. g[i] = Step(p, m + 1, f[m]) /\ i - 1 = m /\ m \in 0 .. m + 1 /\ m # m + 1 /\ i # 0
        BY <3>1
      <4>2. g[m] = f[m]
        BY <4>1
      <4> HIDE DEF g
      <4> QED  BY <3>1, <4>1, <4>2
    <3>2. CASE i # m + 1
      <4>1. i \in 0 .. m
        BY <3>2
      <4>2. g[i] = f[i]
        BY <3>2
      <4>3. f[i] = IF i = 0 THEN First(p) ELSE Step(p, i, f[i - 1])
        BY <2>1, <4>1 DEF Steps
      <4>4. i # 0 => g[i - 1] = f[i - 1]
        BY <4>1
      <4> HIDE DEF g
      <4> QED  BY <4>2, <4>3, <4>4
    <3> QED  BY <3>1, <3>2
  <2>3. Steps(p, m + 1, g)
    <3>1. g = [i \in 0 .. m + 1 |-> g[i]]
      OBVIOUS
    <3> HIDE DEF g
    <3> QED  BY <2>2, <3>1 DEF Steps
  <2> HIDE DEF g
  <2> QED  BY <2>3
<1>3. T = Nat
  <2>1. T \in SUBSET Nat
    OBVIOUS
  <2> HIDE DEF T
  <2> QED  BY <1>1, <1>2, <2>1, EveryNumber
<1> QED  BY <1>3

(* Longer ones begin as shorter ones do.                                   *)
LEMMA StepsAgree ==
  ASSUME NEW p, NEW n \in Nat, NEW m \in Nat, n <= m,
         NEW f, Steps(p, n, f), NEW g, Steps(p, m, g)
  PROVE  f[n] = g[n]
<1> DEFINE T == {i \in Nat : i <= n => f[i] = g[i]}
<1>1. 0 \in T
  <2>1. 0 \in 0 .. n /\ 0 \in 0 .. m
    OBVIOUS
  <2> QED  BY <2>1 DEF Steps
<1>2. ASSUME NEW i \in T
      PROVE  i + 1 \in T
  <2> SUFFICES ASSUME i + 1 <= n
               PROVE  f[i + 1] = g[i + 1]
    OBVIOUS
  <2>1. i + 1 \in 0 .. n /\ i + 1 \in 0 .. m /\ i + 1 # 0 /\ (i + 1) - 1 = i /\ f[i] = g[i]
    OBVIOUS
  <2>2. f[i + 1] = Step(p, i + 1, f[i])
    BY <2>1 DEF Steps
  <2>3. g[i + 1] = Step(p, i + 1, g[i])
    BY <2>1 DEF Steps
  <2> QED  BY <2>1, <2>2, <2>3
<1>3. T = Nat
  <2>1. T \in SUBSET Nat
    OBVIOUS
  <2> HIDE DEF T
  <2> QED  BY <1>1, <1>2, <2>1, EveryNumber
<1> QED  BY <1>3

(* The function is what its definition says.                               *)
LEMMA RecursionFollows ==
  ASSUME NEW p
  PROVE  /\ Recursive(p)[0] = First(p)
         /\ \A n \in Nat : Recursive(p)[n + 1] = Step(p, n + 1, Recursive(p)[n])
<1> DEFINE s(n) == CHOOSE f : Steps(p, n, f)
           f    == [n \in Nat |-> s(n)[n]]
<1>1. \A n \in Nat : Steps(p, n, s(n))
  BY StepsExist
<1> HIDE DEF s
<1>2. f[0] = First(p)
  <2>1. 0 \in Nat /\ 0 \in 0 .. 0
    OBVIOUS
  <2> QED  BY <1>1, <2>1 DEF Steps
<1>3. ASSUME NEW n \in Nat
      PROVE  f[n + 1] = Step(p, n + 1, f[n])
  <2>1. n + 1 \in Nat /\ n <= n + 1 /\ n + 1 \in 0 .. n + 1 /\ n + 1 # 0 /\ (n + 1) - 1 = n
    OBVIOUS
  <2>2. Steps(p, n, s(n)) /\ Steps(p, n + 1, s(n + 1))
    BY <1>1
  <2>3. s(n)[n] = s(n + 1)[n]
    BY <2>1, <2>2, StepsAgree
  <2>4. s(n + 1)[n + 1] = Step(p, n + 1, s(n + 1)[n])
    BY <2>1, <2>2 DEF Steps
  <2> QED  BY <2>1, <2>3, <2>4
<1>4. f = [n \in Nat |-> IF n = 0 THEN First(p) ELSE Step(p, n, f[n - 1])]
  <2>1. ASSUME NEW n \in Nat
        PROVE  f[n] = IF n = 0 THEN First(p) ELSE Step(p, n, f[n - 1])
    <3>1. CASE n = 0
      BY <1>2, <3>1
    <3>2. CASE n # 0
      <4>1. PICK m \in Nat : m + 1 = n
        BY <3>2
      <4>2. n - 1 = m
        BY <4>1
      <4> HIDE DEF f
      <4> QED  BY <1>3, <3>2, <4>1, <4>2
    <3> QED  BY <3>1, <3>2
  <2>2. f = [n \in Nat |-> f[n]]
    OBVIOUS
  <2> HIDE DEF f
  <2> QED  BY <2>1, <2>2
<1> HIDE DEF f
<1> DEFINE r == Recursive(p)
<1>5. r = [n \in Nat |-> IF n = 0 THEN First(p) ELSE Step(p, n, r[n - 1])]
  BY <1>4 DEF Recursive
<1> HIDE DEF r
<1>6. r[0] = First(p)
  BY <1>5
<1>7. ASSUME NEW n \in Nat
      PROVE  r[n + 1] = Step(p, n + 1, r[n])
  <2>1. n + 1 \in Nat /\ n + 1 # 0 /\ (n + 1) - 1 = n
    OBVIOUS
  <2> QED  BY <1>5, <2>1
<1> QED  BY <1>6, <1>7 DEF r
=============================================================================
