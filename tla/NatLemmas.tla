------------------------------- MODULE NatLemmas -------------------------------
(***************************************************************************)
(* Induction over Nat and recursive functions on Nat, stated of sets and   *)
(* functions: a formula is given as the set of the numbers it holds of,    *)
(* and the body of a recursive definition as a function.  Then remainders. *)
(***************************************************************************)
EXTENDS Integers, Sequences, SequenceTheorems, WellFoundedInduction, TLAPS

LEMMA SetInduction ==
  ASSUME NEW T, 0 \in T, \A n \in Nat : n \in T => n + 1 \in T
  PROVE  Nat \subseteq T
<1> DEFINE LT == OpToRel(<, Nat)
           U == Nat \ T
<1>0. IsWellFoundedOn(LT, Nat)
  BY NatLessThanWellFounded
<1>1. \A x, y \in Nat : x < y => <<x, y>> \in LT
  BY DEF OpToRel
<1>2. U \in SUBSET Nat
  OBVIOUS
<1> HIDE DEF LT, U
<1>3. ASSUME U # {}
      PROVE  FALSE
  <2>1. \E x \in U : \A y \in U : ~ (<<y, x>> \in LT)
    BY <1>0, <1>2, <1>3, WFMin
  <2>2. PICK x \in U : \A y \in U : ~ (y < x)
    BY <1>1, <1>2, <2>1
  <2>3. x \in Nat \ T /\ x - 1 \in Nat /\ x - 1 + 1 = x
    BY <2>2 DEF U
  <2>4. x - 1 \in T
    BY <2>2, <2>3 DEF U
  <2> QED BY <2>3, <2>4
<1> QED BY <1>3 DEF U

(* A set of numbers that has one has a least one *)
LEMMA Least ==
  ASSUME NEW U \in SUBSET Nat, U # {}
  PROVE  \E i \in U : \A j \in U : i <= j
<1> SUFFICES ASSUME \A i \in U : \E j \in U : j < i
             PROVE  FALSE
  OBVIOUS
<1> DEFINE T == {m \in Nat : \A j \in U : m <= j}
<1>1. 0 \in T
  OBVIOUS
<1>2. ASSUME NEW m \in Nat, m \in T
      PROVE  m + 1 \in T
  <2>1. m \notin U
    BY <1>2
  <2>2. \A j \in U : m <= j /\ m # j
    BY <1>2, <2>1
  <2> QED BY <2>2
<1>3. Nat \subseteq T
  BY <1>1, <1>2, SetInduction
<1>4. PICK i \in U : i \in Nat
  OBVIOUS
<1>5. i + 1 \in T
  BY <1>3
<1> QED BY <1>4, <1>5

-----------------------------------------------------------------------------
(* f goes from e by steps of g *)
Steps(f, S, e, g, N) ==
  /\ f \in [0 .. N -> S]
  /\ f[0] = e
  /\ \A n \in 0 .. N - 1 : f[n + 1] = g[<<f[n], n + 1>>]

LEMMA FiniteRecursion ==
  ASSUME NEW S, NEW e \in S, NEW g \in [S \X Nat -> S]
  PROVE  \A N \in Nat : \E f : Steps(f, S, e, g, N)
<1> DEFINE T == {N \in Nat : \E f : Steps(f, S, e, g, N)}
<1>1. 0 \in T
  <2>1. Steps([n \in 0 .. 0 |-> e], S, e, g, 0)
    BY DEF Steps
  <2> QED BY <2>1
<1>2. ASSUME NEW N \in Nat, N \in T
      PROVE  N + 1 \in T
  <2>1. PICK f : Steps(f, S, e, g, N)
    BY <1>2
  <2> DEFINE h == [n \in 0 .. N + 1 |-> IF n <= N THEN f[n] ELSE g[<<f[N], N + 1>>]]
  <2>2. /\ f \in [0 .. N -> S] /\ f[0] = e
        /\ \A n \in 0 .. N - 1 : f[n + 1] = g[<<f[n], n + 1>>]
    BY <2>1 DEF Steps
  <2>3. f[N] \in S /\ N + 1 \in Nat
    BY <2>2
  <2>4. g[<<f[N], N + 1>>] \in S
    BY <2>3
  <2>5. h \in [0 .. N + 1 -> S]
    BY <2>2, <2>4
  <2>6. \A n \in 0 .. N : h[n] = f[n]
    OBVIOUS
  <2>7. h[N + 1] = g[<<f[N], N + 1>>]
    OBVIOUS
  <2> HIDE DEF h
  <2>8. ASSUME NEW n \in 0 .. N + 1 - 1
        PROVE  h[n + 1] = g[<<h[n], n + 1>>]
    <3>1. CASE n = N
      <4>1. h[n] = f[N] /\ n + 1 = N + 1
        BY <2>6, <3>1
      <4> QED BY <2>7, <4>1
    <3>2. CASE n # N
      <4>1. n \in 0 .. N - 1 /\ n \in 0 .. N /\ n + 1 \in 0 .. N
        BY <3>2
      <4> QED BY <2>2, <2>6, <4>1
    <3> QED BY <3>1, <3>2
  <2>9. h[0] = e
    BY <2>2, <2>6
  <2>10. Steps(h, S, e, g, N + 1)
    BY <2>5, <2>8, <2>9 DEF Steps
  <2> QED BY <2>10
<1> HIDE DEF T
<1>3. Nat \subseteq T
  BY <1>1, <1>2, SetInduction
<1> QED BY <1>3 DEF T

LEMMA StepsAgree ==
  ASSUME NEW S, NEW e, NEW g, NEW N \in Nat, NEW M \in Nat, N <= M,
         NEW f, NEW h, Steps(f, S, e, g, N), Steps(h, S, e, g, M)
  PROVE  \A n \in 0 .. N : f[n] = h[n]
<1> DEFINE T == {n \in Nat : n <= N => f[n] = h[n]}
<1>1. 0 \in T
  BY DEF Steps
<1>2. ASSUME NEW n \in Nat, n \in T
      PROVE  n + 1 \in T
  <2> SUFFICES ASSUME n + 1 <= N
               PROVE  f[n + 1] = h[n + 1]
    OBVIOUS
  <2>1. n \in 0 .. N - 1 /\ n \in 0 .. M - 1
    OBVIOUS
  <2>2. f[n] = h[n]
    BY <1>2
  <2>3. f[n + 1] = g[<<f[n], n + 1>>] /\ h[n + 1] = g[<<h[n], n + 1>>]
    BY <2>1 DEF Steps
  <2> QED BY <2>2, <2>3
<1> HIDE DEF T
<1>3. Nat \subseteq T
  BY <1>1, <1>2, SetInduction
<1> QED BY <1>3 DEF T

(* The function f with f[0] = e and f[n] = g[<<f[n - 1], n>>] *)
GoesOn(f, e, g) == f[0] = e /\ \A n \in Nat : f[n + 1] = g[<<f[n], n + 1>>]

LEMMA Recursion ==
  ASSUME NEW S, NEW e \in S, NEW g \in [S \X Nat -> S]
  PROVE  \E f \in [Nat -> S] : GoesOn(f, e, g)
<1> DEFINE F(N) == CHOOSE f : Steps(f, S, e, g, N)
           r == [n \in Nat |-> F(n)[n]]
<1>1. \A N \in Nat : Steps(F(N), S, e, g, N)
  BY FiniteRecursion
<1> HIDE DEF F
<1>2. ASSUME NEW n \in Nat
      PROVE  F(n)[n] \in S
  BY <1>1 DEF Steps
<1>3. r \in [Nat -> S]
  BY <1>2
<1>4. F(0)[0] = e
  BY <1>1 DEF Steps
<1>5. ASSUME NEW n \in Nat
      PROVE  F(n + 1)[n + 1] = g[<<F(n)[n], n + 1>>]
  <2>1. Steps(F(n), S, e, g, n) /\ Steps(F(n + 1), S, e, g, n + 1) /\ n + 1 \in Nat /\ n <= n + 1
    BY <1>1
  <2>2. F(n)[n] = F(n + 1)[n]
    <3>1. \A k \in 0 .. n : F(n)[k] = F(n + 1)[k]
      BY <2>1, StepsAgree
    <3> QED BY <3>1
  <2>3. F(n + 1)[n + 1] = g[<<F(n + 1)[n], n + 1>>]
    <3>1. n \in 0 .. n + 1 - 1
      OBVIOUS
    <3> QED BY <2>1, <3>1 DEF Steps
  <2> QED BY <2>2, <2>3
<1>6. r[0] = e /\ \A n \in Nat : r[n + 1] = g[<<r[n], n + 1>>]
  BY <1>4, <1>5
<1> HIDE DEF r
<1> QED BY <1>3, <1>6 DEF GoesOn

-----------------------------------------------------------------------------
(* Remainders *)
LEMMA SmallMod ==
  \A m \in Nat \ {0} : /\ m % m = 0
                       /\ \A x \in 0 .. m - 1 : x % m = x
                       /\ \A x \in Nat : x % m \in 0 .. m - 1
<1> QED OBVIOUS

LEMMA Division ==
  ASSUME NEW m \in Nat \ {0}, NEW a \in Nat
  PROVE  \E q \in Nat, r \in 0 .. m - 1 : a = m * q + r /\ a % m = r
OBVIOUS

(* Only the remainder counts *)
LEMMA ModOfSum ==
  ASSUME NEW m \in Nat \ {0}, NEW q \in Nat, NEW r \in 0 .. m - 1
  PROVE  (m * q + r) % m = r
<1>1. PICK x \in Nat : x = m * q + r
  OBVIOUS
<1>2. PICK d \in Nat, e \in 0 .. m - 1 : x = m * d + e /\ x % m = e
  BY Division
<1>3. \A i, j \in Nat : i + 1 <= j => m * i + m <= m * j
  OBVIOUS
<1>4. PICK u \in Nat, v \in Nat : u = m * q /\ v = m * d
  OBVIOUS
<1>5. ~(q + 1 <= d)
  <2>1. q + 1 <= d => u + m <= v
    BY <1>3, <1>4
  <2>2. u + r = v + e
    BY <1>1, <1>2, <1>4
  <2> QED BY <2>1, <2>2
<1>6. ~(d + 1 <= q)
  <2>1. d + 1 <= q => v + m <= u
    BY <1>3, <1>4
  <2>2. u + r = v + e
    BY <1>1, <1>2, <1>4
  <2> QED BY <2>1, <2>2
<1>7. q = d
  BY <1>5, <1>6
<1>8. r = e
  BY <1>1, <1>2, <1>7
<1> QED BY <1>1, <1>2, <1>8

LEMMA ModAdd ==
  ASSUME NEW m \in Nat \ {0}, NEW a \in Nat, NEW s \in Nat
  PROVE  ((a % m) + s) % m = (a + s) % m
<1>1. PICK q \in Nat, r \in 0 .. m - 1 : a = m * q + r /\ a % m = r
  BY Division
<1>2. PICK c \in Nat, d \in 0 .. m - 1 : r + s = m * c + d /\ (r + s) % m = d
  <2>1. PICK x \in Nat : x = r + s
    OBVIOUS
  <2> QED BY <2>1, Division
<1>3. PICK t \in Nat : t = q + c
  OBVIOUS
<1>4. m * t = m * q + m * c
  BY <1>3
<1>5. a + s = m * t + d
  BY <1>1, <1>2, <1>4
<1>6. (a + s) % m = d
  BY <1>5, ModOfSum
<1> QED BY <1>1, <1>2, <1>6
=============================================================================
