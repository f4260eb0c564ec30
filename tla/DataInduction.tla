---------------------------- MODULE DataInduction ----------------------------
(***************************************************************************)
(* Induction and definition by primitive recursion over the naturals.  The *)
(* property that is shown is a set and the step of a recursion a function, *)
(* so that the lemmas are cited like any others.  They rest on the well-   *)
(* foundedness of the strict subsets of a finite set.                      *)
(***************************************************************************)
EXTENDS FiniteSetTheorems, TLAPS

(* Every nonempty set of natural numbers has a least element. *)
LEMMA LeastNatural ==
  ASSUME NEW T, T \subseteq Nat, T # {}
  PROVE  \E x \in T : \A y \in T : x <= y
<1>1. PICK m \in T : TRUE
  OBVIOUS
<1>. DEFINE S == 1..m
            U == {1..k : k \in {j \in T : j <= m}}
<1>2. IsFiniteSet(S)
  BY FS_Interval
<1>3. IsWellFoundedOn(StrictSubsetOrdering(S), SUBSET S)
  <2>. HIDE DEF S
  <2>. QED BY <1>2, FS_StrictSubsetOrderingWellFounded, FS_FiniteSubsetsOfFinite
<1>4. U \subseteq SUBSET S /\ U # {}
  OBVIOUS
<1>5. PICK u \in U : \A v \in U : ~(<<v, u>> \in StrictSubsetOrdering(S))
  <2>. HIDE DEF U, S
  <2>. QED BY <1>3, <1>4, WFMin
<1>6. PICK x \in T : x <= m /\ u = 1..x
  BY <1>5
<1>7. ASSUME NEW y \in T, ~(x <= y) PROVE FALSE
  <2>1. 1..y \in U
    BY <1>6, <1>7
  <2>2. 1..y \subseteq 1..x /\ 1..y # 1..x
    BY <1>6, <1>7
  <2>. QED BY <2>1, <2>2, <1>5, <1>6, <1>4 DEF StrictSubsetOrdering
<1>. QED BY <1>7, <1>6

(* Induction where what is shown of m may use it of everything below m. *)
LEMMA StrongInduction ==
  ASSUME NEW S, \A n \in Nat : (\A m \in Nat : m < n => m \in S) => n \in S
  PROVE  Nat \subseteq S
<1>. SUFFICES ASSUME Nat \ S # {} PROVE FALSE
  OBVIOUS
<1>1. PICK x \in Nat \ S : \A y \in Nat \ S : x <= y
  <2>. DEFINE T == Nat \ S
  <2>1. T \subseteq Nat /\ T # {}
    OBVIOUS
  <2>. HIDE DEF T
  <2>2. \E x \in T : \A y \in T : x <= y
    BY <2>1, LeastNatural
  <2>. QED BY <2>2 DEF T
<1>. QED BY <1>1

(* Induction over the naturals, for a property given as a set. *)
LEMMA SetInduction ==
  ASSUME NEW S, 0 \in S, \A n \in Nat : n \in S => n + 1 \in S
  PROVE  Nat \subseteq S
<1>1. ASSUME NEW n \in Nat, \A m \in Nat : m < n => m \in S
      PROVE  n \in S
  <2>1. CASE n = 0
    BY <2>1
  <2>2. CASE n # 0
    <3>1. n - 1 \in Nat /\ n - 1 < n /\ (n - 1) + 1 = n
      BY <2>2
    <3>2. n - 1 \in S
      BY <1>1, <3>1
    <3>. QED BY <3>1, <3>2
  <2>. QED BY <2>1, <2>2
<1>. QED BY <1>1, StrongInduction

(* The same, up to a bound. *)
LEMMA IntervalInduction ==
  ASSUME NEW S, NEW b \in Nat,
         0 \in S, \A i \in 1..b : i - 1 \in S => i \in S
  PROVE  0..b \subseteq S
<1>. DEFINE T == {i \in Nat : i <= b => i \in S}
<1>1. 0 \in T
  OBVIOUS
<1>2. ASSUME NEW i \in Nat, i \in T PROVE i + 1 \in T
  <2>1. SUFFICES ASSUME i + 1 <= b PROVE i + 1 \in S
    OBVIOUS
  <2>2. i + 1 \in 1..b /\ (i + 1) - 1 \in S
    BY <1>2, <2>1
  <2>. QED BY <2>2
<1>3. Nat \subseteq T
  <2>. HIDE DEF T
  <2>. QED BY <1>1, <1>2, SetInduction
<1>. QED BY <1>3

-----------------------------------------------------------------------------
(* G takes an index and a value to the next value. *)
IsStep(G, X) == \A k \in Nat, x \in X : G[k][x] \in X

(* f is what G makes of x0 in n steps. *)
Iterates(f, X, x0, G, n) ==
  /\ f = [i \in 0..n |-> f[i]]
  /\ \A i \in 0..n : f[i] \in X
  /\ f[0] = x0
  /\ \A i \in 1..n : f[i] = G[i][f[i - 1]]

(* Definition by primitive recursion over 0..n: it is what gives the       *)
(* function that a LET f[i \in 0..n] of the models names a value.          *)
LEMMA IterationExists ==
  ASSUME NEW X, NEW x0 \in X, NEW G, IsStep(G, X), NEW n \in Nat
  PROVE  \E f : Iterates(f, X, x0, G, n)
<1>. DEFINE S == {m \in Nat : \E f : Iterates(f, X, x0, G, m)}
<1>1. 0 \in S
  <2>. DEFINE f == [i \in 0..0 |-> x0]
  <2>1. Iterates(f, X, x0, G, 0)
    BY DEF Iterates
  <2>. HIDE DEF f
  <2>. QED BY <2>1
<1>2. ASSUME NEW m \in Nat, m \in S PROVE m + 1 \in S
  <2>1. PICK g : Iterates(g, X, x0, G, m)
    BY <1>2
  <2>2. /\ g[0] = x0
        /\ \A i \in 0..m : g[i] \in X
        /\ \A i \in 1..m : g[i] = G[i][g[i - 1]]
    BY <2>1 DEF Iterates
  <2>3. G[m + 1][g[m]] \in X
    BY <2>2 DEF IsStep
  <2>. DEFINE h == [i \in 0..(m + 1) |-> IF i = m + 1 THEN G[m + 1][g[m]] ELSE g[i]]
  <2>4. /\ h = [i \in 0..(m + 1) |-> h[i]]
        /\ h[m + 1] = G[m + 1][g[m]]
        /\ \A i \in 0..m : h[i] = g[i]
    OBVIOUS
  <2>. HIDE DEF h
  <2>5. \A i \in 0..(m + 1) : h[i] \in X
    <3>1. \A i \in 0..(m + 1) : i = m + 1 \/ i \in 0..m
      OBVIOUS
    <3>. QED BY <2>2, <2>3, <2>4, <3>1
  <2>6. ASSUME NEW i \in 1..(m + 1) PROVE h[i] = G[i][h[i - 1]]
    <3>1. CASE i = m + 1
      <4>1. i - 1 = m /\ m \in 0..m
        BY <3>1
      <4>2. h[m] = g[m]
        BY <4>1, <2>4
      <4>. QED BY <4>1, <4>2, <3>1, <2>4
    <3>2. CASE i # m + 1
      <4>1. i \in 1..m /\ i - 1 \in 0..m /\ i \in 0..m
        BY <3>2
      <4>2. h[i] = g[i] /\ h[i - 1] = g[i - 1] /\ g[i] = G[i][g[i - 1]]
        BY <2>2, <2>4, <4>1
      <4>. QED BY <4>2
    <3>. QED BY <3>1, <3>2
  <2>7. h[0] = x0
    BY <2>2, <2>4
  <2>8. Iterates(h, X, x0, G, m + 1)
    BY <2>4, <2>5, <2>6, <2>7 DEF Iterates
  <2>. QED BY <2>8
<1>3. Nat \subseteq S
  <2>. HIDE DEF S
  <2>. QED BY <1>1, <1>2, SetInduction
<1>. QED BY <1>3

(* Two such sequences agree as far as both go. *)
LEMMA IterationUnique ==
  ASSUME NEW X, NEW x0, NEW G, NEW n \in Nat, NEW m \in Nat, NEW f, NEW g,
         Iterates(f, X, x0, G, n), Iterates(g, X, x0, G, m),
         NEW k \in Nat, k <= n, k <= m
  PROVE  f[k] = g[k]
<1>. DEFINE S == {i \in Nat : f[i] = g[i]}
<1>1. 0 \in S
  BY DEF Iterates
<1>2. ASSUME NEW i \in 1..k, i - 1 \in S PROVE i \in S
  <2>1. i \in 1..n /\ i \in 1..m
    OBVIOUS
  <2>2. f[i] = G[i][f[i - 1]] /\ g[i] = G[i][g[i - 1]]
    BY <2>1 DEF Iterates
  <2>3. f[i - 1] = g[i - 1]
    BY <1>2
  <2>. QED BY <2>2, <2>3
<1>3. 0..k \subseteq S
  <2>. HIDE DEF S
  <2>. QED BY <1>1, <1>2, IntervalInduction
<1>4. k \in 0..k
  OBVIOUS
<1>. QED BY <1>3, <1>4

(* f is what G makes of x0 in any number of steps. *)
IteratesOn(f, X, x0, G) ==
  /\ f = [i \in Nat |-> f[i]]
  /\ \A i \in Nat : f[i] \in X
  /\ f[0] = x0
  /\ \A i \in Nat \ {0} : f[i] = G[i][f[i - 1]]

(* Definition by primitive recursion over all naturals, as in the model's  *)
(* Flat, which goes down one level of the tree at a time.                  *)
LEMMA RecursionExists ==
  ASSUME NEW X, NEW x0 \in X, NEW G, IsStep(G, X)
  PROVE  \E f : IteratesOn(f, X, x0, G)
<1>. DEFINE upto == [n \in Nat |-> CHOOSE f : Iterates(f, X, x0, G, n)]
            h == [n \in Nat |-> upto[n][n]]
<1>1. ASSUME NEW n \in Nat PROVE Iterates(upto[n], X, x0, G, n)
  <2>1. \E f : Iterates(f, X, x0, G, n)
    BY IterationExists
  <2>2. upto[n] = CHOOSE f : Iterates(f, X, x0, G, n)
    OBVIOUS
  <2>. QED BY <2>1, <2>2
<1>2. h = [n \in Nat |-> h[n]] /\ \A n \in Nat : h[n] = upto[n][n]
  OBVIOUS
<1>. HIDE DEF upto, h
<1>3. ASSUME NEW n \in Nat PROVE h[n] \in X
  <2>1. n \in 0..n
    OBVIOUS
  <2>. QED BY <1>1, <1>2, <2>1 DEF Iterates
<1>4. h[0] = x0
  BY <1>1, <1>2 DEF Iterates
<1>5. ASSUME NEW n \in Nat \ {0} PROVE h[n] = G[n][h[n - 1]]
  <2>1. n - 1 \in Nat /\ n \in 1..n /\ n - 1 <= n /\ n - 1 <= n - 1 /\ n \in Nat
    OBVIOUS
  <2>2. upto[n][n] = G[n][upto[n][n - 1]]
    BY <1>1, <2>1 DEF Iterates
  <2>3. upto[n][n - 1] = upto[n - 1][n - 1]
    <3>1. Iterates(upto[n], X, x0, G, n) /\ Iterates(upto[n - 1], X, x0, G, n - 1)
      BY <1>1, <2>1
    <3>2. PICK f, g, m : f = upto[n] /\ g = upto[n - 1] /\ m = n - 1
      OBVIOUS
    <3>3. f[m] = g[m]
      <4>1. Iterates(f, X, x0, G, n) /\ Iterates(g, X, x0, G, m) /\ m \in Nat /\ m <= n /\ m <= m
        BY <2>1, <3>1, <3>2
      <4>. QED BY <2>1, <4>1, IterationUnique
    <3>. QED BY <3>2, <3>3
  <2>. QED BY <1>2, <2>1, <2>2, <2>3
<1>6. IteratesOn(h, X, x0, G)
  BY <1>2, <1>3, <1>4, <1>5 DEF IteratesOn
<1>. QED BY <1>6
=============================================================================
