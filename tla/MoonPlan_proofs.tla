---------------------------- MODULE MoonPlan_proofs ----------------------------
(***************************************************************************)
(* What TLAPS proves about MoonPlan: Tarjan's algorithm finds the          *)
(* components of every call graph, and the walk over them what an entry    *)
(* reaches.                                                                *)
(***************************************************************************)
EXTENDS MoonPlan, DataInduction, SequenceTheorems

-----------------------------------------------------------------------------
(* What can be reached, as it is computed: by rounds                        *)

(* f[n] has what is reached from x0 in n steps of D. *)
Rounds(f, X, x0, D) ==
  /\ f = [n \in Nat |-> f[n]]
  /\ \A n \in Nat : f[n] \in SUBSET X
  /\ f[0] = {x0}
  /\ \A n \in Nat \ {0} : f[n] = f[n - 1] \cup UNION {D[j] : j \in f[n - 1]}

LEMMA RoundsExist ==
  ASSUME NEW X, NEW x0 \in X, NEW D \in [X -> SUBSET X]
  PROVE  \E f : Rounds(f, X, x0, D)
<1>. DEFINE Y == SUBSET X
            G == [n \in Nat |-> [s \in Y |-> s \cup UNION {D[j] : j \in s}]]
<1>1. IsStep(G, Y)
  <2>1. \A n \in Nat, s \in Y : G[n][s] = s \cup UNION {D[j] : j \in s}
    OBVIOUS
  <2>2. \A s \in Y : s \cup UNION {D[j] : j \in s} \in Y
    <3>1. ASSUME NEW s \in Y, NEW y \in UNION {D[j] : j \in s} PROVE y \in X
      BY <3>1
    <3>. QED BY <3>1
  <2>. HIDE DEF G, Y
  <2>. QED BY <2>1, <2>2 DEF IsStep
<1>2. {x0} \in Y
  OBVIOUS
<1>3. \A n \in Nat, s \in Y : G[n][s] = s \cup UNION {D[j] : j \in s}
  OBVIOUS
<1>4. PICK f : IteratesOn(f, Y, {x0}, G)
  <2>. HIDE DEF G, Y
  <2>. QED BY <1>1, <1>2, RecursionExists
<1>5. /\ f = [n \in Nat |-> f[n]] /\ \A n \in Nat : f[n] \in Y
      /\ f[0] = {x0} /\ \A n \in Nat \ {0} : f[n] = G[n][f[n - 1]]
  <2>. HIDE DEF G, Y
  <2>. QED BY <1>4 DEF IteratesOn
<1>6. \A n \in Nat \ {0} : f[n] = f[n - 1] \cup UNION {D[j] : j \in f[n - 1]}
  <2>1. \A n \in Nat \ {0} : n \in Nat /\ n - 1 \in Nat
    OBVIOUS
  <2>. HIDE DEF G, Y
  <2>. QED BY <2>1, <1>3, <1>5
<1>. QED BY <1>5, <1>6 DEF Rounds

LEMMA RoundsGrow ==
  ASSUME NEW X, NEW x0 \in X, NEW D \in [X -> SUBSET X], NEW f, Rounds(f, X, x0, D), NEW n \in Nat
  PROVE  /\ f[n] \in SUBSET X /\ f[n + 1] \in SUBSET X /\ f[n] \subseteq f[n + 1]
         /\ f[n + 1] = f[n] \cup UNION {D[j] : j \in f[n]}
<1>1. n + 1 \in Nat \ {0} /\ (n + 1) - 1 = n
  OBVIOUS
<1>2. f[n + 1] = f[n] \cup UNION {D[j] : j \in f[n]}
  BY <1>1 DEF Rounds
<1>3. f[n] \in SUBSET X /\ f[n + 1] \in SUBSET X
  BY <1>1 DEF Rounds
<1>. QED BY <1>2, <1>3

(* After as many rounds as there are elements nothing is added any more.    *)
LEMMA RoundsSaturate ==
  ASSUME NEW X, IsFiniteSet(X), NEW x0 \in X, NEW D \in [X -> SUBSET X], NEW f, Rounds(f, X, x0, D),
         NEW N \in Nat, Cardinality(X) = N
  PROVE  f[N + 1] = f[N]
<1>. DEFINE S == {n \in Nat : f[n + 1] = f[n] \/ Cardinality(f[n]) > n}
<1>1. 0 \in S
  <2>1. Cardinality({x0}) = 1
    BY FS_Singleton
  <2>2. f[0] = {x0}
    BY DEF Rounds
  <2>3. Cardinality(f[0]) > 0
    BY <2>1, <2>2
  <2>. QED BY <2>3
<1>2. ASSUME NEW n \in Nat, n \in S PROVE n + 1 \in S
  <2>1. PICK m : m = n + 1 /\ m \in Nat
    OBVIOUS
  <2>2. /\ f[m] \in SUBSET X /\ f[n] \in SUBSET X /\ f[n] \subseteq f[m]
        /\ f[m] = f[n] \cup UNION {D[j] : j \in f[n]}
    BY <2>1, RoundsGrow
  <2>3. f[m + 1] = f[m] \cup UNION {D[j] : j \in f[m]}
    BY <2>1, RoundsGrow
  <2>4. CASE f[m] = f[n]
    <3>1. f[m + 1] = f[m]
      BY <2>2, <2>3, <2>4
    <3>. QED BY <3>1, <2>1
  <2>5. CASE f[m] # f[n]
    <3>1. IsFiniteSet(f[m]) /\ IsFiniteSet(f[n])
      BY <2>2, FS_Subset
    <3>2. Cardinality(f[m]) \in Nat /\ Cardinality(f[n]) \in Nat
      BY <3>1, FS_CardinalityType
    <3>3. Cardinality(f[n]) <= Cardinality(f[m]) /\ (Cardinality(f[m]) = Cardinality(f[n]) => f[m] = f[n])
      BY <2>2, <3>1, FS_Subset
    <3>4. Cardinality(f[n]) > n
      BY <1>2, <2>1, <2>5
    <3>5. Cardinality(f[m]) > m
      BY <2>1, <2>5, <3>2, <3>3, <3>4
    <3>. QED BY <2>1, <3>5
  <2>. QED BY <2>4, <2>5
<1>3. N \in S
  <2>. HIDE DEF S
  <2>. QED BY <1>1, <1>2, SetInduction
<1>4. f[N] \in SUBSET X
  BY DEF Rounds
<1>5. Cardinality(f[N]) \in Nat /\ Cardinality(f[N]) <= N
  BY <1>4, FS_Subset, FS_CardinalityType
<1>. QED BY <1>3, <1>5

LEMMA RoundsReach ==
  ASSUME NEW X, IsFiniteSet(X), NEW x0 \in X, NEW D \in [X -> SUBSET X], NEW f, Rounds(f, X, x0, D),
         NEW N \in Nat, Cardinality(X) = N
  PROVE  /\ f[N] \subseteq X /\ x0 \in f[N]
         /\ \A j \in f[N] : D[j] \subseteq f[N]
         /\ \A S : x0 \in S /\ (\A j \in S \cap X : D[j] \subseteq S) => f[N] \subseteq S
<1>1. \A n \in Nat : f[n] \in SUBSET X
  BY DEF Rounds
<1>2. ASSUME NEW j \in f[N] PROVE D[j] \subseteq f[N]
  <2>1. f[N + 1] = f[N]
    BY RoundsSaturate
  <2>2. f[N + 1] = f[N] \cup UNION {D[i] : i \in f[N]}
    BY RoundsGrow
  <2>. QED BY <2>1, <2>2
<1>3. ASSUME NEW S, x0 \in S, \A j \in S \cap X : D[j] \subseteq S PROVE \A n \in Nat : f[n] \subseteq S
  <2>. DEFINE T == {n \in Nat : f[n] \subseteq S}
  <2>1. 0 \in T
    BY <1>3 DEF Rounds
  <2>2. ASSUME NEW n \in Nat, n \in T PROVE n + 1 \in T
    <3>1. f[n + 1] = f[n] \cup UNION {D[i] : i \in f[n]} /\ f[n] \in SUBSET X
      BY RoundsGrow
    <3>2. \A i \in f[n] : D[i] \subseteq S
      BY <1>3, <2>2, <3>1
    <3>. QED BY <2>2, <3>1, <3>2
  <2>3. Nat \subseteq T
    <3>. HIDE DEF T
    <3>. QED BY <2>1, <2>2, SetInduction
  <2>. QED BY <2>3
<1>4. ASSUME NEW n \in Nat PROVE x0 \in f[n]
  <2>. DEFINE T == {m \in Nat : x0 \in f[m]}
  <2>1. 0 \in T
    BY DEF Rounds
  <2>2. ASSUME NEW m \in Nat, m \in T PROVE m + 1 \in T
    BY <2>2, RoundsGrow
  <2>3. Nat \subseteq T
    <3>. HIDE DEF T
    <3>. QED BY <2>1, <2>2, SetInduction
  <2>. QED BY <2>3
<1>. QED BY <1>1, <1>2, <1>3, <1>4

-----------------------------------------------------------------------------
(* Reached is the least set that has i and the callees of what it has       *)

Within(u, i) ==
  CHOOSE f : f = [n \in Nat |-> IF n = 0 THEN {i} ELSE f[n - 1] \cup UNION {Deps(u, j) : j \in f[n - 1]}]

LEMMA ReachedIsWithin == \A u, i : Reached(u, i) = Within(u, i)[Len(u)]
BY DEF Reached, Within

LEMMA ReachedFacts ==
  ASSUME NEW S, NEW u \in Seq(S), NEW i \in DOMAIN u
  PROVE  /\ Reached(u, i) \subseteq DOMAIN u /\ i \in Reached(u, i)
         /\ \A j \in Reached(u, i) : Deps(u, j) \subseteq Reached(u, i)
         /\ \A T : i \in T /\ (\A j \in T \cap DOMAIN u : Deps(u, j) \subseteq T) => Reached(u, i) \subseteq T
<1>. DEFINE X == DOMAIN u
            D == [j \in X |-> Deps(u, j)]
            N == Len(u)
<1>1. X = 1..N /\ N \in Nat
  BY LenProperties
<1>2. IsFiniteSet(X) /\ Cardinality(X) = N
  <2>1. PICK m \in Nat : m = N
    BY <1>1
  <2>2. IsFiniteSet(1..m) /\ Cardinality(1..m) = (IF 1 > m THEN 0 ELSE m - 1 + 1)
    BY FS_Interval
  <2>3. IsFiniteSet(1..m) /\ Cardinality(1..m) = m
    BY <2>2
  <2>. QED BY <1>1, <2>1, <2>3
<1>3. D \in [X -> SUBSET X] /\ \A j \in X : D[j] = Deps(u, j)
  BY DEF Deps
<1>4. i \in X
  OBVIOUS
<1>5. \A j \in X : Deps(u, j) \subseteq X
  BY DEF Deps
<1>. HIDE DEF X, D, N
<1>6. PICK f : Rounds(f, X, i, D)
  BY <1>3, <1>4, RoundsExist
<1>7. \A n \in Nat \ {0} : f[n] = f[n - 1] \cup UNION {Deps(u, j) : j \in f[n - 1]}
  <2>1. ASSUME NEW n \in Nat \ {0} PROVE f[n] = f[n - 1] \cup UNION {Deps(u, j) : j \in f[n - 1]}
    <3>1. f[n] = f[n - 1] \cup UNION {D[j] : j \in f[n - 1]} /\ f[n - 1] \subseteq X
      BY <1>6 DEF Rounds
    <3>. QED BY <1>3, <3>1
  <2>. QED BY <2>1
<1>8. f = [n \in Nat |-> IF n = 0 THEN {i} ELSE f[n - 1] \cup UNION {Deps(u, j) : j \in f[n - 1]}]
  <2>1. f = [n \in Nat |-> f[n]] /\ f[0] = {i}
    BY <1>6 DEF Rounds
  <2>. QED BY <2>1, <1>7
<1>9. PICK g : g = Within(u, i)
  OBVIOUS
<1>10. g = [n \in Nat |-> IF n = 0 THEN {i} ELSE g[n - 1] \cup UNION {Deps(u, j) : j \in g[n - 1]}]
  BY <1>8, <1>9 DEF Within
<1>11. /\ g[0] = {i} /\ g = [n \in Nat |-> g[n]]
       /\ \A n \in Nat \ {0} : g[n] = g[n - 1] \cup UNION {Deps(u, j) : j \in g[n - 1]}
  BY <1>10
<1>12. ASSUME NEW n \in Nat PROVE g[n] \in SUBSET X
  <2>. DEFINE T == {m \in Nat : g[m] \in SUBSET X}
  <2>1. 0 \in T
    BY <1>4, <1>11
  <2>2. ASSUME NEW m \in Nat, m \in T PROVE m + 1 \in T
    <3>1. m + 1 \in Nat \ {0} /\ (m + 1) - 1 = m
      OBVIOUS
    <3>2. g[m + 1] = g[m] \cup UNION {Deps(u, j) : j \in g[m]}
      BY <1>11, <3>1
    <3>. QED BY <1>5, <2>2, <3>1, <3>2
  <2>3. Nat \subseteq T
    <3>. HIDE DEF T
    <3>. QED BY <2>1, <2>2, SetInduction
  <2>. QED BY <2>3
<1>13. Rounds(g, X, i, D)
  <2>1. ASSUME NEW n \in Nat \ {0} PROVE g[n] = g[n - 1] \cup UNION {D[j] : j \in g[n - 1]}
    <3>1. n - 1 \in Nat
      OBVIOUS
    <3>2. g[n - 1] \subseteq X
      BY <3>1, <1>12
    <3>3. {D[j] : j \in g[n - 1]} = {Deps(u, j) : j \in g[n - 1]}
      BY <1>3, <3>2
    <3>4. g[n] = g[n - 1] \cup UNION {Deps(u, j) : j \in g[n - 1]}
      BY <1>11
    <3>. QED BY <3>3, <3>4
  <2>. QED BY <1>11, <1>12, <2>1 DEF Rounds
<1>14. /\ g[N] \subseteq X /\ i \in g[N]
       /\ \A j \in g[N] : D[j] \subseteq g[N]
       /\ \A T : i \in T /\ (\A j \in T \cap X : D[j] \subseteq T) => g[N] \subseteq T
  <2>1. N \in Nat /\ IsFiniteSet(X) /\ Cardinality(X) = N
    BY <1>1, <1>2
  <2>2. D \in [X -> SUBSET X]
    BY <1>3
  <2>. QED BY <2>1, <2>2, <1>4, <1>13, RoundsReach
<1>15. g[N] = Reached(u, i)
  BY <1>9, ReachedIsWithin DEF N
<1>16. \A j \in Reached(u, i) : Deps(u, j) \subseteq Reached(u, i)
  BY <1>3, <1>14, <1>15
<1>17. ASSUME NEW T, i \in T, \A j \in T \cap X : Deps(u, j) \subseteq T PROVE Reached(u, i) \subseteq T
  BY <1>3, <1>14, <1>15, <1>17
<1>. QED BY <1>14, <1>15, <1>16, <1>17 DEF X

(* Who is reached reaches on. *)
LEMMA ReachedOn ==
  ASSUME NEW S, NEW u \in Seq(S), NEW i \in DOMAIN u, NEW j \in Reached(u, i)
  PROVE  Reached(u, j) \subseteq Reached(u, i)
<1>1. j \in DOMAIN u
  BY ReachedFacts
<1>2. \A k \in Reached(u, i) \cap DOMAIN u : Deps(u, k) \subseteq Reached(u, i)
  BY ReachedFacts
<1>3. PICK T : T = Reached(u, i)
  OBVIOUS
<1>. QED BY <1>1, <1>2, <1>3, ReachedFacts

-----------------------------------------------------------------------------
(* The inductive invariant *)

Frame == [v : Place, seen : SUBSET Place]

Types ==
  /\ unit \in Seq(Spec)
  /\ nextIndex \in Nat
  /\ indices \in [Place -> Nat] /\ lowlink \in [Place -> Nat] /\ compOf \in [Place -> Nat]
  /\ stack \in Seq(Place)
  /\ members \in Seq(SUBSET Place)
  /\ frames \in Seq(Frame)
  /\ outcome \in {"running", "planned", "duplicate"}

On == ToSet(stack)
InProgress == {frames[k].v : k \in DOMAIN frames}

(* The stack has what is indexed and without component, oldest first.      *)
Stacked ==
  /\ \A i \in Place : indices[i] <= nextIndex
  /\ On = {i \in Place : indices[i] # 0 /\ compOf[i] = 0}
  /\ \A k, l \in DOMAIN stack : k < l => indices[stack[k]] < indices[stack[l]]

(* The calls in progress are on the stack, each made by the one below it.  *)
FramesOK ==
  /\ \A k \in DOMAIN frames : /\ frames[k].v \in On
                              /\ frames[k].seen \subseteq Deps(unit, frames[k].v)
                              /\ \A w \in frames[k].seen : indices[w] # 0
  /\ \A k, l \in DOMAIN frames : k < l => indices[frames[k].v] < indices[frames[l].v]
  /\ \A k \in DOMAIN frames : k + 1 \in DOMAIN frames => frames[k + 1].v \in frames[k].seen
  /\ \A x \in On : frames # <<>> /\ indices[frames[1].v] <= indices[x]

(* x's place on the stack is in the subtree of the k-th call, or of one    *)
(* that was begun later.                                                   *)
Above(k, x) == indices[frames[k].v] <= indices[x]

(* What is above a call was reached from it.                               *)
Under == \A k \in DOMAIN frames, x \in On : Above(k, x) => x \in Reached(unit, frames[k].v)

(* A lowlink is the index of something on the stack that can be reached.   *)
LowReached ==
  \A x \in On : /\ lowlink[x] <= indices[x]
                /\ \E y \in On : indices[y] = lowlink[x] /\ y \in Reached(unit, x)

(* What has returned and is still on the stack is not the first of its     *)
(* component, and its lowlink has seen all its callees.                    *)
Finished ==
  \A x \in On \ InProgress :
     /\ lowlink[x] < indices[x]
     /\ \A y \in Deps(unit, x) : indices[y] # 0 /\ (y \in On => lowlink[x] <= indices[y])

(* The lowlink of a call in progress has seen what it looked at, but for   *)
(* the callee it waits for, and what has returned to it.                   *)
LowSeen ==
  \A k \in DOMAIN frames :
     /\ \A y \in frames[k].seen :
          y \in On /\ ~(k + 1 \in DOMAIN frames /\ y = frames[k + 1].v) => lowlink[frames[k].v] <= indices[y]
     /\ \A x \in On :
          Above(k, x) /\ ~(k + 1 \in DOMAIN frames /\ Above(k + 1, x)) => lowlink[frames[k].v] <= lowlink[x]

(* A component was complete when it was made, and called earlier ones.     *)
Components ==
  /\ \A i \in Place : compOf[i] <= Len(members) /\ (compOf[i] # 0 => indices[i] # 0)
  /\ \A c \in DOMAIN members, i \in Place : i \in members[c] <=> compOf[i] = c
  /\ \A i \in Place : compOf[i] # 0 =>
       /\ \A j \in Deps(unit, i) : compOf[j] # 0 /\ compOf[j] <= compOf[i]
       /\ \A j \in Place : compOf[j] = compOf[i] => j \in Reached(unit, i)

Outcomes ==
  /\ outcome = "planned" => \A i \in Place : compOf[i] # 0
  /\ outcome # "running" => frames = <<>>
  /\ outcome # "duplicate" => DistinctNames(unit)

Tarjan == Stacked /\ FramesOK /\ Under /\ LowReached /\ Finished /\ LowSeen /\ Components /\ Outcomes
-----------------------------------------------------------------------------
(* Sequences *)

LEMMA FrontFacts ==
  ASSUME NEW S, NEW s \in Seq(S), s # <<>>
  PROVE  /\ Front(s) \in Seq(S) /\ Len(Front(s)) = Len(s) - 1 /\ Len(s) \in Nat \ {0}
         /\ \A k \in 1..Len(s) - 1 : Front(s)[k] = s[k]
<1>1. Len(s) \in Nat \ {0}
  BY EmptySeq
<1>2. PICK n : n = Len(s) - 1
  OBVIOUS
<1>3. \A i \in 1..n : s[i] \in S
  BY <1>1, <1>2
<1>4. 1 \in Int /\ n \in Int /\ n \in Nat
  BY <1>1, <1>2
<1>5. /\ SubSeq(s, 1, n) \in Seq(S)
      /\ Len(SubSeq(s, 1, n)) = IF 1 <= n THEN n - 1 + 1 ELSE 0
      /\ \A i \in 1..n - 1 + 1 : SubSeq(s, 1, n)[i] = s[1 + i - 1]
  BY <1>3, <1>4, SubSeqProperties
<1>6. PICK t : t = SubSeq(s, 1, n)
  OBVIOUS
<1>7. t = Front(s)
  BY <1>2, <1>6 DEF Front
<1>8. t \in Seq(S) /\ Len(t) = n /\ \A i \in 1..n : t[i] = s[i]
  BY <1>4, <1>5, <1>6
<1>. QED BY <1>1, <1>2, <1>7, <1>8

LEMMA Appended ==
  ASSUME NEW S, NEW s \in Seq(S), NEW x \in S
  PROVE  /\ Append(s, x) \in Seq(S) /\ Len(Append(s, x)) = Len(s) + 1
         /\ \A i \in 1..Len(s) : Append(s, x)[i] = s[i]
         /\ Append(s, x)[Len(s) + 1] = x /\ Append(s, x) # <<>> /\ Len(s) \in Nat
BY AppendProperties, LenProperties

(* The calls in progress after the topmost has changed.                     *)
Changed(s, x) == Front(s) \o <<x>>
IsChanged(S, s, x, t) ==
  /\ t \in Seq(S) /\ Len(t) = Len(s)
  /\ t[Len(s)] = x /\ \A k \in 1..Len(s) : k # Len(s) => t[k] = s[k]

LEMMA LastChanged ==
  ASSUME NEW S, NEW s \in Seq(S), s # <<>>, NEW x \in S, NEW t, t = Changed(s, x)
  PROVE  IsChanged(S, s, x, t)
<1>1. PICK r : r = Front(s)
  OBVIOUS
<1>2. /\ r \in Seq(S) /\ Len(r) = Len(s) - 1 /\ Len(s) \in Nat \ {0}
      /\ \A k \in 1..Len(s) - 1 : r[k] = s[k]
  BY <1>1, FrontFacts
<1>3. t = Append(r, x)
  BY <1>1, <1>2, AppendIsConcat DEF Changed
<1>4. /\ t \in Seq(S) /\ Len(t) = Len(r) + 1
      /\ \A i \in 1..Len(r) : t[i] = r[i]
      /\ t[Len(r) + 1] = x
  <2>1. PICK w : w = Append(r, x)
    OBVIOUS
  <2>2. /\ w \in Seq(S) /\ Len(w) = Len(r) + 1
        /\ \A i \in 1..Len(r) : w[i] = r[i]
        /\ w[Len(r) + 1] = x
    BY <1>2, <2>1, Appended
  <2>. QED BY <1>3, <2>1, <2>2
<1>. QED BY <1>2, <1>4 DEF IsChanged

LEMMA ToSetAppend ==
  ASSUME NEW S, NEW s \in Seq(S), NEW x \in S
  PROVE  ToSet(Append(s, x)) = ToSet(s) \cup {x}
<1>1. PICK t : t = Append(s, x)
  OBVIOUS
<1>2. /\ t \in Seq(S) /\ Len(t) = Len(s) + 1 /\ Len(s) \in Nat
      /\ \A i \in 1..Len(s) : t[i] = s[i]
      /\ t[Len(s) + 1] = x
  BY <1>1, Appended
<1>3. DOMAIN t = 1..Len(s) + 1 /\ DOMAIN s = 1..Len(s)
  BY <1>2, LenProperties
<1>4. ASSUME NEW y \in ToSet(t) PROVE y \in ToSet(s) \cup {x}
  <2>1. PICK i \in 1..Len(s) + 1 : y = t[i]
    BY <1>3, <1>4 DEF ToSet
  <2>. QED BY <2>1, <1>2, <1>3 DEF ToSet
<1>5. ASSUME NEW y \in ToSet(s) PROVE y \in ToSet(t)
  <2>1. PICK i \in 1..Len(s) : y = s[i]
    BY <1>3, <1>5 DEF ToSet
  <2>2. i \in 1..Len(s) + 1 /\ t[i] = y
    BY <2>1, <1>2
  <2>. QED BY <2>2, <1>3 DEF ToSet
<1>6. x \in ToSet(t)
  <2>1. Len(s) + 1 \in 1..Len(s) + 1
    BY <1>2
  <2>. QED BY <2>1, <1>2, <1>3 DEF ToSet
<1>. QED BY <1>1, <1>4, <1>5, <1>6

-----------------------------------------------------------------------------
(* What the invariant says of one state *)

LEMMA DepsInside == \A u, i : Deps(u, i) \subseteq DOMAIN u
BY DEF Deps

LEMMA Domains ==
  ASSUME Types
  PROVE  /\ DOMAIN stack = 1..Len(stack) /\ Len(stack) \in Nat
         /\ DOMAIN frames = 1..Len(frames) /\ Len(frames) \in Nat
         /\ DOMAIN members = 1..Len(members) /\ Len(members) \in Nat
         /\ Place = 1..Len(unit)
         /\ On \subseteq Place
         /\ \A k \in DOMAIN frames : frames[k] \in Frame /\ frames[k].v \in Place /\ frames[k].seen \subseteq Place
         /\ (frames # <<>> <=> Len(frames) # 0)
<1>1. /\ stack \in Seq(Place) /\ frames \in Seq(Frame) /\ members \in Seq(SUBSET Place) /\ unit \in Seq(Spec)
  BY DEF Types
<1>2. /\ DOMAIN stack = 1..Len(stack) /\ Len(stack) \in Nat
      /\ DOMAIN frames = 1..Len(frames) /\ Len(frames) \in Nat
      /\ DOMAIN members = 1..Len(members) /\ Len(members) \in Nat
      /\ DOMAIN unit = 1..Len(unit)
  BY <1>1, LenProperties
<1>3. \A k \in 1..Len(stack) : stack[k] \in Place
  BY <1>1
<1>4. On \subseteq Place
  BY <1>2, <1>3 DEF On, ToSet
<1>5. ASSUME NEW k \in DOMAIN frames PROVE frames[k] \in Frame
  BY <1>1, <1>2, <1>5
<1>6. \A f \in Frame : f.v \in Place /\ f.seen \subseteq Place
  BY DEF Frame
<1>7. frames # <<>> <=> Len(frames) # 0
  BY <1>1, EmptySeq
<1>. QED BY <1>2, <1>4, <1>5, <1>6, <1>7 DEF Place

LEMMA OneIndexEach ==
  ASSUME Types, Stacked
  PROVE  /\ \A x, y \in On : indices[x] = indices[y] => x = y
         /\ \A x \in On : \E k \in DOMAIN stack : x = stack[k]
         /\ \A k \in DOMAIN stack : stack[k] \in On
<1>1. \A x \in On : \E k \in DOMAIN stack : x = stack[k]
  BY DEF On, ToSet
<1>2. \A k \in DOMAIN stack : stack[k] \in On
  BY DEF On, ToSet
<1>3. ASSUME NEW x \in On, NEW y \in On, indices[x] = indices[y] PROVE x = y
  <2>1. PICK k, l \in DOMAIN stack : x = stack[k] /\ y = stack[l]
    BY <1>1
  <2>2. /\ k \in Nat /\ l \in Nat
        /\ x \in Place /\ y \in Place
    BY <2>1, Domains
  <2>3. indices[x] \in Nat /\ indices[y] \in Nat
    BY <2>2 DEF Types
  <2>4. CASE k < l
    BY <2>1, <2>3, <2>4, <1>3 DEF Stacked
  <2>5. CASE l < k
    BY <2>1, <2>3, <2>5, <1>3 DEF Stacked
  <2>6. CASE k = l
    BY <2>1, <2>6
  <2>. QED BY <2>2, <2>4, <2>5, <2>6
<1>. QED BY <1>1, <1>2, <1>3

(* Every call in progress is reached from those below it.                   *)
LEMMA CallsReach ==
  ASSUME Types, Tarjan, NEW k \in DOMAIN frames, NEW l \in DOMAIN frames, k <= l
  PROVE  /\ Above(k, frames[l].v) /\ frames[l].v \in On
         /\ frames[l].v \in Reached(unit, frames[k].v)
<1>1. /\ k \in Nat /\ l \in Nat
      /\ frames[k].v \in On /\ frames[l].v \in On
      /\ frames[k].v \in Place /\ frames[l].v \in Place
  BY Domains DEF Tarjan, FramesOK
<1>2. indices[frames[k].v] \in Nat /\ indices[frames[l].v] \in Nat
  BY <1>1 DEF Types
<1>3. indices[frames[k].v] <= indices[frames[l].v]
  <2>1. CASE k = l
    BY <1>2, <2>1
  <2>2. CASE k < l
    BY <1>2, <2>2 DEF Tarjan, FramesOK
  <2>. QED BY <1>1, <2>1, <2>2
<1>. QED BY <1>1, <1>3 DEF Above, Tarjan, Under

(* What is on the stack reaches the call on top: it has a lowlink below its *)
(* index until a call in progress is met.                                   *)
LEMMA StackReachesTop ==
  ASSUME Types, Tarjan, frames # <<>>
  PROVE  \A x \in On : Top.v \in Reached(unit, x)
<1>. DEFINE S == {n \in Nat : \A x \in On : indices[x] = n => Top.v \in Reached(unit, x)}
<1>1. /\ Len(frames) \in DOMAIN frames /\ Top = frames[Len(frames)] /\ On \subseteq Place
      /\ \A k \in DOMAIN frames : k <= Len(frames)
  BY Domains DEF Top, Last
<1>2. ASSUME NEW n \in Nat, \A m \in Nat : m < n => m \in S PROVE n \in S
  <2>1. ASSUME NEW x \in On, indices[x] = n PROVE Top.v \in Reached(unit, x)
    <3>1. CASE x \in InProgress
      <4>1. PICK k \in DOMAIN frames : x = frames[k].v
        BY <3>1 DEF InProgress
      <4>. QED BY <1>1, <4>1, CallsReach
    <3>2. CASE x \notin InProgress
      <4>1. lowlink[x] < indices[x]
        BY <3>2 DEF Tarjan, Finished
      <4>2. PICK y \in On : indices[y] = lowlink[x] /\ y \in Reached(unit, x)
        BY DEF Tarjan, LowReached
      <4>3. indices[y] \in Nat /\ x \in Place /\ y \in Place
        BY <1>1, <4>2 DEF Types
      <4>4. indices[y] \in S
        BY <1>2, <2>1, <4>1, <4>2, <4>3
      <4>5. Top.v \in Reached(unit, y)
        BY <4>4, <4>2
      <4>6. Reached(unit, y) \subseteq Reached(unit, x)
        <5>1. unit \in Seq(Spec) /\ x \in DOMAIN unit
          BY <4>3 DEF Types, Place
        <5>. QED BY <5>1, <4>2, ReachedOn
      <4>. QED BY <4>5, <4>6
    <3>. QED BY <3>1, <3>2
  <2>. QED BY <2>1
<1>3. Nat \subseteq S
  <2>. HIDE DEF S
  <2>. QED BY <1>2, StrongInduction
<1>4. ASSUME NEW x \in On PROVE indices[x] \in Nat
  BY <1>1, <1>4 DEF Types
<1>. QED BY <1>3, <1>4

LEMMA ReachedHere ==
  ASSUME Types, NEW i \in Place
  PROVE  /\ Reached(unit, i) \subseteq Place /\ i \in Reached(unit, i)
         /\ \A j \in Reached(unit, i) : Deps(unit, j) \subseteq Reached(unit, i)
         /\ \A j \in Reached(unit, i) : Reached(unit, j) \subseteq Reached(unit, i)
         /\ \A T : i \in T /\ (\A j \in T \cap Place : Deps(unit, j) \subseteq T) => Reached(unit, i) \subseteq T
<1>1. unit \in Seq(Spec) /\ i \in DOMAIN unit
  BY DEF Types, Place
<1>. QED BY <1>1, ReachedFacts, ReachedOn DEF Place

-----------------------------------------------------------------------------
(* A call of strongconnect *)

(* What the frames below a new call of v are: v has been noted by its caller *)
Caller(below, v) ==
  /\ below \in Seq(Frame) /\ Len(below) = Len(frames)
  /\ \A k \in 1..Len(frames) : below[k].v = frames[k].v
  /\ frames # <<>> => below[Len(frames)].seen = frames[Len(frames)].seen \cup {v}
  /\ \A k \in 1..Len(frames) : k # Len(frames) => below[k].seen = frames[k].seen
  /\ frames # <<>> => v \in Deps(unit, Top.v)

LEMMA EnterFacts ==
  ASSUME Types, Tarjan, NEW v \in Place, indices[v] = 0, NEW below, Caller(below, v), Enter(v, below)
  PROVE  /\ Types' /\ Place' = Place
         /\ On' = On \cup {v} /\ v \notin On
         /\ indices'[v] = nextIndex + 1 /\ lowlink'[v] = nextIndex + 1
         /\ \A i \in Place : i # v => indices'[i] = indices[i] /\ lowlink'[i] = lowlink[i]
         /\ DOMAIN frames' = 1..Len(frames) + 1 /\ Len(frames') = Len(frames) + 1
         /\ \A k \in 1..Len(frames) : frames'[k].v = frames[k].v
         /\ frames # <<>> => frames'[Len(frames)].seen = frames[Len(frames)].seen \cup {v}
         /\ \A k \in 1..Len(frames) : k # Len(frames) => frames'[k].seen = frames[k].seen
         /\ frames'[Len(frames) + 1].v = v /\ frames'[Len(frames) + 1].seen = {}
         /\ stack' = Append(stack, v)
         /\ InProgress' = InProgress \cup {v}
<1>1. /\ nextIndex' = nextIndex + 1
      /\ indices' = [indices EXCEPT ![v] = nextIndex + 1]
      /\ lowlink' = [lowlink EXCEPT ![v] = nextIndex + 1]
      /\ stack' = Append(stack, v)
      /\ frames' = Append(below, [v |-> v, seen |-> {}])
      /\ unit' = unit /\ compOf' = compOf /\ members' = members /\ outcome' = outcome
  BY DEF Enter
<1>2. Place' = Place /\ Frame' = Frame
  <2>1. unit' = unit
    BY <1>1
  <2>. QED BY <2>1 DEF Place, Frame
<1>3. /\ indices' \in [Place -> Nat] /\ lowlink' \in [Place -> Nat]
      /\ indices'[v] = nextIndex + 1 /\ lowlink'[v] = nextIndex + 1
      /\ \A i \in Place : i # v => indices'[i] = indices[i] /\ lowlink'[i] = lowlink[i]
  <2>1. nextIndex \in Nat
    BY DEF Types
  <2>. QED BY <1>1, <2>1 DEF Types
<1>4. PICK f : f = [v |-> v, seen |-> {}]
  OBVIOUS
<1>5. f \in Frame /\ f.v = v /\ f.seen = {}
  BY <1>4 DEF Frame
<1>6. PICK t : t = Append(below, f)
  OBVIOUS
<1>7. /\ t \in Seq(Frame) /\ Len(t) = Len(below) + 1
      /\ \A i \in 1..Len(below) : t[i] = below[i]
      /\ t[Len(below) + 1] = f /\ Len(below) \in Nat
  BY <1>5, <1>6, Appended DEF Caller
<1>8. frames' = t
  BY <1>1, <1>4, <1>6
<1>9. /\ frames' \in Seq(Frame) /\ Len(frames') = Len(frames) + 1 /\ DOMAIN frames' = 1..Len(frames) + 1
      /\ \A i \in 1..Len(frames) : frames'[i] = below[i]
      /\ frames'[Len(frames) + 1] = f
  <2>1. DOMAIN t = 1..Len(t)
    BY <1>7, LenProperties
  <2>. QED BY <1>7, <1>8, <2>1 DEF Caller
<1>10. PICK st : st = Append(stack, v)
  OBVIOUS
<1>11. st \in Seq(Place) /\ ToSet(st) = On \cup {v}
  BY <1>10, Appended, ToSetAppend DEF Types, On
<1>12. stack' = st /\ stack' \in Seq(Place) /\ On' = On \cup {v}
  BY <1>1, <1>10, <1>11 DEF On
<1>13. v \notin On
  BY DEF Tarjan, Stacked
<1>14. Types'
  <2>1. /\ unit' \in Seq(Spec) /\ nextIndex' \in Nat /\ compOf' \in [Place -> Nat]
        /\ members' \in Seq(SUBSET Place) /\ outcome' \in {"running", "planned", "duplicate"}
    <3>1. /\ unit' = unit /\ nextIndex' = nextIndex + 1
          /\ compOf' = compOf /\ members' = members /\ outcome' = outcome
      BY <1>1
    <3>. QED BY <3>1 DEF Types
  <2>. QED BY <1>2, <1>3, <1>9, <1>12, <2>1 DEF Types
<1>15. InProgress' = InProgress \cup {v}
  <2>1. InProgress = {frames[k].v : k \in 1..Len(frames)} /\ Len(frames) \in Nat
    BY Domains DEF InProgress
  <2>2. InProgress' = {frames'[k].v : k \in 1..Len(frames) + 1}
    BY <1>9 DEF InProgress
  <2>3. \A k \in 1..Len(frames) : frames'[k].v = frames[k].v
    BY <1>9 DEF Caller
  <2>4. \A k \in 1..Len(frames) + 1 : k \in 1..Len(frames) \/ k = Len(frames) + 1
    BY <2>1
  <2>5. Len(frames) + 1 \in 1..Len(frames) + 1 /\ \A k \in 1..Len(frames) : k \in 1..Len(frames) + 1
    BY <2>1
  <2>6. ASSUME NEW y \in InProgress' PROVE y \in InProgress \cup {v}
    <3>1. PICK k \in 1..Len(frames) + 1 : y = frames'[k].v
      BY <2>2
    <3>. QED BY <1>5, <1>9, <2>1, <2>3, <2>4, <3>1
  <2>7. ASSUME NEW y \in InProgress PROVE y \in InProgress'
    <3>1. PICK k \in 1..Len(frames) : y = frames[k].v
      BY <2>1
    <3>. QED BY <2>2, <2>3, <2>5, <3>1
  <2>8. v \in InProgress'
    BY <1>5, <1>9, <2>2, <2>5
  <2>. QED BY <2>6, <2>7, <2>8
<1>16. /\ \A k \in 1..Len(frames) : frames'[k].v = frames[k].v
       /\ \A k \in 1..Len(frames) : k # Len(frames) => frames'[k].seen = frames[k].seen
  BY <1>9 DEF Caller
<1>17. frames # <<>> => frames'[Len(frames)].seen = frames[Len(frames)].seen \cup {v}
  <2>1. frames # <<>> => Len(frames) \in 1..Len(frames)
    BY Domains
  <2>. QED BY <1>9, <2>1 DEF Caller
<1>. QED BY <1>1, <1>2, <1>3, <1>5, <1>9, <1>12, <1>13, <1>14, <1>15, <1>16, <1>17

LEMMA EnterKeeps ==
  ASSUME Types, Tarjan, NEW v \in Place, indices[v] = 0, outcome = "running",
         NEW below, Caller(below, v), Enter(v, below)
  PROVE  Types' /\ Tarjan'
<1>20. PICK n : n = Len(frames)
  OBVIOUS
<1>1. /\ Types' /\ Place' = Place
      /\ On' = On \cup {v} /\ v \notin On
      /\ indices'[v] = nextIndex + 1 /\ lowlink'[v] = nextIndex + 1
      /\ \A i \in Place : i # v => indices'[i] = indices[i] /\ lowlink'[i] = lowlink[i]
  BY <1>20, EnterFacts
<1>2. /\ DOMAIN frames' = 1..n + 1 /\ Len(frames') = n + 1
      /\ frames'[n + 1].v = v /\ frames'[n + 1].seen = {}
  BY <1>20, EnterFacts
<1>18. \A k \in 1..n : frames'[k].v = frames[k].v
  BY <1>20, EnterFacts
<1>19. /\ n # 0 => frames'[n].seen = frames[n].seen \cup {v}
       /\ \A k \in 1..n : k # n => frames'[k].seen = frames[k].seen
  BY <1>20, EnterFacts, Domains
<1>3. stack' = Append(stack, v) /\ InProgress' = InProgress \cup {v}
  BY <1>20, EnterFacts
<1>4. nextIndex' = nextIndex + 1 /\ unit' = unit /\ compOf' = compOf /\ members' = members /\ outcome' = outcome
  BY DEF Enter
<1>5. /\ n \in Nat /\ DOMAIN frames = 1..n /\ On \subseteq Place /\ (frames # <<>> <=> n # 0)
      /\ \A k \in 1..n : frames[k].v \in On /\ frames[k].v \in Place /\ frames[k].v # v
      /\ nextIndex \in Nat /\ Len(stack) \in Nat /\ DOMAIN stack = 1..Len(stack)
      /\ \A i \in Place : indices[i] \in Nat /\ lowlink[i] \in Nat /\ indices'[i] \in Nat /\ lowlink'[i] \in Nat
      /\ \A i \in Place : indices[i] <= nextIndex
  <2>1. \A i \in Place : indices[i] \in Nat /\ lowlink[i] \in Nat /\ indices'[i] \in Nat /\ lowlink'[i] \in Nat
    BY <1>1 DEF Types
  <2>. QED BY <1>1, <1>20, <2>1, Domains DEF Tarjan, FramesOK, Types, Stacked
<1>6. \A k \in 1..n + 1 : k \in 1..n \/ k = n + 1
  BY <1>5
<1>7. Stacked'
  <2>1. \A i \in Place : indices'[i] <= nextIndex + 1
    <3>1. ASSUME NEW i \in Place PROVE indices'[i] <= nextIndex + 1
      <4>1. CASE i = v
        BY <1>1, <1>5, <4>1
      <4>2. CASE i # v
        BY <1>1, <1>5, <4>2
      <4>. QED BY <4>1, <4>2
    <3>. QED BY <3>1
  <2>2. On' = {i \in Place : indices'[i] # 0 /\ compOf[i] = 0}
    <3>1. compOf[v] = 0
      BY DEF Tarjan, Components
    <3>2. On = {i \in Place : indices[i] # 0 /\ compOf[i] = 0}
      BY DEF Tarjan, Stacked
    <3>. QED BY <1>1, <1>5, <3>1, <3>2
  <2>3. PICK m, st : m = Len(stack) /\ st = stack'
    BY Zenon
  <2>4. /\ DOMAIN st = 1..m + 1 /\ m \in Nat
        /\ \A k \in 1..m : st[k] = stack[k] /\ stack[k] \in On
        /\ st[m + 1] = v
    <3>1. st \in Seq(Place) /\ Len(st) = m + 1 /\ m \in Nat
          /\ \A k \in 1..m : st[k] = stack[k]
      BY <1>3, <2>3, Appended DEF Types
    <3>2. \A k \in 1..m : stack[k] \in On
      BY <1>5, <2>3, OneIndexEach DEF Tarjan
    <3>3. DOMAIN st = 1..Len(st)
      <4>1. st \in Seq(Place)
        BY <3>1
      <4>. QED BY <4>1, LenProperties
    <3>4. DOMAIN st = 1..m + 1 /\ m \in Nat
      BY <3>1, <3>3
    <3>5. \A k \in 1..m : st[k] = stack[k]
      BY <3>1
    <3>6. st[m + 1] = v
      BY <1>3, <2>3, Appended DEF Types
    <3>. QED BY <3>2, <3>4, <3>5, <3>6
  <2>5. ASSUME NEW k \in 1..m + 1, NEW l \in 1..m + 1, k < l PROVE indices'[st[k]] < indices'[st[l]]
    <3>1. k \in 1..m /\ st[k] \in Place /\ st[k] \in On /\ st[k] # v /\ st[k] = stack[k]
      BY <1>1, <1>5, <2>4, <2>5
    <3>2. CASE l = m + 1
      BY <1>1, <1>5, <2>4, <3>1, <3>2
    <3>3. CASE l # m + 1
      <4>1. l \in 1..m /\ st[l] \in Place /\ st[l] # v /\ st[l] = stack[l]
        BY <1>1, <1>5, <2>4, <3>3
      <4>2. indices[stack[k]] < indices[stack[l]]
        BY <1>5, <2>3, <2>5, <3>1, <4>1 DEF Tarjan, Stacked
      <4>. QED BY <1>1, <3>1, <4>1, <4>2
    <3>. QED BY <3>2, <3>3
  <2>6. \A k, l \in DOMAIN stack' : k < l => indices'[stack'[k]] < indices'[stack'[l]]
    BY <2>3, <2>4, <2>5
  <2>7. \A i \in Place' : indices'[i] <= nextIndex'
    BY <1>1, <1>4, <2>1
  <2>8. On' = {i \in Place' : indices'[i] # 0 /\ compOf'[i] = 0}
    BY <1>1, <1>4, <2>2
  <2>. QED BY <2>6, <2>7, <2>8 DEF Stacked
<1>8. \A x \in On : x \in Place /\ x # v /\ indices'[x] = indices[x] /\ lowlink'[x] = lowlink[x]
                    /\ indices[x] <= nextIndex /\ indices[x] \in Nat /\ lowlink[x] \in Nat
  BY <1>1, <1>5
<1>9. \A k \in 1..n, x \in On : Above(k, x)' <=> Above(k, x)
  BY <1>2, <1>18, <1>19, <1>5, <1>8 DEF Above
<1>10. \A x \in On : ~(Above(n + 1, x)')
  <2>1. ASSUME NEW x \in On PROVE ~(indices'[v] <= indices'[x])
    BY <1>1, <1>5, <1>8
  <2>. QED BY <1>2, <2>1 DEF Above
<1>11. FramesOK'
  <2>1. ASSUME NEW k \in 1..n + 1
        PROVE  /\ frames'[k].v \in On'
               /\ frames'[k].seen \subseteq Deps(unit, frames'[k].v)
               /\ \A w \in frames'[k].seen : indices'[w] # 0
    <3>1. CASE k = n + 1
      BY <1>1, <1>2, <1>18, <1>19, <3>1
    <3>2. CASE k # n + 1
      <4>1. k \in 1..n
        BY <1>6, <3>2
      <4>2. /\ frames[k].seen \subseteq Deps(unit, frames[k].v)
            /\ \A w \in frames[k].seen : indices[w] # 0
        BY <1>5, <4>1 DEF Tarjan, FramesOK
      <4>3. frames'[k].seen \subseteq Deps(unit, frames'[k].v)
        <5>1. CASE k = n
          <6>1. v \in Deps(unit, frames[n].v)
            BY <1>5, <1>20, <4>1, <5>1 DEF Caller, Top, Last
          <6>. QED BY <1>2, <1>18, <1>19, <4>1, <4>2, <5>1, <6>1
        <5>2. CASE k # n
          BY <1>2, <1>18, <1>19, <4>1, <4>2, <5>2
        <5>. QED BY <5>1, <5>2
      <4>4. ASSUME NEW w \in frames'[k].seen PROVE indices'[w] # 0
        <5>1. CASE w = v
          BY <1>1, <1>5, <5>1
        <5>2. CASE w # v
          <6>1. w \in frames[k].seen
            <7>1. CASE k = n
              <8>1. frames'[k].seen = frames[k].seen \cup {v}
                BY <1>19, <4>1, <7>1
              <8>. QED BY <8>1, <4>4, <5>2
            <7>2. CASE k # n
              <8>1. frames'[k].seen = frames[k].seen
                BY <1>19, <4>1, <7>2
              <8>. QED BY <8>1, <4>4
            <7>. QED BY <7>1, <7>2
          <6>2. w \in Place
            BY <1>5, <4>1, <6>1, Domains
          <6>. QED BY <1>1, <4>2, <5>2, <6>1, <6>2
        <5>. QED BY <5>1, <5>2
      <4>. QED BY <1>1, <1>2, <1>18, <1>19, <1>5, <4>1, <4>3, <4>4
    <3>. QED BY <3>1, <3>2
  <2>2. ASSUME NEW k \in 1..n + 1, NEW l \in 1..n + 1, k < l
        PROVE  indices'[frames'[k].v] < indices'[frames'[l].v]
    <3>1. k \in 1..n
      BY <1>5, <2>2
    <3>2. CASE l = n + 1
      BY <1>1, <1>2, <1>18, <1>19, <1>5, <1>8, <3>1, <3>2
    <3>3. CASE l # n + 1
      <4>1. l \in 1..n
        BY <1>6, <3>3
      <4>2. indices[frames[k].v] < indices[frames[l].v]
        BY <1>5, <2>2, <3>1, <4>1 DEF Tarjan, FramesOK
      <4>. QED BY <1>2, <1>18, <1>19, <1>5, <1>8, <3>1, <4>1, <4>2
    <3>. QED BY <3>2, <3>3
  <2>3. ASSUME NEW k \in 1..n + 1, k + 1 \in 1..n + 1
        PROVE  frames'[k + 1].v \in frames'[k].seen
    <3>1. k \in 1..n
      BY <1>5, <2>3
    <3>2. CASE k = n
      BY <1>2, <1>18, <1>19, <3>1, <3>2
    <3>3. CASE k # n
      <4>1. k + 1 \in 1..n
        BY <1>5, <3>1, <3>3
      <4>2. frames[k + 1].v \in frames[k].seen
        BY <1>5, <3>1, <4>1 DEF Tarjan, FramesOK
      <4>. QED BY <1>2, <1>18, <1>19, <3>1, <3>3, <4>1, <4>2
    <3>. QED BY <3>2, <3>3
  <2>4. ASSUME NEW x \in On' PROVE frames' # <<>> /\ indices'[frames'[1].v] <= indices'[x]
    <3>1. frames' # <<>>
      BY <1>2, <1>18, <1>19, <1>5
    <3>2. CASE n = 0
      <4>1. On = {}
        BY <1>5, <3>2 DEF Tarjan, FramesOK
      <4>. QED BY <1>1, <1>2, <1>18, <1>19, <1>5, <3>1, <3>2, <4>1
    <3>3. CASE n # 0
      <4>1. 1 \in 1..n /\ frames'[1].v = frames[1].v /\ frames[1].v \in On
        BY <1>2, <1>18, <1>19, <1>5, <3>3
      <4>2. CASE x = v
        BY <1>1, <1>8, <3>1, <4>1, <4>2, <1>5
      <4>3. CASE x # v
        <5>1. x \in On
          BY <1>1, <4>3
        <5>2. indices[frames[1].v] <= indices[x]
          BY <5>1 DEF Tarjan, FramesOK
        <5>. QED BY <1>8, <3>1, <4>1, <5>1, <5>2
      <4>. QED BY <4>2, <4>3
    <3>. QED BY <3>2, <3>3
  <2>5. \A k, l \in DOMAIN frames' : k < l => indices'[frames'[k].v] < indices'[frames'[l].v]
    BY <1>2, <1>18, <1>19, <2>2
  <2>6. \A k \in DOMAIN frames' : k + 1 \in DOMAIN frames' => frames'[k + 1].v \in frames'[k].seen
    BY <1>2, <1>18, <1>19, <2>3
  <2>7. \A k \in DOMAIN frames' : /\ frames'[k].v \in On'
                                  /\ frames'[k].seen \subseteq Deps(unit', frames'[k].v)
                                  /\ \A w \in frames'[k].seen : indices'[w] # 0
    BY <1>2, <1>18, <1>19, <1>4, <2>1
  <2>. QED BY <2>4, <2>5, <2>6, <2>7 DEF FramesOK
<1>12. Under'
  <2>1. ASSUME NEW k \in 1..n + 1, NEW x \in On', Above(k, x)' PROVE x \in Reached(unit, frames'[k].v)
    <3>1. CASE k = n + 1
      <4>1. x = v
        BY <1>1, <1>10, <2>1, <3>1
      <4>. QED BY <1>2, <1>18, <1>19, <3>1, <4>1, ReachedHere
    <3>2. CASE k # n + 1
      <4>1. k \in 1..n /\ frames'[k].v = frames[k].v
        BY <1>2, <1>18, <1>19, <1>6, <3>2
      <4>2. CASE x = v
        <5>1. n \in 1..n /\ k <= n /\ Top = frames[n]
          BY <1>5, <1>20, <4>1 DEF Top, Last
        <5>2. frames[n].v \in Reached(unit, frames[k].v)
          BY <1>5, <4>1, <5>1, CallsReach
        <5>3. v \in Deps(unit, frames[n].v)
          BY <1>5, <4>1, <5>1 DEF Caller
        <5>. QED BY <1>5, <4>1, <4>2, <5>2, <5>3, ReachedHere
      <4>3. CASE x # v
        <5>1. x \in On /\ Above(k, x)
          BY <1>1, <1>9, <2>1, <4>1, <4>3
        <5>. QED BY <1>5, <4>1, <5>1 DEF Tarjan, Under
      <4>. QED BY <4>2, <4>3
    <3>. QED BY <3>1, <3>2
  <2>. QED BY <1>2, <1>18, <1>19, <1>4, <2>1 DEF Under
<1>13. LowReached'
  <2>1. ASSUME NEW x \in On'
        PROVE  lowlink'[x] <= indices'[x] /\ \E y \in On' : indices'[y] = lowlink'[x] /\ y \in Reached(unit, x)
    <3>1. CASE x = v
      BY <1>1, <1>5, <3>1, ReachedHere
    <3>2. CASE x # v
      <4>1. x \in On
        BY <1>1, <3>2
      <4>2. lowlink[x] <= indices[x]
        BY <4>1 DEF Tarjan, LowReached
      <4>3. PICK y \in On : indices[y] = lowlink[x] /\ y \in Reached(unit, x)
        BY <4>1 DEF Tarjan, LowReached
      <4>. QED BY <1>1, <1>8, <4>1, <4>2, <4>3
    <3>. QED BY <3>1, <3>2
  <2>. QED BY <1>4, <2>1 DEF LowReached
<1>14. Finished'
  <2>1. ASSUME NEW x \in On' \ InProgress'
        PROVE  /\ lowlink'[x] < indices'[x]
               /\ \A y \in Deps(unit, x) : indices'[y] # 0 /\ (y \in On' => lowlink'[x] <= indices'[y])
    <3>1. x \in On \ InProgress
      BY <1>1, <1>3, <2>1
    <3>2. /\ lowlink[x] < indices[x]
          /\ \A y \in Deps(unit, x) : indices[y] # 0 /\ (y \in On => lowlink[x] <= indices[y])
      BY <3>1 DEF Tarjan, Finished
    <3>3. ASSUME NEW y \in Deps(unit, x) PROVE indices'[y] # 0 /\ (y \in On' => lowlink'[x] <= indices'[y])
      <4>1. y \in Place /\ y # v
        BY <3>2, DepsInside DEF Place
      <4>. QED BY <1>1, <1>8, <3>1, <3>2, <4>1
    <3>. QED BY <1>8, <3>1, <3>2, <3>3
  <2>. QED BY <1>4, <2>1 DEF Finished
<1>15. LowSeen'
  <2>1. ASSUME NEW k \in 1..n + 1, NEW y \in frames'[k].seen, y \in On',
               ~(k + 1 \in 1..n + 1 /\ y = frames'[k + 1].v)
        PROVE  lowlink'[frames'[k].v] <= indices'[y]
    <3>1. k # n + 1
      BY <1>2, <1>18, <1>19, <2>1
    <3>2. k \in 1..n /\ k + 1 \in 1..n + 1 /\ frames'[k].v = frames[k].v /\ frames[k].v \in On
      BY <1>2, <1>18, <1>19, <1>5, <1>6, <3>1
    <3>3. y # v /\ y \in frames[k].seen
      <4>1. CASE k = n
        BY <1>2, <1>18, <1>19, <2>1, <3>2, <4>1
      <4>2. CASE k # n
        <5>1. y \in frames[k].seen
          BY <1>2, <1>18, <1>19, <2>1, <3>2, <4>2
        <5>2. indices[y] # 0
          BY <1>5, <3>2, <5>1 DEF Tarjan, FramesOK
        <5>. QED BY <5>1, <5>2
      <4>. QED BY <4>1, <4>2
    <3>4. y \in On
      BY <1>1, <2>1, <3>3
    <3>5. ~(k + 1 \in 1..n /\ y = frames[k + 1].v)
      BY <1>2, <1>18, <1>19, <2>1, <3>2
    <3>6. lowlink[frames[k].v] <= indices[y]
      BY <1>5, <3>2, <3>3, <3>4, <3>5 DEF Tarjan, LowSeen
    <3>. QED BY <1>8, <3>2, <3>4, <3>6
  <2>2. ASSUME NEW k \in 1..n + 1, NEW x \in On', Above(k, x)',
               ~(k + 1 \in 1..n + 1 /\ Above(k + 1, x)')
        PROVE  lowlink'[frames'[k].v] <= lowlink'[x]
    <3>1. CASE k = n + 1
      <4>1. x = v
        BY <1>1, <1>10, <2>2, <3>1
      <4>. QED BY <1>1, <1>2, <1>18, <1>19, <1>5, <3>1, <4>1
    <3>2. CASE k # n + 1
      <4>1. k \in 1..n /\ frames'[k].v = frames[k].v /\ frames[k].v \in On /\ k + 1 \in 1..n + 1
        BY <1>2, <1>18, <1>19, <1>5, <1>6, <3>2
      <4>2. x # v
        <5>1. ASSUME x = v PROVE Above(k + 1, v)'
          <6>1. CASE k = n
            BY <1>1, <1>2, <1>18, <1>19, <1>5, <6>1 DEF Above
          <6>2. CASE k # n
            <7>1. k + 1 \in 1..n /\ frames'[k + 1].v = frames[k + 1].v /\ frames[k + 1].v \in On
              BY <1>2, <1>18, <1>19, <1>5, <4>1, <6>2
            <7>. QED BY <1>1, <1>5, <1>8, <7>1 DEF Above
          <6>. QED BY <6>1, <6>2
        <5>. QED BY <2>2, <4>1, <5>1
      <4>3. x \in On /\ Above(k, x)
        BY <1>1, <1>9, <2>2, <4>1, <4>2
      <4>4. ~(k + 1 \in 1..n /\ Above(k + 1, x))
        BY <1>9, <2>2, <4>1, <4>3
      <4>5. lowlink[frames[k].v] <= lowlink[x]
        BY <1>5, <4>1, <4>3, <4>4 DEF Tarjan, LowSeen
      <4>. QED BY <1>8, <4>1, <4>3, <4>5
    <3>. QED BY <3>1, <3>2
  <2>. QED BY <1>2, <1>18, <1>19, <2>1, <2>2 DEF LowSeen
<1>16. Components'
  <2>1. \A i \in Place : compOf[i] # 0 => indices'[i] # 0
    BY <1>1, <1>5 DEF Tarjan, Components
  <2>2. \A i \in Place : compOf[i] <= Len(members)
    BY DEF Tarjan, Components
  <2>. QED BY <1>1, <1>4, <2>1, <2>2 DEF Tarjan, Components
<1>17. Outcomes'
  BY <1>4 DEF Tarjan, Outcomes
<1>. QED BY <1>1, <1>7, <1>11, <1>12, <1>13, <1>14, <1>15, <1>16, <1>17 DEF Tarjan

-----------------------------------------------------------------------------
(* The callee that is looked at *)

LEMMA LeastIs ==
  ASSUME NEW S, S \subseteq Nat, S # {}
  PROVE  Least(S) \in S
BY LeastNatural DEF Least

LEMMA NextCallee ==
  ASSUME Types, Tarjan, frames # <<>>
  PROVE  /\ Len(frames) \in DOMAIN frames /\ Top = frames[Len(frames)] /\ Top \in Frame
         /\ Top.v \in Place /\ Top.v \in On /\ Top.seen \subseteq Deps(unit, Top.v)
         /\ Todo \subseteq Place /\ Todo \subseteq Deps(unit, Top.v)
         /\ Todo # {} => Least(Todo) \in Todo
<1>1. /\ Len(frames) \in DOMAIN frames /\ Top = frames[Len(frames)] /\ Top \in Frame /\ Top.v \in Place
  BY Domains DEF Top, Last
<1>2. Top.v \in On /\ Top.seen \subseteq Deps(unit, Top.v)
  BY <1>1 DEF Tarjan, FramesOK
<1>3. Todo \subseteq Deps(unit, Top.v) /\ Todo \subseteq Place
  BY DepsInside DEF Todo, Place
<1>4. Todo \subseteq Nat
  BY <1>3, Domains
<1>. QED BY <1>1, <1>2, <1>3, <1>4, LeastIs

(* Noting a callee changes the topmost call only.                           *)
Noting(w) == Changed(frames, [Top EXCEPT !.seen = @ \cup {w}])

LEMMA Noted ==
  ASSUME Types, Tarjan, frames # <<>>, NEW w \in Place, NEW t, t = Noting(w)
  PROVE  /\ t \in Seq(Frame) /\ Len(t) = Len(frames)
         /\ \A k \in 1..Len(frames) : t[k].v = frames[k].v
         /\ t[Len(frames)].seen = frames[Len(frames)].seen \cup {w}
         /\ \A k \in 1..Len(frames) : k # Len(frames) => t[k].seen = frames[k].seen
<1>1. PICK f : f = [Top EXCEPT !.seen = @ \cup {w}]
  OBVIOUS
<1>2. Top \in Frame /\ Top = frames[Len(frames)]
  BY NextCallee
<1>3. f = [v |-> Top.v, seen |-> Top.seen \cup {w}] /\ f \in Frame
  BY <1>1, <1>2 DEF Frame
<1>4. f.v = Top.v /\ f.seen = Top.seen \cup {w}
  BY <1>3
<1>5. /\ t \in Seq(Frame) /\ Len(t) = Len(frames)
      /\ t[Len(frames)] = f /\ \A k \in 1..Len(frames) : k # Len(frames) => t[k] = frames[k]
  <2>1. frames \in Seq(Frame) /\ f \in Frame
    BY <1>3 DEF Types
  <2>2. t = Changed(frames, f)
    BY <1>1 DEF Noting
  <2>3. PICK fs, F : fs = frames /\ F = Frame
    BY Zenon
  <2>4. t \in Seq(F) /\ Len(t) = Len(fs) /\ t[Len(fs)] = f /\ \A k \in 1..Len(fs) : k # Len(fs) => t[k] = fs[k]
    <3>1. fs \in Seq(F) /\ fs # <<>> /\ f \in F /\ t = Changed(fs, f)
      BY <2>1, <2>2, <2>3
    <3>2. IsChanged(F, fs, f, t)
      BY <3>1, LastChanged
    <3>. QED BY <3>2 DEF IsChanged
  <2>. QED BY <2>3, <2>4
<1>6. ASSUME NEW k \in 1..Len(frames)
      PROVE  /\ t[k].v = frames[k].v
             /\ k # Len(frames) => t[k].seen = frames[k].seen
  <2>1. CASE k = Len(frames)
    BY <1>2, <1>4, <1>5, <2>1
  <2>2. CASE k # Len(frames)
    BY <1>5, <2>2
  <2>. QED BY <2>1, <2>2
<1>7. t[Len(frames)].seen = frames[Len(frames)].seen \cup {w}
  BY <1>2, <1>4, <1>5
<1>. QED BY <1>5, <1>6, <1>7

LEMMA DescendKeeps ==
  ASSUME Types, Tarjan, Descend
  PROVE  Types' /\ Tarjan'
<1>1. PICK w, below :
        w = Least(Todo) /\ below = Noting(w)
  BY Zenon
<1>2. frames # <<>> /\ Todo # {} /\ indices[w] = 0 /\ Enter(w, below)
  BY <1>1 DEF Descend, Noting, Changed
<1>3. w \in Place /\ w \in Deps(unit, Top.v)
  BY <1>1, <1>2, NextCallee
<1>4. Caller(below, w)
  BY <1>1, <1>2, <1>3, Noted DEF Caller
<1>5. outcome = "running"
  BY <1>2 DEF Tarjan, Outcomes
<1>. QED BY <1>2, <1>3, <1>4, <1>5, EnterKeeps

LEMMA RootKeeps ==
  ASSUME Types, Tarjan, Root
  PROVE  Types' /\ Tarjan'
<1>1. PICK fresh : fresh = {i \in Place : indices[i] = 0}
  OBVIOUS
<1>2. /\ outcome = "running" /\ frames = <<>>
      /\ IF fresh # {} THEN Enter(Least(fresh), <<>>)
         ELSE /\ outcome' = "planned"
              /\ UNCHANGED <<unit, nextIndex, indices, lowlink, stack, compOf, members, frames>>
  BY <1>1 DEF Root
<1>3. CASE fresh # {}
  <2>1. PICK v : v = Least(fresh)
    OBVIOUS
  <2>2. v \in Place /\ indices[v] = 0
    <3>1. fresh \subseteq Nat
      BY <1>1, Domains
    <3>2. v \in fresh
      BY <1>3, <2>1, <3>1, LeastIs
    <3>. QED BY <1>1, <3>2
  <2>3. Enter(v, <<>>)
    BY <1>2, <1>3, <2>1
  <2>4. Caller(<<>>, v)
    <3>1. Len(frames) = 0 /\ Len(<<>>) = 0 /\ <<>> \in Seq(Frame)
      BY <1>2
    <3>2. 1..0 = {}
      OBVIOUS
    <3>. QED BY <1>2, <3>1, <3>2 DEF Caller
  <2>. QED BY <1>2, <2>2, <2>3, <2>4, EnterKeeps
<1>4. CASE fresh = {}
  <2>1. /\ outcome' = "planned" /\ unit' = unit /\ nextIndex' = nextIndex /\ indices' = indices
        /\ lowlink' = lowlink /\ stack' = stack /\ compOf' = compOf /\ members' = members /\ frames' = frames
    BY <1>2, <1>4
  <2>2. Place' = Place /\ On' = On /\ InProgress' = InProgress /\ Frame' = Frame
    BY <2>1 DEF Place, On, InProgress, Frame
  <2>3. Types'
    BY <2>1, <2>2 DEF Types
  <2>4. \A k, x : Above(k, x)' <=> Above(k, x)
    BY <2>1 DEF Above
  <2>5. Stacked' /\ FramesOK' /\ Components' /\ LowReached' /\ Finished'
    BY <2>1, <2>2 DEF Tarjan, Stacked, FramesOK, Components, LowReached, Finished
  <2>6. Under' /\ LowSeen'
    BY <2>1, <2>2 DEF Tarjan, Under, LowSeen, Above
  <2>7. Outcomes'
    <3>1. \A i \in Place : indices[i] # 0
      BY <1>1, <1>4
    <3>2. On = {}
      BY <1>2 DEF Tarjan, FramesOK
    <3>3. \A i \in Place : compOf[i] # 0
      BY <3>1, <3>2 DEF Tarjan, Stacked
    <3>4. outcome' # "running" => frames' = <<>>
      BY <1>2, <2>1
    <3>5. DistinctNames(unit')
      BY <1>2, <2>1 DEF Tarjan, Outcomes
    <3>6. \A i \in Place' : compOf'[i] # 0
      BY <2>1, <2>2, <3>3
    <3>. QED BY <3>4, <3>5, <3>6 DEF Outcomes
  <2>. QED BY <2>3, <2>5, <2>6, <2>7 DEF Tarjan
<1>. QED BY <1>3, <1>4

LEMMA LookKeeps ==
  ASSUME Types, Tarjan, Look
  PROVE  Types' /\ Tarjan'
<1>1. PICK w, v, n : w = Least(Todo) /\ v = Top.v /\ n = Len(frames)
  BY Zenon
<1>2. /\ frames # <<>> /\ Todo # {} /\ indices[w] # 0
      /\ lowlink' = IF w \in On /\ indices[w] < lowlink[v] THEN [lowlink EXCEPT ![v] = indices[w]] ELSE lowlink
      /\ frames' = Noting(w)
      /\ unit' = unit /\ nextIndex' = nextIndex /\ indices' = indices /\ stack' = stack
      /\ compOf' = compOf /\ members' = members /\ outcome' = outcome
  BY <1>1 DEF Look, On, Noting, Changed
<1>3. /\ n \in DOMAIN frames /\ n \in Nat /\ DOMAIN frames = 1..n /\ frames[n].v = v
      /\ v \in Place /\ v \in On /\ w \in Place /\ w \in Deps(unit, v)
      /\ \A k \in 1..n : frames[k].v \in Place /\ frames[k].v \in On
      /\ On \subseteq Place
  <2>1. n \in DOMAIN frames /\ frames[n].v = v /\ v \in Place /\ v \in On /\ w \in Place /\ w \in Deps(unit, v)
    BY <1>1, <1>2, NextCallee
  <2>. QED BY <1>1, <2>1, Domains DEF Tarjan, FramesOK
<1>4. /\ frames' \in Seq(Frame) /\ Len(frames') = n
      /\ \A k \in 1..n : frames'[k].v = frames[k].v
  BY <1>1, <1>2, <1>3, Noted
<1>5. /\ frames'[n].seen = frames[n].seen \cup {w}
      /\ \A k \in 1..n : k # n => frames'[k].seen = frames[k].seen
  BY <1>1, <1>2, <1>3, Noted
<1>6. Place' = Place /\ On' = On /\ Frame' = Frame
  <2>1. unit' = unit /\ stack' = stack
    BY <1>2
  <2>2. Place' = Place /\ On' = On
    BY <2>1 DEF Place, On
  <2>. QED BY <2>2 DEF Frame
<1>7. DOMAIN frames' = 1..n
  BY <1>4, LenProperties
<1>8. InProgress' = InProgress
  BY <1>3, <1>4, <1>7 DEF InProgress
<1>9. \A i \in Place : indices[i] \in Nat /\ lowlink[i] \in Nat
  BY DEF Types
<1>10. /\ lowlink' \in [Place -> Nat]
       /\ \A i \in Place : i # v => lowlink'[i] = lowlink[i]
       /\ lowlink'[v] = lowlink[v] \/ (w \in On /\ lowlink'[v] = indices[w])
       /\ lowlink'[v] <= lowlink[v] /\ (w \in On => lowlink'[v] <= indices[w])
  <2>1. CASE w \in On /\ indices[w] < lowlink[v]
    <3>1. lowlink' = [lowlink EXCEPT ![v] = indices[w]]
      BY <1>2, <2>1
    <3>. QED BY <1>3, <1>9, <2>1, <3>1 DEF Types
  <2>2. CASE ~(w \in On /\ indices[w] < lowlink[v])
    <3>1. lowlink' = lowlink
      BY <1>2, <2>2
    <3>. QED BY <1>3, <1>9, <2>2, <3>1 DEF Types
  <2>. QED BY <2>1, <2>2
<1>11. Types'
  <2>1. /\ unit' \in Seq(Spec) /\ nextIndex' \in Nat /\ indices' \in [Place -> Nat] /\ compOf' \in [Place -> Nat]
        /\ stack' \in Seq(Place) /\ members' \in Seq(SUBSET Place)
        /\ outcome' \in {"running", "planned", "duplicate"}
    BY <1>2 DEF Types
  <2>. QED BY <1>4, <1>6, <1>10, <2>1 DEF Types
<1>12. \A k \in 1..n, x \in On : Above(k, x)' <=> Above(k, x)
  BY <1>2, <1>4 DEF Above
<1>13. Stacked'
  BY <1>2, <1>6 DEF Tarjan, Stacked
<1>14. FramesOK'
  <2>1. ASSUME NEW k \in 1..n
        PROVE  /\ frames'[k].seen \subseteq Deps(unit, frames[k].v)
               /\ \A y \in frames'[k].seen : indices[y] # 0
               /\ frames[k].seen \subseteq frames'[k].seen
    <3>1. /\ frames[k].seen \subseteq Deps(unit, frames[k].v)
          /\ \A y \in frames[k].seen : indices[y] # 0
      BY <1>3 DEF Tarjan, FramesOK
    <3>2. CASE k = n
      <4>1. frames'[k].seen = frames[k].seen \cup {w}
        BY <1>5, <3>2
      <4>. QED BY <1>2, <1>3, <3>1, <3>2, <4>1
    <3>3. CASE k # n
      <4>1. frames'[k].seen = frames[k].seen
        BY <1>5, <3>3
      <4>. QED BY <3>1, <4>1
    <3>. QED BY <3>2, <3>3
  <2>2. \A k \in 1..n : /\ frames'[k].v \in On'
                        /\ frames'[k].seen \subseteq Deps(unit', frames'[k].v)
                        /\ \A y \in frames'[k].seen : indices'[y] # 0
    BY <1>2, <1>3, <1>4, <1>6, <2>1
  <2>3. \A k, l \in 1..n : k < l => indices'[frames'[k].v] < indices'[frames'[l].v]
    BY <1>2, <1>3, <1>4, SMTT(60) DEF Tarjan, FramesOK
  <2>4. \A k \in 1..n : k + 1 \in 1..n => frames'[k + 1].v \in frames'[k].seen
    BY <1>3, <1>4, <2>1 DEF Tarjan, FramesOK
  <2>5. \A x \in On' : frames' # <<>> /\ indices'[frames'[1].v] <= indices'[x]
    <3>1. 1 \in 1..n /\ frames' # <<>>
      BY <1>3, <1>4
    <3>. QED BY <1>2, <1>3, <1>4, <1>6, <3>1 DEF Tarjan, FramesOK
  <2>. QED BY <1>7, <2>2, <2>3, <2>4, <2>5 DEF FramesOK
<1>15. Under'
  BY <1>2, <1>3, <1>4, <1>6, <1>7, <1>12 DEF Tarjan, Under
<1>16. LowReached'
  <2>1. ASSUME NEW x \in On
        PROVE  lowlink'[x] <= indices[x] /\ \E y \in On : indices[y] = lowlink'[x] /\ y \in Reached(unit, x)
    <3>1. lowlink[x] <= indices[x] /\ \E y \in On : indices[y] = lowlink[x] /\ y \in Reached(unit, x)
      BY DEF Tarjan, LowReached
    <3>2. CASE lowlink'[x] = lowlink[x]
      BY <3>1, <3>2
    <3>3. CASE lowlink'[x] # lowlink[x]
      <4>1. x = v /\ w \in On /\ lowlink'[v] = indices[w] /\ lowlink'[v] <= lowlink[v]
        BY <1>3, <1>10, <3>3
      <4>2. w \in Reached(unit, v)
        BY <1>3, ReachedHere
      <4>3. lowlink'[v] \in Nat
        BY <1>3, <1>10
      <4>. QED BY <1>3, <1>9, <3>1, <4>1, <4>2, <4>3
    <3>. QED BY <3>2, <3>3
  <2>. QED BY <1>2, <1>6, <2>1 DEF LowReached
<1>17. Finished'
  <2>1. \A x \in On \ InProgress : x # v /\ x \in Place /\ lowlink'[x] = lowlink[x]
    BY <1>3, <1>10 DEF InProgress
  <2>. QED BY <1>2, <1>6, <1>8, <2>1 DEF Tarjan, Finished
<1>18. LowSeen'
  <2>1. \A k \in 1..n : k # n => frames[k].v # v /\ lowlink'[frames[k].v] = lowlink[frames[k].v]
    <3>1. ASSUME NEW k \in 1..n, k # n PROVE frames[k].v # v
      <4>1. indices[frames[k].v] < indices[frames[n].v]
        BY <1>3, <3>1 DEF Tarjan, FramesOK
      <4>. QED BY <1>3, <1>9, <4>1
    <3>. QED BY <1>3, <1>10, <3>1
  <2>2. ASSUME NEW k \in 1..n, NEW y \in frames'[k].seen, y \in On,
               ~(k + 1 \in 1..n /\ y = frames[k + 1].v)
        PROVE  lowlink'[frames[k].v] <= indices[y]
    <3>1. CASE y \in frames[k].seen
      <4>1. lowlink[frames[k].v] <= indices[y]
        BY <1>3, <2>2, <3>1 DEF Tarjan, LowSeen
      <4>2. lowlink'[frames[k].v] <= lowlink[frames[k].v]
        BY <1>3, <1>9, <1>10, <2>1
      <4>3. /\ lowlink'[frames[k].v] \in Nat /\ lowlink[frames[k].v] \in Nat /\ indices[y] \in Nat
        BY <1>3, <1>9, <1>10, <2>2
      <4>. QED BY <4>1, <4>2, <4>3
    <3>2. CASE y \notin frames[k].seen
      <4>1. k = n /\ y = w
        BY <1>5, <2>2, <3>2
      <4>. QED BY <1>3, <1>10, <2>2, <4>1
    <3>. QED BY <3>1, <3>2
  <2>3. ASSUME NEW k \in 1..n, NEW x \in On, Above(k, x), ~(k + 1 \in 1..n /\ Above(k + 1, x))
        PROVE  lowlink'[frames[k].v] <= lowlink'[x]
    <3>1. lowlink[frames[k].v] <= lowlink[x]
      BY <1>3, <2>3 DEF Tarjan, LowSeen
    <3>2. /\ lowlink'[frames[k].v] \in Nat /\ lowlink[frames[k].v] \in Nat /\ lowlink[x] \in Nat
      BY <1>3, <1>9, <1>10, <2>3
    <3>3. CASE k = n
      <4>1. CASE x = v
        BY <1>3, <3>2, <3>3, <4>1
      <4>2. CASE x # v
        <5>1. lowlink'[x] = lowlink[x] /\ lowlink'[v] <= lowlink[v]
          BY <1>3, <1>10, <2>3, <4>2
        <5>. QED BY <1>3, <3>1, <3>2, <3>3, <5>1
      <4>. QED BY <4>1, <4>2
    <3>4. CASE k # n
      <4>1. k + 1 \in 1..n /\ k + 1 <= n /\ k + 1 \in DOMAIN frames
        BY <1>3, <3>4
      <4>2. Above(k + 1, v)
        BY <1>3, <4>1, CallsReach
      <4>3. x # v
        BY <2>3, <4>1, <4>2
      <4>4. lowlink'[x] = lowlink[x]
        BY <1>3, <1>10, <2>3, <4>3
      <4>. QED BY <2>1, <3>1, <3>4, <4>4
    <3>. QED BY <3>3, <3>4
  <2>4. ASSUME NEW k \in 1..n
        PROVE  /\ \A y \in frames'[k].seen :
                    y \in On' /\ ~(k + 1 \in 1..n /\ y = frames'[k + 1].v) => lowlink'[frames'[k].v] <= indices'[y]
               /\ \A x \in On' :
                    Above(k, x)' /\ ~(k + 1 \in 1..n /\ Above(k + 1, x)') => lowlink'[frames'[k].v] <= lowlink'[x]
    <3>1. ASSUME NEW y \in frames'[k].seen, y \in On', ~(k + 1 \in 1..n /\ y = frames'[k + 1].v)
          PROVE  lowlink'[frames'[k].v] <= indices'[y]
      <4>1. y \in On /\ ~(k + 1 \in 1..n /\ y = frames[k + 1].v)
        BY <1>4, <1>6, <3>1
      <4>2. lowlink'[frames[k].v] <= indices[y]
        BY <2>2, <3>1, <4>1
      <4>. QED BY <1>2, <1>4, <4>2
    <3>2. ASSUME NEW x \in On', Above(k, x)', ~(k + 1 \in 1..n /\ Above(k + 1, x)')
          PROVE  lowlink'[frames'[k].v] <= lowlink'[x]
      <4>1. x \in On /\ Above(k, x) /\ ~(k + 1 \in 1..n /\ Above(k + 1, x))
        BY <1>6, <1>12, <3>2
      <4>2. lowlink'[frames[k].v] <= lowlink'[x]
        BY <2>3, <4>1
      <4>. QED BY <1>4, <4>2
    <3>. QED BY <3>1, <3>2
  <2>. QED BY <1>7, <2>4 DEF LowSeen
<1>19. Components'
  BY <1>2, <1>6 DEF Tarjan, Components
<1>20. Outcomes'
  <2>1. outcome = "running"
    BY <1>2 DEF Tarjan, Outcomes
  <2>2. DistinctNames(unit')
    BY <1>2, <2>1 DEF Tarjan, Outcomes
  <2>3. outcome' = "running"
    BY <1>2, <2>1
  <2>. QED BY <2>2, <2>3 DEF Outcomes
<1>. QED BY <1>11, <1>13, <1>14, <1>15, <1>16, <1>17, <1>18, <1>19, <1>20 DEF Tarjan

-----------------------------------------------------------------------------
(* The end of a call *)

(* What is above the topmost call calls nothing below its lowlink.          *)
LEMMA LowestCallee ==
  ASSUME Types, Tarjan, frames # <<>>, Todo = {},
         NEW v, v = Top.v, NEW x \in On, indices[v] <= indices[x], NEW y \in Deps(unit, x)
  PROVE  /\ y \in Place /\ indices[y] # 0
         /\ y \in On => lowlink[v] <= indices[y]
         /\ x # v => x \notin InProgress
<1>1. PICK n : n = Len(frames)
  OBVIOUS
<1>2. /\ n \in 1..n /\ DOMAIN frames = 1..n /\ n \in Nat /\ frames[n].v = v
      /\ v \in Place /\ v \in On /\ On \subseteq Place
      /\ n + 1 \notin 1..n
  BY <1>1, NextCallee, Domains
<1>3. y \in Place
  BY DepsInside DEF Place
<1>4. /\ indices[v] \in Nat /\ indices[x] \in Nat /\ indices[y] \in Nat
      /\ lowlink[v] \in Nat /\ lowlink[x] \in Nat
  BY <1>2, <1>3 DEF Types
<1>5. CASE x = v
  <2>1. y \in frames[n].seen
    BY <1>1, <1>2, <1>5, NextCallee DEF Todo
  <2>2. indices[y] # 0
    BY <1>2, <2>1 DEF Tarjan, FramesOK
  <2>3. y \in On => lowlink[v] <= indices[y]
    BY <1>2, <2>1 DEF Tarjan, LowSeen
  <2>. QED BY <1>3, <1>5, <2>2, <2>3
<1>6. CASE x # v
  <2>1. ASSUME x \in InProgress PROVE FALSE
    <3>1. PICK k \in 1..n : x = frames[k].v
      BY <1>2, <2>1 DEF InProgress
    <3>2. k < n
      BY <1>2, <1>6, <3>1
    <3>3. indices[x] < indices[v]
      BY <1>2, <3>1, <3>2 DEF Tarjan, FramesOK
    <3>. QED BY <1>4, <3>3
  <2>2. indices[y] # 0 /\ (y \in On => lowlink[x] <= indices[y])
    BY <2>1 DEF Tarjan, Finished
  <2>3. Above(n, x)
    BY <1>2 DEF Above
  <2>4. lowlink[v] <= lowlink[x]
    BY <1>2, <2>3 DEF Tarjan, LowSeen
  <2>. QED BY <1>3, <1>4, <2>1, <2>2, <2>4
<1>. QED BY <1>5, <1>6

(* The frames that are left, and the order of the calls below the topmost.  *)
LEMMA Left ==
  ASSUME Types, Tarjan, frames # <<>>, NEW v, v = Top.v, NEW n, n = Len(frames),
         frames' = Front(frames), unit' = unit
  PROVE  /\ frames' \in Seq(Frame) /\ Len(frames') = n - 1 /\ DOMAIN frames' = 1..n - 1
         /\ Place' = Place /\ Frame' = Frame
         /\ n \in 1..n /\ n \in Nat /\ DOMAIN frames = 1..n /\ frames[n].v = v
         /\ v \in Place /\ v \in On /\ On \subseteq Place
         /\ \A k \in 1..n - 1 : k \in 1..n /\ k # n /\ frames'[k] = frames[k]
         /\ \A k \in 1..n - 1 : frames[k].v \in Place /\ frames[k].v \in On
         /\ \A k \in 1..n - 1 : indices[frames[k].v] < indices[v] /\ frames[k].v # v
         /\ InProgress' = InProgress \ {v}
<1>1. /\ n \in 1..n /\ n \in Nat /\ DOMAIN frames = 1..n /\ frames[n].v = v
      /\ v \in Place /\ v \in On /\ On \subseteq Place
      /\ \A k \in 1..n : frames[k].v \in Place /\ frames[k].v \in On
  BY NextCallee, Domains DEF Tarjan, FramesOK
<1>2. /\ frames' \in Seq(Frame) /\ Len(frames') = n - 1
      /\ \A k \in 1..n - 1 : frames'[k] = frames[k]
  BY FrontFacts DEF Types
<1>3. DOMAIN frames' = 1..n - 1
  BY <1>2, LenProperties
<1>4. Place' = Place /\ Frame' = Frame
  BY DEF Place, Frame
<1>5. \A k \in 1..n - 1 : k \in 1..n /\ k # n /\ k < n
  BY <1>1
<1>6. ASSUME NEW k \in 1..n - 1 PROVE indices[frames[k].v] < indices[v] /\ frames[k].v # v
  <2>1. indices[frames[k].v] < indices[v]
    BY <1>1, <1>5 DEF Tarjan, FramesOK
  <2>2. indices[v] \in Nat
    BY <1>1 DEF Types
  <2>. QED BY <2>1, <2>2
<1>7. InProgress' = InProgress \ {v}
  <2>1. \A k \in 1..n : k = n \/ k \in 1..n - 1
    BY <1>1
  <2>2. InProgress = {frames[k].v : k \in 1..n}
    BY <1>1 DEF InProgress
  <2>3. InProgress' = {frames'[k].v : k \in 1..n - 1}
    BY <1>3 DEF InProgress
  <2>4. ASSUME NEW x \in InProgress' PROVE x \in InProgress \ {v}
    <3>1. PICK k \in 1..n - 1 : x = frames'[k].v
      BY <2>3
    <3>. QED BY <1>2, <1>5, <1>6, <2>2, <3>1
  <2>5. ASSUME NEW x \in InProgress \ {v} PROVE x \in InProgress'
    <3>1. PICK k \in 1..n : x = frames[k].v
      BY <2>2
    <3>2. k \in 1..n - 1
      BY <1>1, <2>1, <2>5, <3>1
    <3>. QED BY <1>2, <2>3, <3>1, <3>2
  <2>. QED BY <2>4, <2>5
<1>. QED BY <1>1, <1>2, <1>3, <1>4, <1>5, <1>6, <1>7

(* The frames that are left are still as they should be, if their calls and *)
(* only what was on the stack is on the stack.                              *)
LEMMA LeftOK ==
  ASSUME Types, Tarjan, frames # <<>>, NEW v, v = Top.v, NEW n, n = Len(frames),
         frames' = Front(frames), unit' = unit, indices' = indices,
         On' \subseteq On, \A k \in 1..n - 1 : frames[k].v \in On',
         \A x \in On' : n # 1
  PROVE  FramesOK' /\ Under'
<1>1. /\ DOMAIN frames' = 1..n - 1
      /\ n \in 1..n /\ n \in Nat /\ DOMAIN frames = 1..n
      /\ \A k \in 1..n - 1 : k \in 1..n /\ frames'[k] = frames[k]
  BY Left
<1>2. \A k \in 1..n - 1 : /\ frames'[k].v \in On'
                          /\ frames'[k].seen \subseteq Deps(unit', frames'[k].v)
                          /\ \A w \in frames'[k].seen : indices'[w] # 0
  BY <1>1 DEF Tarjan, FramesOK
<1>3. \A k, l \in 1..n - 1 : k < l => indices'[frames'[k].v] < indices'[frames'[l].v]
  BY <1>1 DEF Tarjan, FramesOK
<1>4. \A k \in 1..n - 1 : k + 1 \in 1..n - 1 => frames'[k + 1].v \in frames'[k].seen
  BY <1>1 DEF Tarjan, FramesOK
<1>5. ASSUME NEW x \in On' PROVE frames' # <<>> /\ indices'[frames'[1].v] <= indices'[x]
  <2>1. 1 \in 1..n - 1
    BY <1>1, <1>5
  <2>2. frames' # <<>>
    BY <1>1, <2>1
  <2>3. indices[frames[1].v] <= indices[x]
    BY <1>5 DEF Tarjan, FramesOK
  <2>. QED BY <1>1, <2>1, <2>2, <2>3
<1>6. FramesOK'
  BY <1>1, <1>2, <1>3, <1>4, <1>5 DEF FramesOK
<1>7. Under'
  <2>1. \A k \in 1..n - 1, x \in On' : Above(k, x)' => x \in Reached(unit, frames[k].v)
    BY <1>1 DEF Tarjan, Under, Above
  <2>. QED BY <1>1, <2>1 DEF Under
<1>. QED BY <1>6, <1>7

(* v is not the first of its component: it stays, and its caller has seen   *)
(* what it has.                                                             *)
LEMMA ReturnInsideKeeps ==
  ASSUME Types, Tarjan, Return, lowlink[Top.v] # indices[Top.v]
  PROVE  Types' /\ Tarjan'
<1>1. PICK v, n : v = Top.v /\ n = Len(frames)
  BY Zenon
<1>2. /\ frames # <<>> /\ Todo = {} /\ lowlink[v] # indices[v]
      /\ frames' = Front(frames)
      /\ unit' = unit /\ nextIndex' = nextIndex /\ indices' = indices /\ stack' = stack
      /\ compOf' = compOf /\ members' = members /\ outcome' = outcome
  BY <1>1 DEF Return
<1>3. /\ frames' \in Seq(Frame) /\ Len(frames') = n - 1 /\ DOMAIN frames' = 1..n - 1
      /\ Place' = Place /\ Frame' = Frame
      /\ n \in 1..n /\ n \in Nat /\ DOMAIN frames = 1..n /\ frames[n].v = v
      /\ v \in Place /\ v \in On /\ On \subseteq Place
      /\ \A k \in 1..n - 1 : k \in 1..n /\ k # n /\ frames'[k] = frames[k]
      /\ \A k \in 1..n - 1 : frames[k].v \in Place /\ frames[k].v \in On
      /\ \A k \in 1..n - 1 : indices[frames[k].v] < indices[v] /\ frames[k].v # v
      /\ InProgress' = InProgress \ {v}
  BY <1>1, <1>2, Left
<1>4. \A i \in Place : indices[i] \in Nat /\ lowlink[i] \in Nat
  BY DEF Types
<1>5. lowlink[v] < indices[v]
  BY <1>2, <1>3, <1>4 DEF Tarjan, LowReached
<1>6. PICK z \in On : indices[z] = lowlink[v] /\ z \in Reached(unit, v)
  BY <1>3 DEF Tarjan, LowReached
<1>7. n # 1
  <2>1. indices[frames[1].v] <= indices[z]
    BY <1>6 DEF Tarjan, FramesOK
  <2>. QED BY <1>3, <1>4, <1>5, <1>6, <2>1
<1>8. PICK c : c = frames[n - 1].v
  OBVIOUS
<1>9. n - 1 \in 1..n - 1 /\ c \in Place /\ c \in On /\ c # v /\ indices[c] < indices[v]
      /\ n - 1 \in Nat /\ (n - 1) + 1 = n /\ n > 1 /\ frames'[n - 1].v = c
  BY <1>3, <1>7, <1>8
<1>10. lowlink' = IF lowlink[v] < lowlink[c] THEN [lowlink EXCEPT ![c] = lowlink[v]] ELSE lowlink
  <2>1. Last(frames').v = c
    BY <1>3, <1>9 DEF Last
  <2>. QED BY <1>1, <1>9, <2>1 DEF Return
<1>11. /\ lowlink' \in [Place -> Nat]
       /\ \A i \in Place : i # c => lowlink'[i] = lowlink[i]
       /\ lowlink'[c] = lowlink[c] \/ lowlink'[c] = lowlink[v]
       /\ lowlink'[c] <= lowlink[c] /\ lowlink'[c] <= lowlink[v] /\ lowlink'[c] \in Nat
  <2>1. CASE lowlink[v] < lowlink[c]
    <3>1. lowlink' = [lowlink EXCEPT ![c] = lowlink[v]]
      BY <1>10, <2>1
    <3>. QED BY <1>3, <1>4, <1>9, <2>1, <3>1 DEF Types
  <2>2. CASE ~(lowlink[v] < lowlink[c])
    <3>1. lowlink' = lowlink
      BY <1>10, <2>2
    <3>. QED BY <1>3, <1>4, <1>9, <2>2, <3>1 DEF Types
  <2>. QED BY <2>1, <2>2
<1>12. On' = On
  BY <1>2 DEF On
<1>13. Types'
  <2>1. /\ unit' \in Seq(Spec) /\ nextIndex' \in Nat /\ indices' \in [Place -> Nat] /\ compOf' \in [Place -> Nat]
        /\ stack' \in Seq(Place) /\ members' \in Seq(SUBSET Place)
        /\ outcome' \in {"running", "planned", "duplicate"}
    BY <1>2 DEF Types
  <2>. QED BY <1>3, <1>11, <2>1 DEF Types
<1>14. Stacked'
  BY <1>2, <1>3, <1>12 DEF Tarjan, Stacked
<1>15. FramesOK' /\ Under'
  BY <1>1, <1>2, <1>3, <1>7, <1>12, LeftOK
<1>16. LowReached'
  <2>1. ASSUME NEW x \in On
        PROVE  lowlink'[x] <= indices[x] /\ \E y \in On : indices[y] = lowlink'[x] /\ y \in Reached(unit, x)
    <3>1. lowlink[x] <= indices[x] /\ \E y \in On : indices[y] = lowlink[x] /\ y \in Reached(unit, x)
      BY DEF Tarjan, LowReached
    <3>2. CASE lowlink'[x] = lowlink[x]
      BY <3>1, <3>2
    <3>3. CASE lowlink'[x] # lowlink[x]
      <4>1. x = c /\ lowlink'[c] = lowlink[v] /\ lowlink'[c] <= lowlink[c]
        BY <1>3, <1>11, <3>3
      <4>2. v \in Reached(unit, c)
        <5>1. n - 1 \in DOMAIN frames /\ n \in DOMAIN frames /\ n - 1 <= n
          BY <1>3, <1>9
        <5>2. frames[n].v \in Reached(unit, frames[n - 1].v)
          BY <5>1, CallsReach
        <5>. QED BY <5>2, <1>3, <1>8
      <4>3. z \in Reached(unit, c)
        <5>1. Reached(unit, v) \subseteq Reached(unit, c)
          BY <1>9, <4>2, ReachedHere
        <5>. QED BY <1>6, <5>1
      <4>4. lowlink'[c] <= indices[c]
        BY <1>4, <1>9, <1>11, <3>1, <4>1
      <4>. QED BY <1>6, <4>1, <4>3, <4>4
    <3>. QED BY <3>2, <3>3
  <2>. QED BY <1>2, <1>12, <2>1 DEF LowReached
<1>17. Finished'
  <2>1. ASSUME NEW x \in On \ InProgress'
        PROVE  /\ lowlink'[x] < indices[x]
               /\ \A y \in Deps(unit, x) : indices[y] # 0 /\ (y \in On => lowlink'[x] <= indices[y])
    <3>1. c \in InProgress'
      BY <1>3, <1>9 DEF InProgress
    <3>2. x # c /\ lowlink'[x] = lowlink[x]
      BY <1>3, <1>11, <2>1, <3>1
    <3>3. CASE x = v
      <4>1. \A y \in Deps(unit, v) : indices[y] # 0 /\ (y \in On => lowlink[v] <= indices[y])
        <5>1. indices[v] <= indices[v]
          BY <1>3, <1>4
        <5>. QED BY <1>1, <1>2, <1>3, <5>1, LowestCallee
      <4>. QED BY <1>5, <3>2, <3>3, <4>1
    <3>4. CASE x # v
      <4>1. x \in On \ InProgress
        BY <1>3, <2>1, <3>4
      <4>. QED BY <3>2, <4>1 DEF Tarjan, Finished
    <3>. QED BY <3>3, <3>4
  <2>. QED BY <1>2, <1>12, <2>1 DEF Finished
<1>18. \A k \in 1..n - 1, x \in On : Above(k, x)' <=> Above(k, x)
  BY <1>2, <1>3 DEF Above
<1>19. \A k \in 1..n - 1 : k # n - 1 => frames[k].v # c /\ k + 1 \in 1..n - 1
  <2>1. ASSUME NEW k \in 1..n - 1, k # n - 1 PROVE frames[k].v # c /\ k + 1 \in 1..n - 1
    <3>1. k < n - 1 /\ k + 1 \in 1..n - 1 /\ k \in 1..n /\ n - 1 \in 1..n
      BY <1>3, <2>1
    <3>2. indices[frames[k].v] < indices[frames[n - 1].v]
      BY <1>3, <3>1 DEF Tarjan, FramesOK
    <3>3. frames[k].v # c
      BY <1>4, <1>8, <1>9, <3>2
    <3>. QED BY <3>1, <3>3
  <2>. QED BY <2>1
<1>20. LowSeen'
  <2>1. ASSUME NEW k \in 1..n - 1, NEW y \in frames[k].seen, y \in On,
               ~(k + 1 \in 1..n - 1 /\ y = frames[k + 1].v)
        PROVE  lowlink'[frames[k].v] <= indices[y]
    <3>1. CASE k = n - 1
      <4>1. CASE y = v
        BY <1>3, <1>4, <1>5, <1>8, <1>9, <1>11, <3>1, <4>1
      <4>2. CASE y # v
        <5>1. lowlink[c] <= indices[y]
          BY <1>3, <1>8, <1>9, <2>1, <3>1, <4>2 DEF Tarjan, LowSeen
        <5>2. indices[y] \in Nat
          BY <1>3, <1>4, <2>1
        <5>. QED BY <1>4, <1>8, <1>9, <1>11, <3>1, <5>1, <5>2
      <4>. QED BY <4>1, <4>2
    <3>2. CASE k # n - 1
      <4>1. frames[k].v # c /\ k + 1 \in 1..n - 1 /\ k \in 1..n /\ frames[k].v \in Place
        BY <1>3, <1>19, <3>2
      <4>2. y # frames[k + 1].v
        BY <2>1, <4>1
      <4>3. lowlink[frames[k].v] <= indices[y]
        BY <1>3, <2>1, <4>1, <4>2 DEF Tarjan, LowSeen
      <4>. QED BY <1>11, <4>1, <4>3
    <3>. QED BY <3>1, <3>2
  <2>2. ASSUME NEW k \in 1..n - 1, NEW x \in On, Above(k, x), ~(k + 1 \in 1..n - 1 /\ Above(k + 1, x))
        PROVE  lowlink'[frames[k].v] <= lowlink'[x]
    <3>1. CASE k = n - 1
      <4>1. CASE x = c
        BY <1>8, <1>11, <3>1, <4>1
      <4>2. CASE x # c
        <5>1. lowlink'[x] = lowlink[x] /\ x \in Place
          BY <1>3, <1>11, <4>2
        <5>2. CASE indices[v] <= indices[x]
          <6>1. Above(n, x) /\ n + 1 \notin 1..n
            BY <1>3, <5>2 DEF Above
          <6>2. lowlink[v] <= lowlink[x]
            BY <1>3, <6>1 DEF Tarjan, LowSeen
          <6>. QED BY <1>3, <1>4, <1>8, <1>11, <3>1, <5>1, <6>2
        <5>3. CASE ~(indices[v] <= indices[x])
          <6>1. ~Above(n, x)
            BY <1>3, <5>3 DEF Above
          <6>2. k \in 1..n /\ ~(k + 1 \in 1..n /\ Above(k + 1, x))
            BY <1>3, <1>9, <3>1, <6>1
          <6>3. lowlink[c] <= lowlink[x]
            BY <1>3, <1>8, <2>2, <3>1, <6>2 DEF Tarjan, LowSeen
          <6>. QED BY <1>4, <1>8, <1>9, <1>11, <3>1, <5>1, <6>3
        <5>. QED BY <5>2, <5>3
      <4>. QED BY <4>1, <4>2
    <3>2. CASE k # n - 1
      <4>1. frames[k].v # c /\ k + 1 \in 1..n - 1 /\ k \in 1..n /\ k + 1 \in 1..n /\ frames[k].v \in Place
        BY <1>3, <1>19, <3>2
      <4>2. ~Above(k + 1, x)
        BY <2>2, <4>1
      <4>3. x # c
        <5>1. k + 1 <= n - 1 /\ n - 1 \in DOMAIN frames /\ k + 1 \in DOMAIN frames
          BY <1>3, <1>9, <4>1
        <5>2. Above(k + 1, c)
          BY <1>8, <5>1, CallsReach
        <5>. QED BY <4>2, <5>2
      <4>4. lowlink[frames[k].v] <= lowlink[x]
        BY <1>3, <2>2, <4>1, <4>2 DEF Tarjan, LowSeen
      <4>. QED BY <1>3, <1>11, <2>2, <4>1, <4>3, <4>4
    <3>. QED BY <3>1, <3>2
  <2>3. ASSUME NEW k \in 1..n - 1
        PROVE  /\ \A y \in frames'[k].seen :
                    y \in On' /\ ~(k + 1 \in 1..n - 1 /\ y = frames'[k + 1].v) => lowlink'[frames'[k].v] <= indices'[y]
               /\ \A x \in On' :
                    Above(k, x)' /\ ~(k + 1 \in 1..n - 1 /\ Above(k + 1, x)') => lowlink'[frames'[k].v] <= lowlink'[x]
    <3>1. ASSUME NEW y \in frames'[k].seen, y \in On', ~(k + 1 \in 1..n - 1 /\ y = frames'[k + 1].v)
          PROVE  lowlink'[frames'[k].v] <= indices'[y]
      <4>1. y \in frames[k].seen /\ y \in On /\ ~(k + 1 \in 1..n - 1 /\ y = frames[k + 1].v)
        BY <1>3, <1>12, <3>1
      <4>2. lowlink'[frames[k].v] <= indices[y]
        BY <2>1, <4>1
      <4>. QED BY <1>2, <1>3, <4>2
    <3>2. ASSUME NEW x \in On', Above(k, x)', ~(k + 1 \in 1..n - 1 /\ Above(k + 1, x)')
          PROVE  lowlink'[frames'[k].v] <= lowlink'[x]
      <4>1. x \in On /\ Above(k, x) /\ ~(k + 1 \in 1..n - 1 /\ Above(k + 1, x))
        BY <1>12, <1>18, <3>2
      <4>2. lowlink'[frames[k].v] <= lowlink'[x]
        BY <2>2, <4>1
      <4>. QED BY <1>3, <4>2
    <3>. QED BY <3>1, <3>2
  <2>. QED BY <1>3, <2>3 DEF LowSeen
<1>21. Components'
  BY <1>2, <1>3 DEF Tarjan, Components
<1>22. Outcomes'
  <2>1. outcome = "running"
    BY <1>2 DEF Tarjan, Outcomes
  <2>2. DistinctNames(unit')
    BY <1>2, <2>1 DEF Tarjan, Outcomes
  <2>3. outcome' = "running"
    BY <1>2, <2>1
  <2>. QED BY <2>2, <2>3 DEF Outcomes
<1>. QED BY <1>13, <1>14, <1>15, <1>16, <1>17, <1>20, <1>21, <1>22 DEF Tarjan

(* What Component takes off the stack. *)
Popped(v) == {x \in On : indices[v] <= indices[x]}

LEMMA ComponentPops ==
  ASSUME Types, Tarjan, NEW v \in On, Component(v), unit' = unit
  PROVE  /\ members' = Append(members, Popped(v))
         /\ compOf' = [i \in Place |-> IF i \in Popped(v) THEN Len(members) + 1 ELSE compOf[i]]
         /\ stack' \in Seq(Place) /\ On' = On \ Popped(v)
         /\ DOMAIN stack' \subseteq DOMAIN stack
         /\ \A k \in DOMAIN stack' : stack'[k] = stack[k]
<1>1. PICK at : at = CHOOSE k \in DOMAIN stack : stack[k] = v
  OBVIOUS
<1>2. PICK m : m = Len(stack)
  OBVIOUS
<1>3. at \in 1..m /\ stack[at] = v /\ m \in Nat /\ DOMAIN stack = 1..m
  <2>1. \E k \in DOMAIN stack : stack[k] = v
    BY OneIndexEach DEF Tarjan
  <2>2. at \in DOMAIN stack /\ stack[at] = v
    BY <1>1, <2>1
  <2>. QED BY <1>2, <2>2, Domains
<1>4. PICK top, low : top = SubSeq(stack, at, m) /\ low = SubSeq(stack, 1, at - 1)
  BY Zenon
<1>5. PICK comp : comp = ToSet(top)
  OBVIOUS
<1>6. /\ members' = Append(members, comp)
      /\ compOf' = [i \in Place |-> IF i \in comp THEN Len(members') ELSE compOf[i]]
      /\ stack' = low
  BY <1>1, <1>2, <1>4, <1>5 DEF Component
<1>7. \A k \in 1..m : stack[k] \in Place /\ stack[k] \in On /\ indices[stack[k]] \in Nat
  <2>1. \A k \in 1..m : stack[k] \in Place /\ stack[k] \in On
    BY <1>3, Domains, OneIndexEach DEF Tarjan
  <2>. QED BY <2>1 DEF Types
<1>8. \A k, l \in 1..m : k < l => indices[stack[k]] < indices[stack[l]]
  BY <1>3 DEF Tarjan, Stacked
<1>9. /\ top \in Seq(Place) /\ Len(top) = m - at + 1 /\ DOMAIN top = 1..m - at + 1
      /\ \A i \in 1..m - at + 1 : top[i] = stack[at + i - 1]
  <2>1. \A i \in at..m : stack[i] \in Place
    BY <1>3, <1>7
  <2>2. at \in Int /\ m \in Int /\ at <= m
    BY <1>3
  <2>3. /\ SubSeq(stack, at, m) \in Seq(Place)
        /\ Len(SubSeq(stack, at, m)) = IF at <= m THEN m - at + 1 ELSE 0
        /\ \A i \in 1..m - at + 1 : SubSeq(stack, at, m)[i] = stack[at + i - 1]
    BY <2>1, <2>2, SubSeqProperties
  <2>4. top \in Seq(Place) /\ Len(top) = m - at + 1
    BY <1>4, <2>2, <2>3
  <2>5. DOMAIN top = 1..Len(top)
    BY <2>4, LenProperties
  <2>. QED BY <1>4, <2>3, <2>4, <2>5
<1>10. /\ low \in Seq(Place) /\ Len(low) = at - 1 /\ DOMAIN low = 1..at - 1
       /\ \A i \in 1..at - 1 : low[i] = stack[i]
  <2>1. PICK b : b = at - 1 /\ b \in Nat /\ b \in Int /\ 1 \in Int
    BY <1>3
  <2>2. \A i \in 1..b : stack[i] \in Place
    BY <1>3, <1>7, <2>1
  <2>3. /\ SubSeq(stack, 1, b) \in Seq(Place)
        /\ Len(SubSeq(stack, 1, b)) = IF 1 <= b THEN b - 1 + 1 ELSE 0
        /\ \A i \in 1..b - 1 + 1 : SubSeq(stack, 1, b)[i] = stack[1 + i - 1]
    BY <2>1, <2>2, SubSeqProperties
  <2>4. low = SubSeq(stack, 1, b)
    BY <1>4, <2>1
  <2>5. low \in Seq(Place) /\ Len(low) = b /\ \A i \in 1..b : low[i] = stack[i]
    BY <2>1, <2>3, <2>4
  <2>6. DOMAIN low = 1..Len(low)
    BY <2>5, LenProperties
  <2>. QED BY <2>1, <2>5, <2>6
<1>11. comp = Popped(v)
  <2>1. ASSUME NEW x \in comp PROVE x \in Popped(v)
    <3>1. PICK i \in 1..m - at + 1 : x = top[i]
      BY <1>5, <1>9 DEF ToSet
    <3>2. PICK k : k = at + i - 1 /\ k \in 1..m /\ at <= k
      BY <1>3
    <3>3. x = stack[k]
      BY <1>9, <3>1, <3>2
    <3>4. indices[v] <= indices[x]
      BY <1>3, <1>7, <1>8, <3>2, <3>3
    <3>. QED BY <1>7, <3>2, <3>3, <3>4 DEF Popped
  <2>2. ASSUME NEW x \in Popped(v) PROVE x \in comp
    <3>1. PICK k \in 1..m : x = stack[k]
      BY <1>3, <2>2, OneIndexEach DEF Popped, Tarjan
    <3>2. indices[v] <= indices[x]
      BY <2>2 DEF Popped
    <3>3. at <= k
      BY <1>3, <1>7, <1>8, <3>1, <3>2
    <3>4. PICK i : i = k - at + 1 /\ i \in 1..m - at + 1 /\ at + i - 1 = k
      BY <1>3, <3>3
    <3>5. top[i] = x
      BY <1>9, <3>1, <3>4
    <3>. QED BY <1>5, <1>9, <3>4, <3>5 DEF ToSet
  <2>. QED BY <2>1, <2>2
<1>12. On' = On \ comp
  <2>1. On' = {low[i] : i \in 1..at - 1}
    BY <1>6, <1>10 DEF On, ToSet
  <2>2. ASSUME NEW x \in On' PROVE x \in On \ comp
    <3>1. PICK i \in 1..at - 1 : x = low[i]
      BY <2>1
    <3>2. x = stack[i] /\ i \in 1..m /\ i < at
      BY <1>3, <1>10, <3>1
    <3>3. indices[x] < indices[v] /\ x \in On /\ indices[x] \in Nat /\ indices[v] \in Nat
      BY <1>3, <1>7, <1>8, <3>2
    <3>. QED BY <1>11, <3>3 DEF Popped
  <2>3. ASSUME NEW x \in On \ comp PROVE x \in On'
    <3>1. PICK k \in 1..m : x = stack[k]
      BY <1>3, <2>3, OneIndexEach DEF Tarjan
    <3>2. ~(indices[v] <= indices[x])
      BY <1>11, <2>3 DEF Popped
    <3>3. k \in 1..at - 1
      <4>1. CASE k = at
        BY <1>3, <1>7, <3>1, <3>2, <4>1
      <4>2. CASE at < k
        BY <1>3, <1>7, <1>8, <3>1, <3>2, <4>2
      <4>. QED BY <1>3, <4>1, <4>2
    <3>. QED BY <1>10, <2>1, <3>1, <3>3
  <2>. QED BY <2>2, <2>3
<1>13. Len(members') = Len(members) + 1
  <2>1. comp \in SUBSET Place
    BY <1>11, Domains DEF Popped
  <2>2. PICK M : M = SUBSET Place
    OBVIOUS
  <2>3. members \in Seq(M) /\ comp \in M
    BY <2>1, <2>2 DEF Types
  <2>4. Len(Append(members, comp)) = Len(members) + 1
    BY <2>3, Appended
  <2>. QED BY <1>6, <2>4
<1>14. compOf' = [i \in Place |-> IF i \in comp THEN Len(members) + 1 ELSE compOf[i]]
  BY <1>6, <1>13
<1>15. 1..at - 1 \subseteq 1..m
  BY <1>3
<1>. QED BY <1>3, <1>6, <1>10, <1>11, <1>12, <1>14, <1>15

(* v is the first of its component, which is all that is above it.          *)
LEMMA ReturnRootKeeps ==
  ASSUME Types, Tarjan, Return, lowlink[Top.v] = indices[Top.v]
  PROVE  Types' /\ Tarjan'
<1>1. PICK v, n : v = Top.v /\ n = Len(frames)
  BY Zenon
<1>2. /\ frames # <<>> /\ Todo = {} /\ lowlink[v] = indices[v]
      /\ Component(v) /\ frames' = Front(frames)
      /\ unit' = unit /\ nextIndex' = nextIndex /\ indices' = indices /\ outcome' = outcome
  BY <1>1 DEF Return
<1>3. /\ frames' \in Seq(Frame) /\ Len(frames') = n - 1 /\ DOMAIN frames' = 1..n - 1
      /\ Place' = Place /\ Frame' = Frame
      /\ n \in 1..n /\ n \in Nat /\ DOMAIN frames = 1..n /\ frames[n].v = v
      /\ v \in Place /\ v \in On /\ On \subseteq Place
      /\ \A k \in 1..n - 1 : k \in 1..n /\ k # n /\ frames'[k] = frames[k]
      /\ \A k \in 1..n - 1 : frames[k].v \in Place /\ frames[k].v \in On
      /\ \A k \in 1..n - 1 : indices[frames[k].v] < indices[v] /\ frames[k].v # v
      /\ InProgress' = InProgress \ {v}
  BY <1>1, <1>2, Left
<1>4. \A i \in Place : indices[i] \in Nat /\ lowlink[i] \in Nat /\ compOf[i] \in Nat
  BY DEF Types
<1>5. PICK comp, N : comp = Popped(v) /\ N = Len(members)
  BY Zenon
<1>6. /\ members' = Append(members, comp)
      /\ compOf' = [i \in Place |-> IF i \in comp THEN N + 1 ELSE compOf[i]]
      /\ stack' \in Seq(Place) /\ On' = On \ comp
      /\ DOMAIN stack' \subseteq DOMAIN stack
      /\ \A k \in DOMAIN stack' : stack'[k] = stack[k]
  BY <1>2, <1>3, <1>5, ComponentPops
<1>7. /\ comp \subseteq On /\ comp \subseteq Place /\ v \in comp
      /\ \A x \in comp : indices[v] <= indices[x]
      /\ \A x \in On' : x \in On /\ indices[x] < indices[v]
  BY <1>3, <1>4, <1>5, <1>6 DEF Popped
<1>8. /\ members' \in Seq(SUBSET Place) /\ N \in Nat /\ DOMAIN members = 1..N /\ DOMAIN members' = 1..N + 1
      /\ \A k \in 1..N : members'[k] = members[k]
      /\ members'[N + 1] = comp
  <2>1. PICK M : M = SUBSET Place
    OBVIOUS
  <2>2. members \in Seq(M) /\ comp \in M
    BY <1>7, <2>1 DEF Types
  <2>3. PICK ms : ms = Append(members, comp)
    OBVIOUS
  <2>4. ms \in Seq(M) /\ Len(ms) = N + 1 /\ N \in Nat
    BY <1>5, <2>2, <2>3, Appended
  <2>5. \A k \in 1..N : ms[k] = members[k]
    BY <1>5, <2>2, <2>3, Appended
  <2>6. ms[N + 1] = comp
    BY <1>5, <2>2, <2>3, Appended
  <2>7. DOMAIN ms = 1..N + 1
    <3>1. DOMAIN ms = 1..Len(ms)
      BY <2>4, LenProperties
    <3>. QED BY <2>4, <3>1
  <2>8. DOMAIN members = 1..N
    BY <1>5, Domains
  <2>9. members' = ms
    BY <1>6, <2>3
  <2>. QED BY <2>1, <2>4, <2>5, <2>6, <2>7, <2>8, <2>9
<1>9. /\ compOf' \in [Place -> Nat]
      /\ \A i \in Place : /\ i \in comp => compOf'[i] = N + 1
                          /\ i \notin comp => compOf'[i] = compOf[i]
  BY <1>4, <1>6, <1>8
<1>10. lowlink' = lowlink
  <2>1. CASE Len(frames) > 1
    <3>1. PICK c : c = frames[n - 1].v
      OBVIOUS
    <3>2. n - 1 \in 1..n - 1 /\ Last(frames').v = c
      BY <1>1, <1>3, <2>1, <3>1 DEF Last
    <3>3. c \in Place /\ c \in On /\ indices[c] < indices[v]
      BY <1>3, <3>1, <3>2
    <3>4. lowlink[c] <= indices[c]
      BY <3>3 DEF Tarjan, LowReached
    <3>5. ~(lowlink[v] < lowlink[c])
      BY <1>2, <1>3, <1>4, <3>3, <3>4
    <3>. QED BY <1>1, <3>2, <3>5 DEF Return
  <2>2. CASE ~(Len(frames) > 1)
    BY <2>2 DEF Return
  <2>. QED BY <2>1, <2>2
<1>11. Types'
  <2>1. /\ unit' \in Seq(Spec) /\ nextIndex' \in Nat /\ indices' \in [Place -> Nat] /\ lowlink' \in [Place -> Nat]
        /\ outcome' \in {"running", "planned", "duplicate"}
    BY <1>2, <1>10 DEF Types
  <2>. QED BY <1>3, <1>6, <1>8, <1>9, <2>1 DEF Types
<1>12. Stacked'
  <2>1. \A i \in Place' : indices'[i] <= nextIndex'
    BY <1>2, <1>3 DEF Tarjan, Stacked
  <2>2. On' = {i \in Place' : indices'[i] # 0 /\ compOf'[i] = 0}
    <3>1. On = {i \in Place : indices[i] # 0 /\ compOf[i] = 0}
      BY DEF Tarjan, Stacked
    <3>2. \A i \in Place : compOf'[i] = 0 <=> compOf[i] = 0 /\ i \notin comp
      BY <1>8, <1>9
    <3>. QED BY <1>2, <1>3, <1>6, <3>1, <3>2
  <2>3. \A k, l \in DOMAIN stack' : k < l => indices'[stack'[k]] < indices'[stack'[l]]
    BY <1>2, <1>6 DEF Tarjan, Stacked
  <2>. QED BY <2>1, <2>2, <2>3 DEF Stacked
<1>13. FramesOK' /\ Under'
  <2>1. \A k \in 1..n - 1 : frames[k].v \in On'
    <3>1. ASSUME NEW k \in 1..n - 1, frames[k].v \in comp PROVE FALSE
      <4>1. indices[v] <= indices[frames[k].v] /\ indices[frames[k].v] < indices[v] /\ frames[k].v \in Place
        BY <1>3, <1>7, <3>1
      <4>. QED BY <1>3, <1>4, <4>1
    <3>. QED BY <1>3, <1>6, <3>1
  <2>2. ASSUME NEW x \in On' PROVE n # 1
    <3>1. x \in On /\ indices[x] < indices[v] /\ x \in Place
      BY <1>3, <1>7, <2>2
    <3>2. indices[frames[1].v] <= indices[x]
      BY <3>1 DEF Tarjan, FramesOK
    <3>. QED BY <1>3, <1>4, <3>1, <3>2
  <2>3. On' \subseteq On
    BY <1>6
  <2>. QED BY <1>1, <1>2, <2>1, <2>2, <2>3, LeftOK
<1>14. LowReached'
  <2>1. ASSUME NEW x \in On'
        PROVE  lowlink[x] <= indices[x] /\ \E y \in On' : indices[y] = lowlink[x] /\ y \in Reached(unit, x)
    <3>1. x \in On /\ indices[x] < indices[v] /\ x \in Place
      BY <1>3, <1>7, <2>1
    <3>2. PICK y \in On : indices[y] = lowlink[x] /\ y \in Reached(unit, x)
      BY <3>1 DEF Tarjan, LowReached
    <3>3. lowlink[x] <= indices[x]
      BY <3>1 DEF Tarjan, LowReached
    <3>4. y \notin comp
      <4>1. y \in Place /\ indices[y] < indices[v]
        BY <1>3, <1>4, <3>1, <3>2, <3>3
      <4>. QED BY <1>3, <1>4, <1>7, <4>1
    <3>. QED BY <1>6, <3>2, <3>3, <3>4
  <2>. QED BY <1>2, <1>10, <2>1 DEF LowReached
<1>15. Finished'
  <2>1. ASSUME NEW x \in On' \ InProgress'
        PROVE  /\ lowlink[x] < indices[x]
               /\ \A y \in Deps(unit, x) : indices[y] # 0 /\ (y \in On => lowlink[x] <= indices[y])
    <3>1. x \in On \ InProgress
      BY <1>3, <1>6, <1>7, <2>1
    <3>. QED BY <3>1 DEF Tarjan, Finished
  <2>. QED BY <1>2, <1>6, <1>10, <2>1 DEF Finished
<1>16. LowSeen'
  <2>1. ASSUME NEW k \in 1..n - 1, NEW y \in frames[k].seen, y \in On',
               ~(k + 1 \in 1..n - 1 /\ y = frames[k + 1].v)
        PROVE  lowlink[frames[k].v] <= indices[y]
    <3>1. y \in On /\ y # v
      BY <1>6, <1>7, <2>1
    <3>2. ~(k + 1 \in 1..n /\ y = frames[k + 1].v)
      <4>1. k + 1 \in 1..n => k + 1 \in 1..n - 1 \/ k + 1 = n
        BY <1>3
      <4>. QED BY <1>3, <2>1, <3>1, <4>1
    <3>. QED BY <1>3, <2>1, <3>1, <3>2 DEF Tarjan, LowSeen
  <2>2. ASSUME NEW k \in 1..n - 1, NEW x \in On', Above(k, x), ~(k + 1 \in 1..n - 1 /\ Above(k + 1, x))
        PROVE  lowlink[frames[k].v] <= lowlink[x]
    <3>1. x \in On /\ ~Above(n, x)
      BY <1>3, <1>4, <1>7, <2>2 DEF Above
    <3>2. ~(k + 1 \in 1..n /\ Above(k + 1, x))
      <4>1. k + 1 \in 1..n => k + 1 \in 1..n - 1 \/ k + 1 = n
        BY <1>3
      <4>. QED BY <2>2, <3>1, <4>1
    <3>. QED BY <1>3, <2>2, <3>1, <3>2 DEF Tarjan, LowSeen
  <2>3. \A k \in 1..n - 1, x \in On : Above(k, x)' <=> Above(k, x)
    BY <1>2, <1>3 DEF Above
  <2>4. ASSUME NEW k \in 1..n - 1
        PROVE  /\ \A y \in frames'[k].seen :
                    y \in On' /\ ~(k + 1 \in 1..n - 1 /\ y = frames'[k + 1].v) => lowlink'[frames'[k].v] <= indices'[y]
               /\ \A x \in On' :
                    Above(k, x)' /\ ~(k + 1 \in 1..n - 1 /\ Above(k + 1, x)') => lowlink'[frames'[k].v] <= lowlink'[x]
    <3>1. ASSUME NEW y \in frames'[k].seen, y \in On', ~(k + 1 \in 1..n - 1 /\ y = frames'[k + 1].v)
          PROVE  lowlink'[frames'[k].v] <= indices'[y]
      <4>1. y \in frames[k].seen /\ ~(k + 1 \in 1..n - 1 /\ y = frames[k + 1].v)
        BY <1>3, <3>1
      <4>2. lowlink[frames[k].v] <= indices[y]
        BY <2>1, <3>1, <4>1
      <4>. QED BY <1>2, <1>3, <1>10, <4>2
    <3>2. ASSUME NEW x \in On', Above(k, x)', ~(k + 1 \in 1..n - 1 /\ Above(k + 1, x)')
          PROVE  lowlink'[frames'[k].v] <= lowlink'[x]
      <4>1. Above(k, x) /\ ~(k + 1 \in 1..n - 1 /\ Above(k + 1, x))
        BY <1>7, <2>3, <3>2
      <4>2. lowlink[frames[k].v] <= lowlink[x]
        BY <2>2, <3>2, <4>1
      <4>. QED BY <1>3, <1>10, <4>2
    <3>. QED BY <3>1, <3>2
  <2>. QED BY <1>3, <2>4 DEF LowSeen
<1>17. Components'
  <2>1. \A i \in Place : compOf[i] <= N /\ (compOf[i] # 0 => indices[i] # 0 /\ i \notin comp)
    <3>1. \A i \in Place : compOf[i] <= N /\ (compOf[i] # 0 => indices[i] # 0)
      BY <1>5 DEF Tarjan, Components
    <3>2. \A i \in comp : compOf[i] = 0 /\ indices[i] # 0
      BY <1>7 DEF Tarjan, Stacked
    <3>. QED BY <3>1, <3>2
  <2>2. \A i \in comp : compOf[i] = 0 /\ indices[i] # 0 /\ i \in Place
    BY <1>7 DEF Tarjan, Stacked
  <2>3. \A i \in Place : compOf'[i] <= N + 1 /\ (compOf'[i] # 0 => indices[i] # 0)
    BY <1>4, <1>8, <1>9, <2>1, <2>2
  <2>4. ASSUME NEW c \in 1..N + 1, NEW i \in Place PROVE i \in members'[c] <=> compOf'[i] = c
    <3>1. CASE c = N + 1
      <4>1. compOf[i] # N + 1
        BY <1>4, <1>8, <2>1
      <4>. QED BY <1>8, <1>9, <3>1, <4>1
    <3>2. CASE c # N + 1
      <4>1. c \in 1..N /\ c # 0
        BY <1>8, <3>2
      <4>2. i \in members[c] <=> compOf[i] = c
        BY <1>8, <4>1 DEF Tarjan, Components
      <4>. QED BY <1>8, <1>9, <2>2, <3>2, <4>1, <4>2
    <3>. QED BY <3>1, <3>2
  <2>5. ASSUME NEW i \in Place, compOf'[i] # 0, NEW j \in Deps(unit, i)
        PROVE  compOf'[j] # 0 /\ compOf'[j] <= compOf'[i]
    <3>1. j \in Place
      BY DepsInside DEF Place
    <3>2. CASE i \in comp
      <4>1. indices[j] # 0 /\ (j \in On => indices[v] <= indices[j])
        BY <1>1, <1>2, <1>7, <2>5, <3>2, LowestCallee
      <4>2. CASE compOf[j] = 0
        <5>1. j \in On
          BY <3>1, <4>1, <4>2 DEF Tarjan, Stacked
        <5>2. j \in comp
          BY <1>5, <4>1, <5>1 DEF Popped
        <5>. QED BY <1>8, <1>9, <3>1, <3>2, <5>2
      <4>3. CASE compOf[j] # 0
        BY <1>4, <1>8, <1>9, <2>1, <3>1, <3>2, <4>3
      <4>. QED BY <4>2, <4>3
    <3>3. CASE i \notin comp
      <4>1. compOf'[i] = compOf[i] /\ compOf[i] # 0
        BY <1>9, <2>5, <3>3
      <4>2. compOf[j] # 0 /\ compOf[j] <= compOf[i]
        BY <2>5, <4>1 DEF Tarjan, Components
      <4>. QED BY <1>9, <2>1, <3>1, <4>1, <4>2
    <3>. QED BY <3>2, <3>3
  <2>6. ASSUME NEW i \in Place, compOf'[i] # 0, NEW j \in Place, compOf'[j] = compOf'[i]
        PROVE  j \in Reached(unit, i)
    <3>1. CASE i \in comp
      <4>1. j \in comp
        BY <1>4, <1>8, <1>9, <2>1, <2>6, <3>1
      <4>2. v \in Reached(unit, i)
        BY <1>1, <1>2, <1>7, <3>1, StackReachesTop
      <4>3. j \in Reached(unit, v)
        <5>1. Above(n, j) /\ n \in DOMAIN frames /\ j \in On
          BY <1>3, <1>7, <4>1 DEF Above
        <5>. QED BY <1>3, <5>1 DEF Tarjan, Under
      <4>. QED BY <4>2, <4>3, ReachedHere
    <3>2. CASE i \notin comp
      <4>1. j \notin comp
        BY <1>4, <1>8, <1>9, <2>1, <2>6, <3>2
      <4>2. compOf[i] # 0 /\ compOf[j] = compOf[i]
        BY <1>9, <2>6, <3>2, <4>1
      <4>. QED BY <4>2 DEF Tarjan, Components
    <3>. QED BY <3>1, <3>2
  <2>7. Len(members') = N + 1
    <3>1. DOMAIN members' = 1..Len(members') /\ Len(members') \in Nat
      BY <1>8, LenProperties
    <3>2. N + 1 \in 1..Len(members') /\ (Len(members') # 0 => Len(members') \in 1..N + 1)
      BY <1>8, <3>1
    <3>. QED BY <1>8, <3>1, <3>2
  <2>8. /\ \A i \in Place' : compOf'[i] <= Len(members') /\ (compOf'[i] # 0 => indices'[i] # 0)
        /\ \A c \in DOMAIN members', i \in Place' : i \in members'[c] <=> compOf'[i] = c
    BY <1>2, <1>3, <1>8, <2>3, <2>4, <2>7
  <2>9. \A i \in Place' : compOf'[i] # 0 =>
          /\ \A j \in Deps(unit', i) : compOf'[j] # 0 /\ compOf'[j] <= compOf'[i]
          /\ \A j \in Place' : compOf'[j] = compOf'[i] => j \in Reached(unit', i)
    BY <1>2, <1>3, <2>5, <2>6
  <2>. QED BY <2>8, <2>9 DEF Components
<1>18. Outcomes'
  <2>1. outcome = "running"
    BY <1>2 DEF Tarjan, Outcomes
  <2>2. DistinctNames(unit')
    BY <1>2, <2>1 DEF Tarjan, Outcomes
  <2>3. outcome' = "running"
    BY <1>2, <2>1
  <2>. QED BY <2>2, <2>3 DEF Outcomes
<1>. QED BY <1>11, <1>12, <1>13, <1>14, <1>15, <1>16, <1>17, <1>18 DEF Tarjan

-----------------------------------------------------------------------------
(* The theorems *)

LEMMA TarjanInit ==
  ASSUME Init
  PROVE  Types /\ Tarjan
<1>1. /\ unit \in Unit /\ nextIndex = 0 /\ stack = <<>> /\ members = <<>> /\ frames = <<>>
      /\ indices = [i \in Place |-> 0] /\ lowlink = [i \in Place |-> 0] /\ compOf = [i \in Place |-> 0]
      /\ outcome = IF DistinctNames(unit) THEN "running" ELSE "duplicate"
  BY DEF Init
<1>2. unit \in Seq(Spec)
  BY <1>1, PlanAssumption
<1>3. stack \in Seq(Place) /\ members \in Seq(SUBSET Place) /\ frames \in Seq(Frame)
  BY <1>1, EmptySeq
<1>4. outcome \in {"running", "duplicate"} /\ (outcome # "duplicate" => DistinctNames(unit))
  BY <1>1
<1>5. /\ indices \in [Place -> Nat] /\ lowlink \in [Place -> Nat] /\ compOf \in [Place -> Nat]
      /\ \A i \in Place : indices[i] = 0 /\ compOf[i] = 0
  BY <1>1
<1>6. Types
  BY <1>1, <1>2, <1>3, <1>4, <1>5 DEF Types
<1>7. DOMAIN stack = {} /\ DOMAIN frames = {} /\ DOMAIN members = {} /\ On = {} /\ Len(members) = 0
  <2>1. Len(stack) = 0 /\ Len(frames) = 0 /\ Len(members) = 0 /\ 1..0 = {}
    BY <1>1
  <2>2. DOMAIN stack = {} /\ DOMAIN frames = {} /\ DOMAIN members = {}
    BY <1>6, <2>1, Domains
  <2>. QED BY <2>1, <2>2 DEF On, ToSet
<1>8. Stacked
  BY <1>1, <1>5, <1>7 DEF Stacked
<1>9. FramesOK /\ Under /\ LowReached /\ Finished /\ LowSeen
  BY <1>7 DEF FramesOK, Under, LowReached, Finished, LowSeen
<1>10. Components
  BY <1>5, <1>7 DEF Components
<1>11. Outcomes
  BY <1>1, <1>4 DEF Outcomes
<1>. QED BY <1>6, <1>8, <1>9, <1>10, <1>11 DEF Tarjan

LEMMA TarjanStep ==
  ASSUME Types /\ Tarjan, [Next]_vars
  PROVE  (Types /\ Tarjan)'
<1>1. CASE Root
  BY <1>1, RootKeeps
<1>2. CASE Descend
  BY <1>2, DescendKeeps
<1>3. CASE Look
  BY <1>3, LookKeeps
<1>4. CASE Return
  <2>1. CASE lowlink[Top.v] = indices[Top.v]
    BY <1>4, <2>1, ReturnRootKeeps
  <2>2. CASE lowlink[Top.v] # indices[Top.v]
    BY <1>4, <2>2, ReturnInsideKeeps
  <2>. QED BY <2>1, <2>2
<1>5. CASE UNCHANGED vars
  <2>1. /\ unit' = unit /\ nextIndex' = nextIndex /\ indices' = indices /\ lowlink' = lowlink /\ stack' = stack
        /\ compOf' = compOf /\ members' = members /\ frames' = frames /\ outcome' = outcome
    BY <1>5 DEF vars
  <2>2. Place' = Place /\ On' = On /\ InProgress' = InProgress
    BY <2>1 DEF Place, On, InProgress
  <2>3. Types'
    <3>1. Frame' = Frame
      BY <2>2 DEF Frame
    <3>. QED BY <2>1, <2>2, <3>1 DEF Types
  <2>4. Stacked' /\ FramesOK' /\ Components' /\ LowReached' /\ Finished' /\ Outcomes'
    BY <2>1, <2>2 DEF Tarjan, Stacked, FramesOK, Components, LowReached, Finished, Outcomes
  <2>5. Under' /\ LowSeen'
    BY <2>1, <2>2 DEF Tarjan, Under, LowSeen, Above
  <2>. QED BY <2>3, <2>4, <2>5 DEF Tarjan
<1>. QED BY <1>1, <1>2, <1>3, <1>4, <1>5 DEF Next

(* In every state of the planning: indices and lowlinks are those of        *)
(* functions on the stack, the frames are a path of calls, what is finished *)
(* calls nothing unfinished, and components are made whole.                 *)
THEOREM TarjanHolds == PlanSpec => [](Types /\ Tarjan)
<1>1. Init => Types /\ Tarjan
  BY TarjanInit
<1>2. (Types /\ Tarjan) /\ [Next]_vars => (Types /\ Tarjan)'
  BY TarjanStep
<1>. QED BY <1>1, <1>2, PTL DEF PlanSpec

(* Tarjan's stack has the indexed functions without component in the order  *)
(* of their indices, and each of them reaches the call on top.              *)
THEOREM StackHolds == PlanSpec => []StackSound
<1>1. Types /\ Tarjan => StackSound
  <2>. SUFFICES ASSUME Types, Tarjan PROVE StackSound
    OBVIOUS
  <2>1. ToSet(stack) = {i \in Place : indices[i] # 0 /\ compOf[i] = 0}
    BY DEF Tarjan, Stacked, On
  <2>2. \A k, l \in DOMAIN stack : k < l => indices[stack[k]] < indices[stack[l]]
    BY DEF Tarjan, Stacked
  <2>3. \A k \in DOMAIN stack : frames # <<>> => Top.v \in Reached(unit, stack[k])
    BY StackReachesTop, OneIndexEach DEF Tarjan
  <2>. QED BY <2>1, <2>2, <2>3 DEF StackSound
<1>. QED BY <1>1, TarjanHolds, PTL

(* What a component reaches is in it or in one made before.                 *)
LEMMA ReachedBefore ==
  ASSUME Types, Tarjan, NEW i \in Place, compOf[i] # 0, NEW j \in Reached(unit, i)
  PROVE  j \in Place /\ compOf[j] # 0 /\ compOf[j] <= compOf[i]
<1>. DEFINE T == {k \in Place : compOf[k] # 0 /\ compOf[k] <= compOf[i]}
<1>1. \A k \in Place : compOf[k] \in Nat
  BY DEF Types
<1>2. i \in T
  BY <1>1
<1>3. ASSUME NEW k \in T \cap Place PROVE Deps(unit, k) \subseteq T
  <2>1. ASSUME NEW l \in Deps(unit, k) PROVE l \in T
    <3>1. l \in Place
      BY DepsInside DEF Place
    <3>2. compOf[l] # 0 /\ compOf[l] <= compOf[k]
      BY <1>3 DEF Tarjan, Components
    <3>. QED BY <1>1, <1>3, <3>1, <3>2
  <2>. QED BY <2>1
<1>4. Reached(unit, i) \subseteq T
  <2>. HIDE DEF T
  <2>. QED BY <1>2, <1>3, ReachedHere
<1>. QED BY <1>4

(* A component is complete when it is made, and everything it calls is in   *)
(* one made before.                                                         *)
THEOREM CalleesComeFirst == PlanSpec => []CalleesFirst
<1>1. Types /\ Tarjan => CalleesFirst
  <2>. SUFFICES ASSUME Types, Tarjan, NEW c \in DOMAIN members, NEW i \in members[c], NEW j \in Reached(unit, i)
                PROVE  compOf[j] # 0 /\ compOf[j] <= c
    BY DEF CalleesFirst
  <2>1. c # 0
    BY Domains
  <2>2. i \in Place
    <3>1. c \in 1..Len(members) /\ members \in Seq(SUBSET Place)
      BY Domains DEF Types
    <3>. QED BY <3>1
  <2>3. compOf[i] = c
    BY <2>2 DEF Tarjan, Components
  <2>. QED BY <2>1, <2>2, <2>3, ReachedBefore
<1>. QED BY <1>1, TarjanHolds, PTL

(* In a finished plan two functions share a component exactly when each     *)
(* reaches the other.                                                       *)
LEMMA SameComponent ==
  ASSUME Types, Tarjan, outcome = "planned", NEW i \in Place, NEW j \in Place
  PROVE  /\ compOf[i] # 0 /\ compOf[i] \in DOMAIN members
         /\ compOf[i] = compOf[j] <=> i \in Reached(unit, j) /\ j \in Reached(unit, i)
         /\ compOf[i] = compOf[j] <=> j \in members[compOf[i]]
<1>1. compOf[i] # 0 /\ compOf[j] # 0
  BY DEF Tarjan, Outcomes
<1>2. compOf[i] \in Nat /\ compOf[j] \in Nat /\ compOf[i] <= Len(members)
  BY DEF Types, Tarjan, Components
<1>3. compOf[i] \in DOMAIN members
  BY <1>1, <1>2, Domains
<1>4. compOf[i] = compOf[j] <=> j \in members[compOf[i]]
  BY <1>3 DEF Tarjan, Components
<1>5. ASSUME compOf[i] = compOf[j] PROVE i \in Reached(unit, j) /\ j \in Reached(unit, i)
  BY <1>1, <1>5 DEF Tarjan, Components
<1>6. ASSUME i \in Reached(unit, j), j \in Reached(unit, i) PROVE compOf[i] = compOf[j]
  <2>1. compOf[j] <= compOf[i] /\ compOf[i] <= compOf[j]
    BY <1>1, <1>6, ReachedBefore
  <2>. QED BY <1>2, <2>1
<1>. QED BY <1>1, <1>3, <1>4, <1>5, <1>6

(* In a finished plan two functions are of one component if and only if     *)
(* each reaches the other through calls.                                    *)
THEOREM ComponentsAreExact == PlanSpec => []ComponentsExact
<1>1. Types /\ Tarjan => ComponentsExact
  BY SameComponent DEF ComponentsExact, Mutual
<1>. QED BY <1>1, TarjanHolds, PTL

-----------------------------------------------------------------------------
(* The walk over components *)

Visited(e) ==
  CHOOSE f : f = [n \in Nat |-> IF n = 0 THEN {compOf[e]} ELSE f[n - 1] \cup UNION {CompDeps(c) : c \in f[n - 1]}]

LEMMA ClosureIsVisited == \A e : PlanClosure(e) = {i \in Place : compOf[i] \in Visited(e)[Len(members)]}
BY DEF PlanClosure, Visited

LEMMA VisitedFacts ==
  ASSUME Types, Tarjan, outcome = "planned", NEW e \in Place
  PROVE  LET V == Visited(e)[Len(members)] IN
         /\ V \subseteq DOMAIN members /\ compOf[e] \in V
         /\ \A c \in V : CompDeps(c) \subseteq V
         /\ \A T : compOf[e] \in T /\ (\A c \in T \cap DOMAIN members : CompDeps(c) \subseteq T) => V \subseteq T
<1>. DEFINE X == DOMAIN members
            D == [c \in X |-> CompDeps(c)]
<1>1. PICK N, x0 : N = Len(members) /\ x0 = compOf[e]
  BY Zenon
<1>2. X = 1..N /\ N \in Nat
  BY <1>1, Domains
<1>3. IsFiniteSet(X) /\ Cardinality(X) = N
  <2>1. IsFiniteSet(1..N) /\ Cardinality(1..N) = (IF 1 > N THEN 0 ELSE N - 1 + 1)
    BY <1>2, FS_Interval
  <2>. QED BY <1>2, <2>1
<1>4. x0 \in X
  BY <1>1, SameComponent
<1>5. ASSUME NEW c \in X PROVE CompDeps(c) \subseteq X
  <2>1. ASSUME NEW d \in CompDeps(c) PROVE d \in X
    <3>1. PICK i \in members[c] : \E j \in Deps(unit, i) : d = compOf[j]
      BY DEF CompDeps
    <3>3. PICK j \in Deps(unit, i) : d = compOf[j]
      BY <3>1
    <3>2. j \in Place
      BY DepsInside DEF Place
    <3>. QED BY <3>3, <3>2, SameComponent
  <2>. QED BY <2>1
<1>6. D \in [X -> SUBSET X] /\ \A c \in X : D[c] = CompDeps(c)
  BY <1>5
<1>. HIDE DEF X, D
<1>7. PICK f : Rounds(f, X, x0, D)
  BY <1>4, <1>6, RoundsExist
<1>8. \A n \in Nat \ {0} : f[n] = f[n - 1] \cup UNION {CompDeps(c) : c \in f[n - 1]}
  <2>1. ASSUME NEW n \in Nat \ {0} PROVE f[n] = f[n - 1] \cup UNION {CompDeps(c) : c \in f[n - 1]}
    <3>1. f[n] = f[n - 1] \cup UNION {D[c] : c \in f[n - 1]} /\ f[n - 1] \subseteq X
      BY <1>7 DEF Rounds
    <3>2. {D[c] : c \in f[n - 1]} = {CompDeps(c) : c \in f[n - 1]}
      BY <1>6, <3>1
    <3>. QED BY <3>1, <3>2
  <2>. QED BY <2>1
<1>9. f = [n \in Nat |-> IF n = 0 THEN {x0} ELSE f[n - 1] \cup UNION {CompDeps(c) : c \in f[n - 1]}]
  <2>1. f = [n \in Nat |-> f[n]] /\ f[0] = {x0}
    BY <1>7 DEF Rounds
  <2>. QED BY <2>1, <1>8
<1>10. PICK g : g = Visited(e)
  OBVIOUS
<1>11. g = [n \in Nat |-> IF n = 0 THEN {x0} ELSE g[n - 1] \cup UNION {CompDeps(c) : c \in g[n - 1]}]
  <2>. DEFINE P(h) == h = [n \in Nat |-> IF n = 0 THEN {compOf[e]} ELSE h[n - 1] \cup UNION {CompDeps(c) : c \in h[n - 1]}]
  <2>1. P(f)
    BY <1>1, <1>9
  <2>2. g = CHOOSE h : P(h)
    BY <1>10, Zenon DEF Visited
  <2>3. P(g)
    <3>. HIDE DEF P
    <3>. QED BY <2>1, <2>2
  <2>. QED BY <1>1, <2>3
<1>12. /\ g[0] = {x0} /\ g = [n \in Nat |-> g[n]]
       /\ \A n \in Nat \ {0} : g[n] = g[n - 1] \cup UNION {CompDeps(c) : c \in g[n - 1]}
  BY <1>11
<1>13. ASSUME NEW n \in Nat PROVE g[n] \in SUBSET X
  <2>. DEFINE T == {m \in Nat : g[m] \in SUBSET X}
  <2>1. 0 \in T
    BY <1>4, <1>12
  <2>2. ASSUME NEW m \in Nat, m \in T PROVE m + 1 \in T
    <3>1. m + 1 \in Nat \ {0} /\ (m + 1) - 1 = m
      OBVIOUS
    <3>2. g[m + 1] = g[m] \cup UNION {CompDeps(c) : c \in g[m]}
      BY <1>12, <3>1
    <3>. QED BY <1>5, <2>2, <3>1, <3>2
  <2>3. Nat \subseteq T
    <3>. HIDE DEF T
    <3>. QED BY <2>1, <2>2, SetInduction
  <2>. QED BY <2>3
<1>14. Rounds(g, X, x0, D)
  <2>1. ASSUME NEW n \in Nat \ {0} PROVE g[n] = g[n - 1] \cup UNION {D[c] : c \in g[n - 1]}
    <3>1. n - 1 \in Nat
      OBVIOUS
    <3>2. g[n - 1] \subseteq X
      BY <3>1, <1>13
    <3>3. {D[c] : c \in g[n - 1]} = {CompDeps(c) : c \in g[n - 1]}
      BY <1>6, <3>2
    <3>4. g[n] = g[n - 1] \cup UNION {CompDeps(c) : c \in g[n - 1]}
      BY <1>12
    <3>. QED BY <3>3, <3>4
  <2>. QED BY <1>12, <1>13, <2>1 DEF Rounds
<1>15. PICK V : V = g[N]
  OBVIOUS
<1>16. /\ V \subseteq X /\ x0 \in V
       /\ \A c \in V : D[c] \subseteq V
       /\ \A T : x0 \in T /\ (\A c \in T \cap X : D[c] \subseteq T) => V \subseteq T
  <2>1. N \in Nat /\ IsFiniteSet(X) /\ Cardinality(X) = N
    BY <1>2, <1>3
  <2>2. D \in [X -> SUBSET X]
    BY <1>6
  <2>. QED BY <2>1, <2>2, <1>4, <1>14, <1>15, RoundsReach
<1>17. \A c \in V : CompDeps(c) \subseteq V
  BY <1>6, <1>16
<1>18. \A T : x0 \in T /\ (\A c \in T \cap X : CompDeps(c) \subseteq T) => V \subseteq T
  <2>1. ASSUME NEW T, x0 \in T, \A c \in T \cap X : CompDeps(c) \subseteq T PROVE V \subseteq T
    <3>1. \A c \in T \cap X : D[c] \subseteq T
      BY <1>6, <2>1
    <3>. QED BY <1>16, <2>1, <3>1
  <2>. QED BY <2>1
<1>19. V = Visited(e)[Len(members)] /\ x0 = compOf[e] /\ X = DOMAIN members
  BY <1>1, <1>10, <1>15 DEF X
<1>. QED BY <1>16, <1>17, <1>18, <1>19

(* The functions of the visited components are those that are reached.      *)
LEMMA ClosureIsReached ==
  ASSUME Types, Tarjan, outcome = "planned", NEW e \in Place
  PROVE  PlanClosure(e) = Reached(unit, e)
<1>1. PICK V : V = Visited(e)[Len(members)]
  OBVIOUS
<1>2. /\ V \subseteq DOMAIN members /\ compOf[e] \in V
      /\ \A c \in V : CompDeps(c) \subseteq V
      /\ \A T : compOf[e] \in T /\ (\A c \in T \cap DOMAIN members : CompDeps(c) \subseteq T) => V \subseteq T
  BY <1>1, VisitedFacts
<1>3. PlanClosure(e) = {i \in Place : compOf[i] \in V}
  BY <1>1, ClosureIsVisited
<1>4. Reached(unit, e) \subseteq {i \in Place : compOf[i] \in V}
  <2>. DEFINE T == {i \in Place : compOf[i] \in V}
  <2>1. e \in T
    BY <1>2
  <2>2. ASSUME NEW i \in T \cap Place, NEW j \in Deps(unit, i) PROVE j \in T
    <3>1. j \in Place
      BY DepsInside DEF Place
    <3>2. i \in members[compOf[i]]
      BY SameComponent
    <3>3. compOf[j] = compOf[i] \/ compOf[j] \in CompDeps(compOf[i])
      BY <3>2 DEF CompDeps
    <3>. QED BY <1>2, <2>2, <3>1, <3>3
  <2>3. \A i \in T \cap Place : Deps(unit, i) \subseteq T
    BY <2>2
  <2>. HIDE DEF T
  <2>4. Reached(unit, e) \subseteq T
    BY <2>1, <2>3, ReachedHere
  <2>. QED BY <2>4 DEF T
<1>5. V \subseteq {compOf[j] : j \in Reached(unit, e)}
  <2>. DEFINE T == {compOf[j] : j \in Reached(unit, e)}
  <2>1. compOf[e] \in T
    BY ReachedHere
  <2>2. ASSUME NEW c \in T \cap DOMAIN members, NEW d \in CompDeps(c) PROVE d \in T
    <3>1. PICK j \in Reached(unit, e) : c = compOf[j]
      BY <2>2
    <3>6. PICK i \in members[c] : \E k \in Deps(unit, i) : d = compOf[k]
      BY <2>2 DEF CompDeps
    <3>2. PICK k \in Deps(unit, i) : d = compOf[k]
      BY <3>6
    <3>3. j \in Place /\ i \in Place
      <4>1. c \in 1..Len(members) /\ members \in Seq(SUBSET Place)
        BY <2>2, Domains DEF Types
      <4>. QED BY <3>1, <3>2, <4>1, ReachedHere
    <3>4. i \in Reached(unit, j)
      BY <3>1, <3>2, <3>3, SameComponent
    <3>5. k \in Reached(unit, e)
      BY <3>1, <3>2, <3>3, <3>4, ReachedHere
    <3>. QED BY <3>2, <3>5
  <2>3. \A c \in T \cap DOMAIN members : CompDeps(c) \subseteq T
    BY <2>2
  <2>. HIDE DEF T
  <2>4. V \subseteq T
    BY <1>2, <2>1, <2>3
  <2>. QED BY <2>4 DEF T
<1>6. ASSUME NEW i \in Place, compOf[i] \in V PROVE i \in Reached(unit, e)
  <2>1. PICK j \in Reached(unit, e) : compOf[i] = compOf[j]
    BY <1>5, <1>6
  <2>2. j \in Place
    BY ReachedHere
  <2>3. i \in Reached(unit, j)
    BY <2>1, <2>2, SameComponent
  <2>. QED BY <2>1, <2>2, <2>3, ReachedHere
<1>. QED BY <1>3, <1>4, <1>6

(* The walk over components gives an entry point what it reaches through    *)
(* calls, neither less nor more.                                            *)
THEOREM ClosureIsExact == PlanSpec => []ClosureExact
<1>1. Types /\ Tarjan => ClosureExact
  <2>. SUFFICES ASSUME Types, Tarjan, outcome = "planned", NEW e \in Place
                PROVE  Ordered(unit, PlanClosure(e)) = EntryClosure(unit, NameOf[unit[e]])
    BY DEF ClosureExact
  <2>1. PICK S : S = {i \in DOMAIN unit : \E f \in EntryPoint(unit, NameOf[unit[e]]) : i \in Reached(unit, f)}
    OBVIOUS
  <2>2. EntryPoint(unit, NameOf[unit[e]]) = {e}
    <3>1. DistinctNames(unit)
      BY DEF Tarjan, Outcomes
    <3>. QED BY <3>1 DEF DistinctNames, EntryPoint, Place
  <2>3. S = Reached(unit, e)
    BY <2>1, <2>2, ReachedHere DEF Place
  <2>4. PlanClosure(e) = S
    BY <2>3, ClosureIsReached
  <2>. QED BY <2>1, <2>4 DEF EntryClosure
<1>. QED BY <1>1, TarjanHolds, PTL
=============================================================================
