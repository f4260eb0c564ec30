-------------------- MODULE MoonBack_proofs --------------------
(***************************************************************************)
(* What the passes of MoonBack, which look at one command at a time, let    *)
(* through is what BackRules, which looks at whole programs, allows: for    *)
(* every program of commands as the C interface makes them, of any length.  *)
(* Each pass has an invariant that says what it has after i commands in     *)
(* terms of the program; a lemma that a step of the pass keeps it; and a    *)
(* lemma that the step is refused exactly when command i breaks a rule.     *)
(* Induction over i is the set lemma of DataInduction, and the recursive    *)
(* functions of the model are unfolded by the first lemmas, once.           *)
(***************************************************************************)
EXTENDS BackRules, DataInduction

(* A command of the loop of collect. *)
CollectStep(c, g) == CollectCmd(c, GlobalDecl(c, g))

(* An object before its initializers. *)
Zeros(size) == Some([n \in 1..size |-> 0])

(* The parameters a command adds to a block. *)
ParamsOf(c, params, block) ==
  IF c.dests # <<block>> THEN <<>>
  ELSE CASE c.k = "bindentry" -> params
         [] c.k = "blockparam" -> <<ClifType(c.ty)>>
         [] OTHER -> <<>>

(* A block's parameters after one more command. *)
ParamStep(tys, c, params, block) == tys \o ParamsOf(c, params, block)

(* collect, one command after the other. *)
LEMMA CollectedDef ==
  ASSUME NEW p, Len(p) \in Nat
  PROVE  /\ Collected(p) = [i \in 0..Len(p) |-> Collected(p)[i]]
         /\ Collected(p)[0] = Nothing
         /\ \A i \in 1..Len(p) : Collected(p)[i] = CollectStep(p[i], Collected(p)[i - 1])
<1>. DEFINE n == Len(p)
            Def(f, m) == [i \in 0..m |-> IF i = 0 THEN Nothing ELSE CollectStep(p[i], f[i - 1])]
            C == Collected(p)
            S == {m \in Nat : \E f : f = Def(f, m)}
<1>1. C = CHOOSE f : f = Def(f, n)
  BY DEF Collected, CollectStep
<1>2. 0 \in S
  <2>. DEFINE f == [i \in 0..0 |-> Nothing]
  <2>1. f = Def(f, 0)
    OBVIOUS
  <2>. QED BY <2>1
<1>3. ASSUME NEW m \in Nat, m \in S PROVE m + 1 \in S
  <2>1. PICK f : f = Def(f, m)
    BY <1>3
  <2>. DEFINE h == [i \in 0..(m + 1) |-> IF i = m + 1 THEN CollectStep(p[m + 1], f[m]) ELSE f[i]]
  <2>2. \A i \in 0..m : f[i] = IF i = 0 THEN Nothing ELSE CollectStep(p[i], f[i - 1])
    BY <2>1
  <2>3. h[m + 1] = CollectStep(p[m + 1], f[m]) /\ \A i \in 0..m : h[i] = f[i]
    OBVIOUS
  <2>4. h = [i \in 0..(m + 1) |-> h[i]]
    OBVIOUS
  <2>. HIDE DEF h
  <2>5. \A i \in 0..(m + 1) : h[i] = IF i = 0 THEN Nothing ELSE CollectStep(p[i], h[i - 1])
    <3>1. \A i \in 0..(m + 1) : i = m + 1 \/ (i \in 0..m /\ (i # 0 => i - 1 \in 0..m))
      OBVIOUS
    <3>2. m + 1 - 1 = m /\ m \in 0..m /\ m + 1 # 0
      OBVIOUS
    <3>. QED BY <2>2, <2>3, <3>1, <3>2
  <2>6. h = Def(h, m + 1)
    BY <2>4, <2>5
  <2>. QED BY <2>6
<1>4. n \in S
  <2>. HIDE DEF S
  <2>1. Nat \subseteq S
    BY <1>2, <1>3, SetInduction
  <2>. QED BY <2>1
<1>5. C = Def(C, n)
  <2>1. \E f : f = Def(f, n)
    BY <1>4
  <2>. HIDE DEF Def
  <2>. QED BY <1>1, <2>1
<1>. QED BY <1>5

(* The initializers of an object, one after the other. *)
LEMMA WrittenDef ==
  ASSUME NEW inits, NEW size, NEW d, Len(inits) \in Nat
  PROVE  /\ Written(inits, size, d) = [i \in 0..Len(inits) |-> Written(inits, size, d)[i]]
         /\ Written(inits, size, d)[0] = Zeros(size)
         /\ \A i \in 1..Len(inits) : Written(inits, size, d)[i] = Initialize(Written(inits, size, d)[i - 1], inits[i], d)
<1>. DEFINE n == Len(inits)
            Def(f, m) == [i \in 0..m |-> IF i = 0 THEN Zeros(size) ELSE Initialize(f[i - 1], inits[i], d)]
            C == Written(inits, size, d)
            S == {m \in Nat : \E f : f = Def(f, m)}
<1>1. C = CHOOSE f : f = Def(f, n)
  BY DEF Written, Zeros
<1>2. 0 \in S
  <2>. DEFINE f == [i \in 0..0 |-> Zeros(size)]
  <2>1. f = Def(f, 0)
    OBVIOUS
  <2>. QED BY <2>1
<1>3. ASSUME NEW m \in Nat, m \in S PROVE m + 1 \in S
  <2>1. PICK f : f = Def(f, m)
    BY <1>3
  <2>. DEFINE h == [i \in 0..(m + 1) |-> IF i = m + 1 THEN Initialize(f[m], inits[m + 1], d) ELSE f[i]]
  <2>2. \A i \in 0..m : f[i] = IF i = 0 THEN Zeros(size) ELSE Initialize(f[i - 1], inits[i], d)
    BY <2>1
  <2>3. h[m + 1] = Initialize(f[m], inits[m + 1], d) /\ \A i \in 0..m : h[i] = f[i]
    OBVIOUS
  <2>4. h = [i \in 0..(m + 1) |-> h[i]]
    OBVIOUS
  <2>. HIDE DEF h
  <2>5. \A i \in 0..(m + 1) : h[i] = IF i = 0 THEN Zeros(size) ELSE Initialize(h[i - 1], inits[i], d)
    <3>1. \A i \in 0..(m + 1) : i = m + 1 \/ (i \in 0..m /\ (i # 0 => i - 1 \in 0..m))
      OBVIOUS
    <3>2. m + 1 - 1 = m /\ m \in 0..m /\ m + 1 # 0
      OBVIOUS
    <3>. QED BY <2>2, <2>3, <3>1, <3>2
  <2>6. h = Def(h, m + 1)
    BY <2>4, <2>5
  <2>. QED BY <2>6
<1>4. n \in S
  <2>. HIDE DEF S
  <2>1. Nat \subseteq S
    BY <1>2, <1>3, SetInduction
  <2>. QED BY <2>1
<1>5. C = Def(C, n)
  <2>1. \E f : f = Def(f, n)
    BY <1>4
  <2>. HIDE DEF Def
  <2>. QED BY <1>1, <2>1
<1>. QED BY <1>5

(* Names bound one after the other. *)
LEMMA BoundDef ==
  ASSUME NEW e, NEW dsts, NEW tys, Len(dsts) \in Nat
  PROVE  /\ Bound(e, dsts, tys) = [i \in 0..Len(dsts) |-> Bound(e, dsts, tys)[i]]
         /\ Bound(e, dsts, tys)[0] = e
         /\ \A i \in 1..Len(dsts) : Bound(e, dsts, tys)[i] = BindValue(Bound(e, dsts, tys)[i - 1], dsts[i], tys[i])
<1>. DEFINE n == Len(dsts)
            Def(f, m) == [i \in 0..m |-> IF i = 0 THEN e ELSE BindValue(f[i - 1], dsts[i], tys[i])]
            C == Bound(e, dsts, tys)
            S == {m \in Nat : \E f : f = Def(f, m)}
<1>1. C = CHOOSE f : f = Def(f, n)
  BY DEF Bound
<1>2. 0 \in S
  <2>. DEFINE f == [i \in 0..0 |-> e]
  <2>1. f = Def(f, 0)
    OBVIOUS
  <2>. QED BY <2>1
<1>3. ASSUME NEW m \in Nat, m \in S PROVE m + 1 \in S
  <2>1. PICK f : f = Def(f, m)
    BY <1>3
  <2>. DEFINE h == [i \in 0..(m + 1) |-> IF i = m + 1 THEN BindValue(f[m], dsts[m + 1], tys[m + 1]) ELSE f[i]]
  <2>2. \A i \in 0..m : f[i] = IF i = 0 THEN e ELSE BindValue(f[i - 1], dsts[i], tys[i])
    BY <2>1
  <2>3. h[m + 1] = BindValue(f[m], dsts[m + 1], tys[m + 1]) /\ \A i \in 0..m : h[i] = f[i]
    OBVIOUS
  <2>4. h = [i \in 0..(m + 1) |-> h[i]]
    OBVIOUS
  <2>. HIDE DEF h
  <2>5. \A i \in 0..(m + 1) : h[i] = IF i = 0 THEN e ELSE BindValue(h[i - 1], dsts[i], tys[i])
    <3>1. \A i \in 0..(m + 1) : i = m + 1 \/ (i \in 0..m /\ (i # 0 => i - 1 \in 0..m))
      OBVIOUS
    <3>2. m + 1 - 1 = m /\ m \in 0..m /\ m + 1 # 0
      OBVIOUS
    <3>. QED BY <2>2, <2>3, <3>1, <3>2
  <2>6. h = Def(h, m + 1)
    BY <2>4, <2>5
  <2>. QED BY <2>6
<1>4. n \in S
  <2>. HIDE DEF S
  <2>1. Nat \subseteq S
    BY <1>2, <1>3, SetInduction
  <2>. QED BY <2>1
<1>5. C = Def(C, n)
  <2>1. \E f : f = Def(f, n)
    BY <1>4
  <2>. HIDE DEF Def
  <2>. QED BY <1>1, <2>1
<1>. QED BY <1>5

(* A body, one command after the other. *)
LEMMA LoweredDef ==
  ASSUME NEW q, NEW g, NEW params, Len(q) \in Nat
  PROVE  /\ Lowered(q, g, params) = [i \in 0..Len(q) |-> Lowered(q, g, params)[i]]
         /\ Lowered(q, g, params)[0] = Lowerer
         /\ \A i \in 1..Len(q) : Lowered(q, g, params)[i] = LowerCmd(q[i], Lowered(q, g, params)[i - 1], g, params)
<1>. DEFINE n == Len(q)
            Def(f, m) == [i \in 0..m |-> IF i = 0 THEN Lowerer ELSE LowerCmd(q[i], f[i - 1], g, params)]
            C == Lowered(q, g, params)
            S == {m \in Nat : \E f : f = Def(f, m)}
<1>1. C = CHOOSE f : f = Def(f, n)
  BY DEF Lowered
<1>2. 0 \in S
  <2>. DEFINE f == [i \in 0..0 |-> Lowerer]
  <2>1. f = Def(f, 0)
    OBVIOUS
  <2>. QED BY <2>1
<1>3. ASSUME NEW m \in Nat, m \in S PROVE m + 1 \in S
  <2>1. PICK f : f = Def(f, m)
    BY <1>3
  <2>. DEFINE h == [i \in 0..(m + 1) |-> IF i = m + 1 THEN LowerCmd(q[m + 1], f[m], g, params) ELSE f[i]]
  <2>2. \A i \in 0..m : f[i] = IF i = 0 THEN Lowerer ELSE LowerCmd(q[i], f[i - 1], g, params)
    BY <2>1
  <2>3. h[m + 1] = LowerCmd(q[m + 1], f[m], g, params) /\ \A i \in 0..m : h[i] = f[i]
    OBVIOUS
  <2>4. h = [i \in 0..(m + 1) |-> h[i]]
    OBVIOUS
  <2>. HIDE DEF h
  <2>5. \A i \in 0..(m + 1) : h[i] = IF i = 0 THEN Lowerer ELSE LowerCmd(q[i], h[i - 1], g, params)
    <3>1. \A i \in 0..(m + 1) : i = m + 1 \/ (i \in 0..m /\ (i # 0 => i - 1 \in 0..m))
      OBVIOUS
    <3>2. m + 1 - 1 = m /\ m \in 0..m /\ m + 1 # 0
      OBVIOUS
    <3>. QED BY <2>2, <2>3, <3>1, <3>2
  <2>6. h = Def(h, m + 1)
    BY <2>4, <2>5
  <2>. QED BY <2>6
<1>4. n \in S
  <2>. HIDE DEF S
  <2>1. Nat \subseteq S
    BY <1>2, <1>3, SetInduction
  <2>. QED BY <2>1
<1>5. C = Def(C, n)
  <2>1. \E f : f = Def(f, n)
    BY <1>4
  <2>. HIDE DEF Def
  <2>. QED BY <1>1, <2>1
<1>. QED BY <1>5

(* The parameters of a block, one command after the other. *)
LEMMA ParamTypesDef ==
  ASSUME NEW q, NEW params, NEW block, Len(q) \in Nat
  PROVE  /\ ParamTypes(q, params, block) = [i \in 0..Len(q) |-> ParamTypes(q, params, block)[i]]
         /\ ParamTypes(q, params, block)[0] = <<>>
         /\ \A i \in 1..Len(q) : ParamTypes(q, params, block)[i] = ParamStep(ParamTypes(q, params, block)[i - 1], q[i], params, block)
<1>. DEFINE n == Len(q)
            Def(f, m) == [i \in 0..m |-> IF i = 0 THEN <<>> ELSE ParamStep(f[i - 1], q[i], params, block)]
            C == ParamTypes(q, params, block)
            S == {m \in Nat : \E f : f = Def(f, m)}
<1>1. C = CHOOSE f : f = Def(f, n)
  BY DEF ParamTypes, ParamStep, ParamsOf
<1>2. 0 \in S
  <2>. DEFINE f == [i \in 0..0 |-> <<>>]
  <2>1. f = Def(f, 0)
    OBVIOUS
  <2>. QED BY <2>1
<1>3. ASSUME NEW m \in Nat, m \in S PROVE m + 1 \in S
  <2>1. PICK f : f = Def(f, m)
    BY <1>3
  <2>. DEFINE h == [i \in 0..(m + 1) |-> IF i = m + 1 THEN ParamStep(f[m], q[m + 1], params, block) ELSE f[i]]
  <2>2. \A i \in 0..m : f[i] = IF i = 0 THEN <<>> ELSE ParamStep(f[i - 1], q[i], params, block)
    BY <2>1
  <2>3. h[m + 1] = ParamStep(f[m], q[m + 1], params, block) /\ \A i \in 0..m : h[i] = f[i]
    OBVIOUS
  <2>4. h = [i \in 0..(m + 1) |-> h[i]]
    OBVIOUS
  <2>. HIDE DEF h
  <2>5. \A i \in 0..(m + 1) : h[i] = IF i = 0 THEN <<>> ELSE ParamStep(h[i - 1], q[i], params, block)
    <3>1. \A i \in 0..(m + 1) : i = m + 1 \/ (i \in 0..m /\ (i # 0 => i - 1 \in 0..m))
      OBVIOUS
    <3>2. m + 1 - 1 = m /\ m \in 0..m /\ m + 1 # 0
      OBVIOUS
    <3>. QED BY <2>2, <2>3, <3>1, <3>2
  <2>6. h = Def(h, m + 1)
    BY <2>4, <2>5
  <2>. QED BY <2>6
<1>4. n \in S
  <2>. HIDE DEF S
  <2>1. Nat \subseteq S
    BY <1>2, <1>3, SetInduction
  <2>. QED BY <2>1
<1>5. C = Def(C, n)
  <2>1. \E f : f = Def(f, n)
    BY <1>4
  <2>. HIDE DEF Def
  <2>. QED BY <1>1, <2>1
<1>. QED BY <1>5

(* A set of numbers up to a bound has a greatest one. *)
LEMMA GreatestNatural ==
  ASSUME NEW n \in Nat, NEW T, T \subseteq 0..n, T # {}
  PROVE  \E x \in T : \A y \in T : y <= x
<1>. DEFINE U == {n - y : y \in T}
<1>1. U \subseteq Nat /\ U # {}
  <2>1. PICK y \in T : TRUE
    OBVIOUS
  <2>2. n - y \in U
    OBVIOUS
  <2>3. \A z \in T : n - z \in Nat
    OBVIOUS
  <2>. QED BY <2>2, <2>3
<1>2. PICK u \in U : \A v \in U : u <= v
  <2>. HIDE DEF U
  <2>. QED BY <1>1, LeastNatural
<1>3. PICK x \in T : u = n - x
  BY <1>2
<1>4. ASSUME NEW y \in T PROVE y <= x
  <2>1. n - x <= n - y
    BY <1>2, <1>3
  <2>2. x \in Nat /\ y \in Nat
    OBVIOUS
  <2>. QED BY <2>1, <2>2
<1>. QED BY <1>4

(* Binder is the last command before i that binds the name, or 0. *)
LEMMA BinderFacts ==
  ASSUME NEW q, NEW name, NEW i \in Nat, i > 0
  PROVE  /\ Binder(q, i, name) \in 0..(i - 1)
         /\ Binder(q, i, name) = 0 <=> \A j \in 1..(i - 1) : ~BindsAt(q, j, name)
         /\ Binder(q, i, name) # 0 =>
              /\ BindsAt(q, Binder(q, i, name), name)
              /\ \A j \in 1..(i - 1) : BindsAt(q, j, name) => j <= Binder(q, i, name)
<1>. DEFINE js == {j \in 1..(i - 1) : BindsAt(q, j, name)}
            B == Binder(q, i, name)
<1>1. B = IF js = {} THEN 0 ELSE CHOOSE j \in js : \A l \in js : l <= j
  BY DEF Binder
<1>2. js \subseteq 0..(i - 1) /\ i - 1 \in Nat
  OBVIOUS
<1>3. CASE js = {}
  <2>1. B = 0
    BY <1>1, <1>3
  <2>2. \A j \in 1..(i - 1) : ~BindsAt(q, j, name)
    BY <1>3
  <2>. QED BY <2>1, <2>2
<1>4. CASE js # {}
  <2>. HIDE DEF js
  <2>1. \E j \in js : \A l \in js : l <= j
    BY <1>2, <1>4, GreatestNatural
  <2>2. B \in js /\ \A l \in js : l <= B
    BY <1>1, <1>4, <2>1
  <2>3. B \in 1..(i - 1) /\ BindsAt(q, B, name) /\ \A j \in 1..(i - 1) : BindsAt(q, j, name) => j <= B
    BY <2>2 DEF js
  <2>. HIDE DEF B
  <2>4. B # 0 /\ B \in 0..(i - 1)
    BY <2>3
  <2>5. ~(\A j \in 1..(i - 1) : ~BindsAt(q, j, name))
    BY <2>3
  <2>6. (B = 0) <=> (\A j \in 1..(i - 1) : ~BindsAt(q, j, name))
    BY <2>4, <2>5, Zenon
  <2>. QED BY <2>3, <2>4, <2>6 DEF B
<1>. QED BY <1>3, <1>4

(* The types command i gives to names, from those given before. *)
GivenHere(f, p, q, params, i) ==
  LET c == q[i]
      of(name) == f[Binder(q, i, name)][name]
  IN  [name \in {c.dsts[d] : d \in DOMAIN c.dsts} |->
        CASE c.k \in {"compare", "constbool"} -> "I8"
          [] c.k \in {"constint", "constfloat", "convert", "blockparam"} -> ClifType(c.ty)
          [] c.k \in {"compute", "alias"} -> of(c.uses[1])
          [] c.k = "select" -> of(c.uses[2])
          [] c.k = "callvalue" -> ClifType(The(p, "createsig", c.sig).results[1])
          [] c.k = "bindentry" ->
               ParamTypes(q, params, c.dests[1])[i][CHOOSE d \in DOMAIN c.dsts : c.dsts[d] = name]
          [] OTHER -> "I64"]

(* The types given depend on those given before. *)
LEMMA GivenLocal ==
  ASSUME NEW p, NEW q, NEW params, NEW i \in Nat, i > 0, NEW f, NEW h,
         \A j \in 0..(i - 1) : f[j] = h[j]
  PROVE  GivenHere(f, p, q, params, i) = GivenHere(h, p, q, params, i)
<1>1. \A name : Binder(q, i, name) \in 0..(i - 1)
  BY BinderFacts
<1>2. \A name : f[Binder(q, i, name)][name] = h[Binder(q, i, name)][name]
  BY <1>1
<1>. QED BY <1>2 DEF GivenHere

(* Each command's types, from those of the commands before it. *)
LEMMA GivenDef ==
  ASSUME NEW p, NEW q, NEW params, Len(q) \in Nat
  PROVE  \A i \in 1..Len(q) : GivenTypes(p, q, params)[i] = GivenHere(GivenTypes(p, q, params), p, q, params, i)
<1>. DEFINE n == Len(q)
            Here(f, i) == GivenHere(f, p, q, params, i)
            Def(f, m) == [i \in 0..m |-> IF i = 0 THEN <<>> ELSE Here(f, i)]
            C == GivenTypes(p, q, params)
            S == {m \in Nat : \E f : f = Def(f, m)}
<1>1. C = CHOOSE f : f = Def(f, n)
  BY DEF GivenTypes, GivenHere
<1>2. 0 \in S
  <2>. DEFINE f == [i \in 0..0 |-> <<>>]
  <2>1. f = Def(f, 0)
    <3>1. \A i \in 0..0 : i = 0
      OBVIOUS
    <3>. HIDE DEF Here
    <3>. QED BY <3>1
  <2>. QED BY <2>1
<1>3. ASSUME NEW m \in Nat, m \in S PROVE m + 1 \in S
  <2>1. PICK f : f = Def(f, m)
    BY <1>3
  <2>. DEFINE h == [i \in 0..(m + 1) |-> IF i = m + 1 THEN Here(f, m + 1) ELSE f[i]]
  <2>. HIDE DEF Here
  <2>2. \A i \in 0..m : f[i] = IF i = 0 THEN <<>> ELSE Here(f, i)
    BY <2>1
  <2>3. h[m + 1] = Here(f, m + 1) /\ \A i \in 0..m : h[i] = f[i]
    OBVIOUS
  <2>4. h = [i \in 0..(m + 1) |-> h[i]]
    OBVIOUS
  <2>. HIDE DEF h
  <2>5. ASSUME NEW i \in 1..(m + 1) PROVE Here(f, i) = Here(h, i)
    <3>1. \A j \in 0..(i - 1) : j \in 0..m
      OBVIOUS
    <3>2. \A j \in 0..(i - 1) : f[j] = h[j]
      BY <2>3, <3>1
    <3>3. i \in Nat /\ i > 0
      OBVIOUS
    <3>. QED BY <3>2, <3>3, GivenLocal DEF Here
  <2>6. \A i \in 0..(m + 1) : h[i] = IF i = 0 THEN <<>> ELSE Here(h, i)
    <3>1. \A i \in 0..(m + 1) : i = m + 1 \/ i \in 0..m
      OBVIOUS
    <3>2. \A i \in 0..(m + 1) : i # 0 => i \in 1..(m + 1)
      OBVIOUS
    <3>3. m + 1 # 0 /\ m + 1 \in 1..(m + 1)
      OBVIOUS
    <3>4. h[m + 1] = Here(h, m + 1)
      BY <2>3, <2>5, <3>3
    <3>. QED BY <2>2, <2>3, <2>5, <3>1, <3>2, <3>3, <3>4
  <2>7. h = Def(h, m + 1)
    BY <2>4, <2>6
  <2>. QED BY <2>7
<1>4. n \in S
  <2>. HIDE DEF S
  <2>1. Nat \subseteq S
    BY <1>2, <1>3, SetInduction
  <2>. QED BY <2>1
<1>5. C = Def(C, n)
  <2>1. \E f : f = Def(f, n)
    BY <1>4
  <2>. HIDE DEF Def
  <2>. QED BY <1>1, <2>1
<1>6. ASSUME NEW i \in 1..n PROVE C[i] = Here(C, i)
  <2>1. i \in 0..n /\ i # 0
    OBVIOUS
  <2>. HIDE DEF C, Here
  <2>. QED BY <1>5, <2>1
<1>. QED BY <1>6

-----------------------------------------------------------------------------
(* collect: one command *)

(* What collect builds has its fields. *)
Fields(g) == DOMAIN g = DOMAIN Nothing

(* A table with one more entry, or the same. *)
Extended(t, u, key, value) ==
  /\ DOMAIN u = DOMAIN t \cup {key} /\ u[key] = value
  /\ \A x \in DOMAIN t : x # key => u[x] = t[x]

(* The fields of what collect builds. *)
LEMMA FieldNames ==
  ASSUME NEW g, Fields(g)
  PROVE  DOMAIN g = {"sigs", "datas", "funcs", "externs", "inits", "bodies", "open", "cmds", "st"}
BY DEF Fields, Nothing

(* A refusal changes the state and nothing else. *)
LEMMA RefuseFacts ==
  ASSUME NEW g, Fields(g)
  PROVE  /\ Fields(Refuse(g)) /\ Refuse(g).st = "error"
         /\ \A f \in DOMAIN g : f # "st" => Refuse(g)[f] = g[f]
<1>1. DOMAIN Refuse(g) = DOMAIN g
  BY DEF Refuse
<1>. QED BY <1>1, FieldNames DEF Refuse, Fields

(* A declaration enters its table, or is the one already there, or is       *)
(* refused.                                                                 *)
LEMMA OnceFacts ==
  ASSUME NEW g, Fields(g), NEW table \in {"sigs", "datas", "funcs", "externs"}, NEW id, NEW decl,
         NEW h, h = Once(g, table, id, decl)
  PROVE  /\ Fields(h)
         /\ \A f \in DOMAIN g : f \notin {table, "st"} => h[f] = g[f]
         /\ h.st = IF id \in DOMAIN g[table] => g[table][id] = decl THEN g.st ELSE "error"
         /\ (id \in DOMAIN g[table] => g[table][id] = decl) => Extended(g[table], h[table], id, decl)
<1>1. table \in DOMAIN g /\ "st" \in DOMAIN g /\ table # "st"
  BY FieldNames
<1>2. CASE id \notin DOMAIN g[table]
  <2>1. h = [g EXCEPT ![table] = Put(g[table], id, decl)]
    BY <1>2 DEF Once
  <2>2. DOMAIN h = DOMAIN g /\ h[table] = Put(g[table], id, decl) /\ \A f \in DOMAIN g : f # table => h[f] = g[f]
    BY <2>1, <1>1
  <2>3. Extended(g[table], h[table], id, decl)
    BY <2>2, <1>2 DEF Extended, Put
  <2>. QED BY <2>2, <2>3, <1>1, <1>2 DEF Fields
<1>3. CASE id \in DOMAIN g[table] /\ g[table][id] = decl
  <2>1. h = g
    BY <1>3 DEF Once
  <2>2. Extended(g[table], g[table], id, decl)
    BY <1>3 DEF Extended
  <2>. QED BY <2>1, <2>2, <1>3
<1>4. CASE id \in DOMAIN g[table] /\ g[table][id] # decl
  <2>1. h = Refuse(g)
    BY <1>4 DEF Once
  <2>. QED BY <2>1, <1>4, RefuseFacts
<1>. QED BY <1>2, <1>3, <1>4

(* What the tables keep of a declaration. *)
FuncDecl(c) == [sig |-> c.sig, linkage |-> c.how]
ExternDecl(c) == [sig |-> c.sig, symbol |-> c.symbol]
DataDecl(c) == [size |-> c.size, align |-> c.align]

(* An id is not in the table, or is there as it is declared. *)
Agrees(t, id, decl) == id \in DOMAIN t => t[id] = decl

(* When the tables take a declaration. *)
DeclFits(c, g) ==
  /\ c.k = "createsig" => ~(Len(c.results) > 1) /\ Agrees(g.sigs, c.id, Signature(c))
  /\ c.k = "declaredata" => c.size # 0 /\ AlignOK(c.align) /\ Agrees(g.datas, c.id, DataDecl(c))
  /\ c.k \in DataInits => c.id \in DOMAIN g.datas
  /\ c.k \in {"declarefunc", "declareextern"} => c.sig \in DOMAIN g.sigs
  /\ c.k = "declarefunc" => Agrees(g.funcs, c.id, FuncDecl(c))
  /\ c.k = "declareextern" => Agrees(g.externs, c.id, ExternDecl(c))

(* What they are then. *)
DeclDone(c, g, h) ==
  /\ IF c.k = "createsig" THEN Extended(g.sigs, h.sigs, c.id, Signature(c)) ELSE h.sigs = g.sigs
  /\ IF c.k = "declaredata" THEN Extended(g.datas, h.datas, c.id, DataDecl(c)) ELSE h.datas = g.datas
  /\ IF c.k = "declarefunc" THEN Extended(g.funcs, h.funcs, c.id, FuncDecl(c)) ELSE h.funcs = g.funcs
  /\ IF c.k = "declareextern" THEN Extended(g.externs, h.externs, c.id, ExternDecl(c)) ELSE h.externs = g.externs
  /\ h.inits = IF c.k \in DataInits THEN Append(g.inits, c) ELSE g.inits

(* collect_global_decl takes exactly the declarations that fit. *)
LEMMA GlobalDeclFacts ==
  ASSUME NEW c, NEW g, Fields(g), NEW h, h = GlobalDecl(c, g)
  PROVE  /\ Fields(h) /\ h.open = g.open /\ h.cmds = g.cmds /\ h.bodies = g.bodies
         /\ h.st = IF DeclFits(c, g) THEN g.st ELSE "error"
         /\ DeclFits(c, g) => DeclDone(c, g, h)
<1>. DEFINE Goal == /\ Fields(h) /\ h.open = g.open /\ h.cmds = g.cmds /\ h.bodies = g.bodies
                    /\ h.st = IF DeclFits(c, g) THEN g.st ELSE "error"
                    /\ DeclFits(c, g) => DeclDone(c, g, h)
<1>0. /\ "sigs" \in DOMAIN g /\ "datas" \in DOMAIN g /\ "funcs" \in DOMAIN g /\ "externs" \in DOMAIN g
      /\ "inits" \in DOMAIN g /\ "open" \in DOMAIN g /\ "cmds" \in DOMAIN g /\ "bodies" \in DOMAIN g
  BY FieldNames
<1>1. ASSUME h = Refuse(g), ~DeclFits(c, g) PROVE Goal
  <2>. QED BY <1>0, <1>1, RefuseFacts
<1>2. CASE c.k = "createsig"
  <2>0. c.k \notin DataInits /\ c.k \notin {"declaredata", "declarefunc", "declareextern"}
    BY <1>2 DEF DataInits
  <2>1. CASE Len(c.results) > 1
    <3>1. h = Refuse(g)
      BY <1>2, <2>0, <2>1 DEF GlobalDecl
    <3>2. ~DeclFits(c, g)
      BY <1>2, <2>1 DEF DeclFits
    <3>. QED BY <1>1, <3>1, <3>2
  <2>2. CASE ~(Len(c.results) > 1)
    <3>1. h = Once(g, "sigs", c.id, Signature(c))
      BY <1>2, <2>0, <2>2 DEF GlobalDecl
    <3>2. DeclFits(c, g) <=> (c.id \in DOMAIN g.sigs => g.sigs[c.id] = Signature(c))
      BY <1>2, <2>0, <2>2 DEF DeclFits, Agrees
    <3>3. /\ Fields(h) /\ \A f \in DOMAIN g : f \notin {"sigs", "st"} => h[f] = g[f]
          /\ h.st = IF c.id \in DOMAIN g.sigs => g.sigs[c.id] = Signature(c) THEN g.st ELSE "error"
          /\ (c.id \in DOMAIN g.sigs => g.sigs[c.id] = Signature(c)) => Extended(g.sigs, h.sigs, c.id, Signature(c))
      BY <3>1, OnceFacts
    <3>. QED BY <1>0, <1>2, <2>0, <3>2, <3>3 DEF DeclDone
  <2>. QED BY <2>1, <2>2
<1>3. CASE c.k = "declaredata"
  <2>0. c.k \notin DataInits /\ c.k \notin {"createsig", "declarefunc", "declareextern"}
    BY <1>3 DEF DataInits
  <2>1. CASE c.size = 0 \/ ~AlignOK(c.align)
    <3>1. h = Refuse(g)
      BY <1>3, <2>0, <2>1 DEF GlobalDecl
    <3>2. ~DeclFits(c, g)
      BY <1>3, <2>1 DEF DeclFits
    <3>. QED BY <1>1, <3>1, <3>2
  <2>2. CASE ~(c.size = 0 \/ ~AlignOK(c.align))
    <3>1. h = Once(g, "datas", c.id, DataDecl(c))
      BY <1>3, <2>0, <2>2 DEF GlobalDecl, DataDecl
    <3>2. DeclFits(c, g) <=> (c.id \in DOMAIN g.datas => g.datas[c.id] = DataDecl(c))
      BY <1>3, <2>0, <2>2 DEF DeclFits, Agrees
    <3>3. /\ Fields(h) /\ \A f \in DOMAIN g : f \notin {"datas", "st"} => h[f] = g[f]
          /\ h.st = IF c.id \in DOMAIN g.datas => g.datas[c.id] = DataDecl(c) THEN g.st ELSE "error"
          /\ (c.id \in DOMAIN g.datas => g.datas[c.id] = DataDecl(c)) => Extended(g.datas, h.datas, c.id, DataDecl(c))
      BY <3>1, OnceFacts
    <3>. QED BY <1>0, <1>3, <2>0, <3>2, <3>3 DEF DeclDone
  <2>. QED BY <2>1, <2>2
<1>4. CASE c.k \in DataInits
  <2>0. c.k \notin {"createsig", "declaredata", "declarefunc", "declareextern"}
    BY <1>4 DEF DataInits
  <2>1. CASE c.id \notin DOMAIN g.datas
    <3>1. h = Refuse(g)
      BY <1>4, <2>0, <2>1 DEF GlobalDecl
    <3>2. ~DeclFits(c, g)
      BY <1>4, <2>1 DEF DeclFits
    <3>. QED BY <1>1, <3>1, <3>2
  <2>2. CASE c.id \in DOMAIN g.datas
    <3>1. h = [g EXCEPT !.inits = Append(g.inits, c)]
      BY <1>4, <2>0, <2>2 DEF GlobalDecl
    <3>2. DeclFits(c, g)
      BY <1>4, <2>0, <2>2 DEF DeclFits
    <3>3. DOMAIN h = DOMAIN g /\ h.inits = Append(g.inits, c) /\ \A f \in DOMAIN g : f # "inits" => h[f] = g[f]
      BY <3>1, <1>0
    <3>4. "st" \in DOMAIN g
      BY FieldNames
    <3>. QED BY <1>0, <1>4, <2>0, <3>2, <3>3, <3>4 DEF DeclDone, Fields
  <2>. QED BY <2>1, <2>2
<1>5. CASE c.k \in {"declarefunc", "declareextern"} /\ c.sig \notin DOMAIN g.sigs
  <2>0. c.k \notin DataInits /\ c.k \notin {"createsig", "declaredata"}
    BY <1>5 DEF DataInits
  <2>1. h = Refuse(g)
    BY <1>5, <2>0 DEF GlobalDecl
  <2>2. ~DeclFits(c, g)
    BY <1>5 DEF DeclFits
  <2>. QED BY <1>1, <2>1, <2>2
<1>6. CASE c.k = "declarefunc" /\ c.sig \in DOMAIN g.sigs
  <2>0. c.k \notin DataInits /\ c.k \notin {"createsig", "declaredata", "declareextern"}
    BY <1>6 DEF DataInits
  <2>1. h = Once(g, "funcs", c.id, FuncDecl(c))
    BY <1>6, <2>0 DEF GlobalDecl, FuncDecl
  <2>2. DeclFits(c, g) <=> (c.id \in DOMAIN g.funcs => g.funcs[c.id] = FuncDecl(c))
    BY <1>6, <2>0 DEF DeclFits, Agrees
  <2>3. /\ Fields(h) /\ \A f \in DOMAIN g : f \notin {"funcs", "st"} => h[f] = g[f]
        /\ h.st = IF c.id \in DOMAIN g.funcs => g.funcs[c.id] = FuncDecl(c) THEN g.st ELSE "error"
        /\ (c.id \in DOMAIN g.funcs => g.funcs[c.id] = FuncDecl(c)) => Extended(g.funcs, h.funcs, c.id, FuncDecl(c))
    BY <2>1, OnceFacts
  <2>. QED BY <1>0, <1>6, <2>0, <2>2, <2>3 DEF DeclDone
<1>7. CASE c.k = "declareextern" /\ c.sig \in DOMAIN g.sigs
  <2>0. c.k \notin DataInits /\ c.k \notin {"createsig", "declaredata", "declarefunc"}
    BY <1>7 DEF DataInits
  <2>1. h = Once(g, "externs", c.id, ExternDecl(c))
    BY <1>7, <2>0 DEF GlobalDecl, ExternDecl
  <2>2. DeclFits(c, g) <=> (c.id \in DOMAIN g.externs => g.externs[c.id] = ExternDecl(c))
    BY <1>7, <2>0 DEF DeclFits, Agrees
  <2>3. /\ Fields(h) /\ \A f \in DOMAIN g : f \notin {"externs", "st"} => h[f] = g[f]
        /\ h.st = IF c.id \in DOMAIN g.externs => g.externs[c.id] = ExternDecl(c) THEN g.st ELSE "error"
        /\ (c.id \in DOMAIN g.externs => g.externs[c.id] = ExternDecl(c)) => Extended(g.externs, h.externs, c.id, ExternDecl(c))
    BY <2>1, OnceFacts
  <2>. QED BY <1>0, <1>7, <2>0, <2>2, <2>3 DEF DeclDone
<1>8. CASE c.k \notin DataInits \cup {"createsig", "declaredata", "declarefunc", "declareextern"}
  <2>1. h = g
    BY <1>8 DEF GlobalDecl
  <2>2. DeclFits(c, g)
    BY <1>8 DEF DeclFits
  <2>. QED BY <1>8, <2>1, <2>2 DEF DeclDone
<1>. QED BY <1>2, <1>3, <1>4, <1>5, <1>6, <1>7, <1>8

(* When the loop of collect takes a command. *)
NestFits(c, g) ==
  /\ c.k = "begin" => g.open = None /\ c.id \notin HasBody(g)
  /\ c.k = "finish" => g.open = Some(c.id)
  /\ c.k \notin {"begin", "finish"} => g.open # None \/ c.k \in TopLevel

(* What is open and what has been closed then. *)
NestDone(c, g, h) ==
  /\ h.open = IF c.k = "begin" THEN Some(c.id) ELSE IF c.k = "finish" THEN None ELSE g.open
  /\ h.cmds = IF c.k \in {"begin", "finish"} THEN <<>> ELSE IF g.open # None THEN Append(g.cmds, c) ELSE g.cmds
  /\ h.bodies = IF c.k = "finish" THEN Append(g.bodies, [id |-> c.id, cmds |-> g.cmds]) ELSE g.bodies

(* What the loop of collect leaves to collect_global_decl. *)
Tables == {"sigs", "datas", "funcs", "externs", "inits"}

(* The loop of collect takes exactly the commands that nest. *)
LEMMA CollectCmdFacts ==
  ASSUME NEW c, NEW g, Fields(g), g.st \in {"ok", "error"}, NEW h, h = CollectCmd(c, g)
  PROVE  /\ Fields(h) /\ \A f \in Tables : h[f] = g[f]
         /\ h.st = IF NestFits(c, g) THEN g.st ELSE "error"
         /\ g.st = "ok" /\ NestFits(c, g) => NestDone(c, g, h)
<1>. DEFINE Goal == /\ Fields(h) /\ \A f \in Tables : h[f] = g[f]
                    /\ h.st = IF NestFits(c, g) THEN g.st ELSE "error"
                    /\ g.st = "ok" /\ NestFits(c, g) => NestDone(c, g, h)
<1>0. Tables \subseteq DOMAIN g /\ "st" \notin Tables /\ {"open", "cmds", "bodies", "st"} \subseteq DOMAIN g
      /\ Tables \cap {"open", "cmds", "bodies"} = {}
  BY FieldNames DEF Tables
<1>1. ASSUME h = Refuse(g), ~NestFits(c, g) PROVE Goal
  <2>. QED BY <1>0, <1>1, RefuseFacts
<1>2. CASE g.st # "ok"
  <2>1. h = g
    BY <1>2 DEF CollectCmd
  <2>2. g.st = "error"
    BY <1>2
  <2>. QED BY <2>1, <2>2
<1>3. CASE g.st = "ok" /\ c.k = "begin"
  <2>1. CASE g.open # None \/ c.id \in HasBody(g)
    BY <1>1, <1>3, <2>1 DEF CollectCmd, NestFits
  <2>2. CASE ~(g.open # None \/ c.id \in HasBody(g))
    <3>1. h = [g EXCEPT !.open = Some(c.id), !.cmds = <<>>]
      BY <1>3, <2>2 DEF CollectCmd
    <3>2. DOMAIN h = DOMAIN g /\ h.open = Some(c.id) /\ h.cmds = <<>> /\ \A f \in DOMAIN g : f \notin {"open", "cmds"} => h[f] = g[f]
      BY <3>1, <1>0
    <3>3. NestFits(c, g)
      BY <1>3, <2>2 DEF NestFits
    <3>. QED BY <1>0, <1>3, <3>2, <3>3 DEF NestDone, Fields
  <2>. QED BY <2>1, <2>2
<1>4. CASE g.st = "ok" /\ c.k = "finish"
  <2>1. CASE g.open # Some(c.id)
    BY <1>1, <1>4, <2>1 DEF CollectCmd, NestFits
  <2>2. CASE g.open = Some(c.id)
    <3>1. h = [g EXCEPT !.bodies = Append(g.bodies, [id |-> c.id, cmds |-> g.cmds]), !.open = None, !.cmds = <<>>]
      BY <1>4, <2>2 DEF CollectCmd
    <3>2. /\ DOMAIN h = DOMAIN g /\ h.bodies = Append(g.bodies, [id |-> c.id, cmds |-> g.cmds])
          /\ h.open = None /\ h.cmds = <<>> /\ \A f \in DOMAIN g : f \notin {"open", "cmds", "bodies"} => h[f] = g[f]
      BY <3>1, <1>0
    <3>3. NestFits(c, g)
      BY <1>4, <2>2 DEF NestFits
    <3>. QED BY <1>0, <1>4, <3>2, <3>3 DEF NestDone, Fields
  <2>. QED BY <2>1, <2>2
<1>5. CASE g.st = "ok" /\ c.k \notin {"begin", "finish"} /\ g.open # None
  <2>1. h = [g EXCEPT !.cmds = Append(g.cmds, c)]
    BY <1>5 DEF CollectCmd
  <2>2. DOMAIN h = DOMAIN g /\ h.cmds = Append(g.cmds, c) /\ \A f \in DOMAIN g : f # "cmds" => h[f] = g[f]
    BY <2>1, <1>0
  <2>3. NestFits(c, g)
    BY <1>5 DEF NestFits
  <2>. QED BY <1>0, <1>5, <2>2, <2>3 DEF NestDone, Fields
<1>6. CASE g.st = "ok" /\ c.k \notin {"begin", "finish"} /\ g.open = None
  <2>1. CASE c.k \in TopLevel
    <3>1. h = g
      BY <1>6, <2>1 DEF CollectCmd
    <3>2. NestFits(c, g)
      BY <1>6, <2>1 DEF NestFits
    <3>. QED BY <1>6, <3>1, <3>2 DEF NestDone
  <2>2. CASE c.k \notin TopLevel
    BY <1>1, <1>6, <2>2 DEF CollectCmd, NestFits
  <2>. QED BY <2>1, <2>2
<1>. QED BY <1>2, <1>3, <1>4, <1>5, <1>6

(* A step of collect. *)
LEMMA CollectStepFacts ==
  ASSUME NEW c, NEW g, Fields(g), g.st \in {"ok", "error"}, NEW h, h = CollectStep(c, g)
  PROVE  /\ Fields(h) /\ h.st \in {"ok", "error"}
         /\ h.st = "ok" <=> g.st = "ok" /\ DeclFits(c, g) /\ NestFits(c, g)
         /\ h.st = "ok" => DeclDone(c, g, h) /\ NestDone(c, g, h)
<1>. DEFINE m == GlobalDecl(c, g)
<1>1. /\ Fields(m) /\ m.open = g.open /\ m.cmds = g.cmds /\ m.bodies = g.bodies
      /\ m.st = IF DeclFits(c, g) THEN g.st ELSE "error"
      /\ DeclFits(c, g) => DeclDone(c, g, m)
  BY GlobalDeclFacts
<1>2. h = CollectCmd(c, m)
  BY DEF CollectStep
<1>. HIDE DEF m
<1>3. m.st \in {"ok", "error"}
  BY <1>1
<1>4. /\ Fields(h) /\ \A f \in Tables : h[f] = m[f]
      /\ h.st = IF NestFits(c, m) THEN m.st ELSE "error"
      /\ m.st = "ok" /\ NestFits(c, m) => NestDone(c, m, h)
  BY <1>1, <1>2, <1>3, CollectCmdFacts
<1>5. NestFits(c, m) <=> NestFits(c, g)
  BY <1>1 DEF NestFits, HasBody
<1>6. NestDone(c, m, h) => NestDone(c, g, h)
  BY <1>1 DEF NestDone
<1>7. h.sigs = m.sigs /\ h.datas = m.datas /\ h.funcs = m.funcs /\ h.externs = m.externs /\ h.inits = m.inits
  BY <1>4 DEF Tables
<1>8. DeclDone(c, g, m) => DeclDone(c, g, h)
  BY <1>7 DEF DeclDone
<1>9. /\ Fields(h) /\ h.st \in {"ok", "error"}
      /\ h.st = "ok" <=> g.st = "ok" /\ DeclFits(c, g) /\ NestFits(c, g)
      /\ h.st = "ok" => DeclDone(c, g, h) /\ NestDone(c, g, h)
  BY <1>1, <1>3, <1>4, <1>5, <1>6, <1>8
<1>. QED BY <1>9

-----------------------------------------------------------------------------
(* collect: the tables *)

(* The positions of a list. *)
LEMMA ListFacts ==
  ASSUME NEW s, List(s)
  PROVE  Len(s) \in Nat /\ DOMAIN s = 1..Len(s) /\ s \in Seq({s[i] : i \in DOMAIN s})
<1>1. s \in Seq({s[i] : i \in DOMAIN s})
  BY DEF List
<1>. QED BY <1>1

(* A body ends with the first begin or finish after its begin. *)
LEMMA EndFacts ==
  ASSUME NEW p, List(p), NEW b \in DOMAIN p
  PROVE  /\ EndOf(p, b) \in (b + 1)..(Len(p) + 1)
         /\ \A j \in (b + 1)..(EndOf(p, b) - 1) : p[j].k \notin {"begin", "finish"}
         /\ EndOf(p, b) <= Len(p) => p[EndOf(p, b)].k \in {"begin", "finish"}
<1>. DEFINE later == {j \in (b + 1)..Len(p) : p[j].k \in {"begin", "finish"}}
            E == EndOf(p, b)
<1>1. Len(p) \in Nat /\ b \in 1..Len(p)
  BY ListFacts
<1>2. E = IF later = {} THEN Len(p) + 1 ELSE CHOOSE j \in later : \A l \in later : j <= l
  BY DEF EndOf
<1>3. CASE later = {}
  <2>1. E = Len(p) + 1
    BY <1>2, <1>3
  <2>2. \A j \in (b + 1)..Len(p) : p[j].k \notin {"begin", "finish"}
    BY <1>3
  <2>. HIDE DEF E
  <2>3. E - 1 = Len(p) /\ ~(E <= Len(p)) /\ E \in (b + 1)..(Len(p) + 1)
    BY <1>1, <2>1
  <2>4. \A j \in (b + 1)..(E - 1) : p[j].k \notin {"begin", "finish"}
    BY <2>2, <2>3
  <2>. QED BY <2>3, <2>4 DEF E
<1>4. CASE later # {}
  <2>1. later \subseteq Nat
    BY <1>1
  <2>. HIDE DEF later
  <2>2. \E j \in later : \A l \in later : j <= l
    BY <1>4, <2>1, LeastNatural
  <2>3. E \in later /\ \A l \in later : E <= l
    BY <1>2, <1>4, <2>2
  <2>. HIDE DEF E
  <2>4. E \in (b + 1)..Len(p) /\ p[E].k \in {"begin", "finish"}
    BY <2>3 DEF later
  <2>5. ASSUME NEW j \in (b + 1)..(E - 1) PROVE p[j].k \notin {"begin", "finish"}
    <3>1. j \in (b + 1)..Len(p) /\ ~(E <= j)
      BY <1>1, <2>4
    <3>. QED BY <2>3, <3>1 DEF later
  <2>6. E \in (b + 1)..(Len(p) + 1)
    BY <1>1, <2>4
  <2>. QED BY <2>4, <2>5, <2>6 DEF E
<1>. QED BY <1>3, <1>4

(* The body that is open after i commands. *)
OpenAt(p, i) == {b \in Begins(p) : b <= i /\ i < EndOf(p, b)}

(* How many bodies have begun up to i. *)
Count(p, i) == Cardinality({a \in Begins(p) : a <= i})

(* A begin has a position in the program. *)
LEMMA BeginFacts ==
  ASSUME NEW p, List(p), NEW b \in Begins(p)
  PROVE  b \in 1..Len(p) /\ Len(p) \in Nat /\ b \in DOMAIN p /\ p[b].k = "begin"
BY ListFacts DEF Begins

(* At most one body is open. *)
LEMMA OpenOne ==
  ASSUME NEW p, List(p), NEW i \in 0..Len(p), NEW b \in OpenAt(p, i), NEW c \in OpenAt(p, i)
  PROVE  b = c
<1>1. ASSUME NEW x \in OpenAt(p, i), NEW y \in OpenAt(p, i), x < y PROVE FALSE
  <2>1. x \in Begins(p) /\ y \in Begins(p) /\ y <= i /\ i < EndOf(p, x)
    BY DEF OpenAt
  <2>2. x \in 1..Len(p) /\ y \in 1..Len(p) /\ x \in DOMAIN p /\ p[y].k = "begin" /\ Len(p) \in Nat
    BY <2>1, BeginFacts
  <2>3. EndOf(p, x) \in (x + 1)..(Len(p) + 1)
    BY <2>2, EndFacts
  <2>4. y \in (x + 1)..(EndOf(p, x) - 1)
    BY <1>1, <2>1, <2>2, <2>3
  <2>. QED BY <2>2, <2>4, EndFacts
<1>2. b \in 1..Len(p) /\ c \in 1..Len(p) /\ Len(p) \in Nat
  BY BeginFacts DEF OpenAt
<1>3. ~(b < c) /\ ~(c < b)
  BY <1>1
<1>. QED BY <1>2, <1>3

(* Nothing is open before the first command. *)
LEMMA OpenStart == ASSUME NEW p, List(p) PROVE OpenAt(p, 0) = {} /\ Count(p, 0) = 0
<1>1. \A b \in Begins(p) : ~(b <= 0)
  BY BeginFacts
<1>2. {a \in Begins(p) : a <= 0} = {}
  BY <1>1
<1>3. OpenAt(p, 0) = {}
  BY <1>1 DEF OpenAt
<1>. QED BY <1>2, <1>3, FS_EmptySet DEF Count

(* begin opens a body, finish closes the one that is open. *)
LEMMA OpenStep ==
  ASSUME NEW p, List(p), NEW i \in 1..Len(p)
  PROVE  /\ OpenAt(p, i) = IF p[i].k = "begin" THEN {i} ELSE IF p[i].k = "finish" THEN {} ELSE OpenAt(p, i - 1)
         /\ \A b \in OpenAt(p, i - 1) : p[i].k \in {"begin", "finish"} => EndOf(p, b) = i
         /\ \A b \in Begins(p) : EndOf(p, b) = i => b \in OpenAt(p, i - 1)
<1>0. Len(p) \in Nat /\ i \in DOMAIN p /\ i \in Nat
  BY ListFacts
<1>1. ASSUME NEW b \in Begins(p)
      PROVE  /\ b \in 1..Len(p) /\ EndOf(p, b) \in (b + 1)..(Len(p) + 1)
             /\ \A j \in (b + 1)..(EndOf(p, b) - 1) : p[j].k \notin {"begin", "finish"}
             /\ EndOf(p, b) <= Len(p) => p[EndOf(p, b)].k \in {"begin", "finish"}
  BY BeginFacts, EndFacts
<1>2. ASSUME NEW b \in OpenAt(p, i - 1), p[i].k \in {"begin", "finish"} PROVE EndOf(p, b) = i
  <2>1. b \in Begins(p) /\ b <= i - 1 /\ i - 1 < EndOf(p, b)
    BY DEF OpenAt
  <2>2. ~(i \in (b + 1)..(EndOf(p, b) - 1))
    BY <1>1, <1>2, <2>1
  <2>. QED BY <1>0, <1>1, <2>1, <2>2
<1>3. ASSUME NEW b \in Begins(p), EndOf(p, b) = i PROVE b \in OpenAt(p, i - 1)
  <2>1. b \in 1..Len(p) /\ i \in (b + 1)..(Len(p) + 1)
    BY <1>1, <1>3
  <2>2. b <= i - 1 /\ i - 1 < i
    BY <1>0, <2>1
  <2>. QED BY <1>3, <2>2 DEF OpenAt
<1>4. CASE p[i].k = "begin"
  <2>1. i \in Begins(p)
    BY <1>0, <1>4 DEF Begins
  <2>2. i \in OpenAt(p, i)
    BY <1>0, <1>1, <2>1 DEF OpenAt
  <2>3. i \in 0..Len(p)
    BY <1>0
  <2>4. \A b \in OpenAt(p, i) : b = i
    BY <2>2, <2>3, OpenOne
  <2>5. OpenAt(p, i) = {i}
    BY <2>2, <2>4
  <2>. QED BY <1>2, <1>3, <1>4, <2>5
<1>5. CASE p[i].k = "finish"
  <2>1. ASSUME NEW b \in OpenAt(p, i) PROVE FALSE
    <3>1. b \in Begins(p) /\ b <= i /\ i < EndOf(p, b)
      BY DEF OpenAt
    <3>2. b # i
      BY <3>1, <1>5 DEF Begins
    <3>3. i \in (b + 1)..(EndOf(p, b) - 1)
      BY <1>0, <1>1, <3>1, <3>2
    <3>. QED BY <1>1, <1>5, <3>1, <3>3
  <2>. QED BY <1>2, <1>3, <1>5, <2>1
<1>6. CASE p[i].k \notin {"begin", "finish"}
  <2>1. ASSUME NEW b \in OpenAt(p, i) PROVE b \in OpenAt(p, i - 1)
    <3>1. b \in Begins(p) /\ b <= i /\ i < EndOf(p, b)
      BY DEF OpenAt
    <3>2. b # i
      BY <3>1, <1>6 DEF Begins
    <3>3. b <= i - 1 /\ i - 1 < EndOf(p, b)
      BY <1>0, <1>1, <3>1, <3>2
    <3>. QED BY <3>1, <3>3 DEF OpenAt
  <2>2. ASSUME NEW b \in OpenAt(p, i - 1) PROVE b \in OpenAt(p, i)
    <3>1. b \in Begins(p) /\ b <= i - 1 /\ i - 1 < EndOf(p, b)
      BY DEF OpenAt
    <3>2. EndOf(p, b) # i
      <4>1. SUFFICES ASSUME EndOf(p, b) = i PROVE FALSE
        OBVIOUS
      <4>2. p[EndOf(p, b)].k \in {"begin", "finish"}
        BY <1>0, <1>1, <3>1, <4>1
      <4>. QED BY <1>6, <4>1, <4>2
    <3>3. b <= i /\ i < EndOf(p, b)
      BY <1>0, <1>1, <3>1, <3>2
    <3>. QED BY <3>1, <3>3 DEF OpenAt
  <2>3. OpenAt(p, i) = OpenAt(p, i - 1)
    BY <2>1, <2>2
  <2>. QED BY <1>2, <1>3, <1>6, <2>3
<1>. QED BY <1>4, <1>5, <1>6

(* Bodies are counted by their begins. *)
LEMMA CountStep ==
  ASSUME NEW p, List(p)
  PROVE  /\ \A i \in 0..Len(p) : Count(p, i) \in Nat
         /\ \A i \in 1..Len(p) : Count(p, i) = Count(p, i - 1) + (IF p[i].k = "begin" THEN 1 ELSE 0)
<1>. DEFINE Upto(i) == {a \in Begins(p) : a <= i}
<1>0. Len(p) \in Nat /\ DOMAIN p = 1..Len(p)
  BY ListFacts
<1>1. ASSUME NEW i \in 0..Len(p) PROVE IsFiniteSet(Upto(i)) /\ Count(p, i) \in Nat
  <2>1. PICK n \in Nat : n = Len(p)
    BY <1>0
  <2>2. IsFiniteSet(1..n)
    BY FS_Interval
  <2>3. Upto(i) \subseteq 1..n
    BY <1>0, <2>1 DEF Begins
  <2>. HIDE DEF Upto
  <2>4. IsFiniteSet(Upto(i))
    BY <2>2, <2>3, FS_Subset
  <2>. QED BY <2>4, FS_CardinalityType DEF Count, Upto
<1>2. ASSUME NEW i \in 1..Len(p)
      PROVE  Count(p, i) = Count(p, i - 1) + (IF p[i].k = "begin" THEN 1 ELSE 0)
  <2>0. i - 1 \in 0..Len(p)
    BY <1>0
  <2>1. CASE p[i].k = "begin"
    <3>1. Upto(i) = Upto(i - 1) \cup {i} /\ i \notin Upto(i - 1)
      BY <1>0, <2>1 DEF Begins
    <3>2. IsFiniteSet(Upto(i - 1))
      BY <1>1, <2>0
    <3>. HIDE DEF Upto
    <3>3. Cardinality(Upto(i)) = Cardinality(Upto(i - 1)) + 1
      BY <3>1, <3>2, FS_AddElement
    <3>. QED BY <2>1, <3>3 DEF Count, Upto
  <2>2. CASE p[i].k # "begin"
    <3>1. Upto(i) = Upto(i - 1)
      BY <1>0, <2>2 DEF Begins
    <3>2. Count(p, i - 1) \in Nat
      BY <1>1, <2>0
    <3>3. Count(p, i) = Count(p, i - 1)
      BY <3>1 DEF Count
    <3>. QED BY <2>2, <3>2, <3>3
  <2>. QED BY <2>1, <2>2
<1>. QED BY <1>1, <1>2

(* Counts grow with the positions. *)
LEMMA CountGrows ==
  ASSUME NEW p, List(p), NEW a \in 0..Len(p), NEW i \in a..Len(p)
  PROVE  Count(p, a) <= Count(p, i)
<1>. DEFINE S == {j \in Nat : a + j <= Len(p) => Count(p, a) <= Count(p, a + j)}
<1>0. Len(p) \in Nat
  BY ListFacts
<1>1. 0 \in S
  BY <1>0, CountStep
<1>2. ASSUME NEW j \in Nat, j \in S PROVE j + 1 \in S
  <2>1. SUFFICES ASSUME a + (j + 1) <= Len(p) PROVE Count(p, a) <= Count(p, a + (j + 1))
    OBVIOUS
  <2>2. a + (j + 1) \in 1..Len(p) /\ (a + (j + 1)) - 1 = a + j /\ a + j <= Len(p) /\ a + j \in 0..Len(p)
    BY <1>0, <2>1
  <2>3. Count(p, a) <= Count(p, a + j)
    BY <1>2, <2>2
  <2>4. Count(p, a + (j + 1)) = Count(p, a + j) + (IF p[a + (j + 1)].k = "begin" THEN 1 ELSE 0)
    BY <2>2, CountStep
  <2>5. Count(p, a) \in Nat /\ Count(p, a + j) \in Nat
    BY <2>2, CountStep
  <2>. QED BY <2>3, <2>4, <2>5
<1>3. Nat \subseteq S
  <2>. HIDE DEF S
  <2>. QED BY <1>1, <1>2, SetInduction
<1>4. i - a \in Nat /\ a + (i - a) = i
  BY <1>0
<1>. QED BY <1>0, <1>3, <1>4

-----------------------------------------------------------------------------
(* A table after i commands. *)
Lists(t, p, i, kind, D) ==
  /\ DOMAIN t = {p[j].id : j \in {j \in 1..i : p[j].k = kind}}
  /\ \A j \in 1..i : p[j].k = kind => t[p[j].id] = D[j]

(* An empty table lists the declarations before the first command. *)
LEMMA ListsStart == ASSUME NEW p, NEW kind, NEW D PROVE Lists(<<>>, p, 0, kind, D)
BY DEF Lists

(* A table that took the declaration of command i lists those up to i. *)
LEMMA ListsStep ==
  ASSUME NEW p, NEW i \in Nat, i > 0, NEW kind, NEW D, NEW t, NEW u, Lists(t, p, i - 1, kind, D),
         IF p[i].k = kind THEN Extended(t, u, p[i].id, D[i]) /\ Agrees(t, p[i].id, D[i]) ELSE u = t
  PROVE  Lists(u, p, i, kind, D)
<1>1. \A j \in 1..i : j = i \/ j \in 1..(i - 1)
  OBVIOUS
<1>2. \A j \in 1..(i - 1) : j \in 1..i /\ j # i
  OBVIOUS
<1>3. i \in 1..i
  OBVIOUS
<1>4. CASE p[i].k = kind
  <2>1. DOMAIN u = {p[j].id : j \in {j \in 1..i : p[j].k = kind}}
    BY <1>1, <1>2, <1>3, <1>4 DEF Lists, Extended
  <2>2. ASSUME NEW j \in 1..i, p[j].k = kind PROVE u[p[j].id] = D[j]
    <3>1. CASE j = i
      BY <3>1, <1>4 DEF Extended
    <3>2. CASE j # i
      <4>1. j \in 1..(i - 1)
        BY <1>1, <3>2
      <4>2. p[j].id \in DOMAIN t /\ t[p[j].id] = D[j]
        BY <2>2, <4>1 DEF Lists
      <4>3. p[j].id = p[i].id => D[j] = D[i]
        BY <1>4, <4>2 DEF Agrees
      <4>. QED BY <1>4, <4>2, <4>3 DEF Extended
    <3>. QED BY <3>1, <3>2
  <2>. QED BY <2>1, <2>2 DEF Lists
<1>5. CASE p[i].k # kind
  BY <1>1, <1>2, <1>5 DEF Lists
<1>. QED BY <1>4, <1>5

(* A declaration agrees with a table when it agrees with all it lists. *)
LEMMA ListsAgree ==
  ASSUME NEW p, NEW i \in Nat, i > 0, NEW kind, NEW D, NEW t, Lists(t, p, i - 1, kind, D)
  PROVE  Agrees(t, p[i].id, D[i]) <=> \A j \in 1..(i - 1) : p[j].k = kind /\ p[j].id = p[i].id => D[j] = D[i]
BY DEF Lists, Agrees

(* What each command would put in a table. *)
Sigs(p) == [j \in DOMAIN p |-> Signature(p[j])]
Datas(p) == [j \in DOMAIN p |-> DataDecl(p[j])]
Funcs(p) == [j \in DOMAIN p |-> FuncDecl(p[j])]
Externs(p) == [j \in DOMAIN p |-> ExternDecl(p[j])]

(* The four tables after i commands. *)
TablesHold(p, i, g) ==
  /\ Lists(g.sigs, p, i, "createsig", Sigs(p))
  /\ Lists(g.datas, p, i, "declaredata", Datas(p))
  /\ Lists(g.funcs, p, i, "declarefunc", Funcs(p))
  /\ Lists(g.externs, p, i, "declareextern", Externs(p))

(* The rules of declarations, for command i and those before it. *)
DeclHere(p, i) ==
  /\ p[i].k \in Declarations => \A j \in 1..(i - 1) : p[j].k = p[i].k /\ p[j].id = p[i].id => Decl(p[j]) = Decl(p[i])
  /\ p[i].k = "createsig" => Len(p[i].results) <= 1
  /\ p[i].k = "declaredata" => p[i].size > 0 /\ AlignOK(p[i].align)
  /\ p[i].k \in DataInits => Before(p, i, "declaredata", p[i].id)
  /\ p[i].k \in {"declarefunc", "declareextern"} => Before(p, i, "createsig", p[i].sig)

(* The four tables after one more command. *)
LEMMA TablesStep ==
  ASSUME NEW p, List(p), NEW i \in 1..Len(p), NEW g, NEW h, TablesHold(p, i - 1, g),
         DeclFits(p[i], g), DeclDone(p[i], g, h)
  PROVE  TablesHold(p, i, h)
<1>0. i \in DOMAIN p /\ i \in Nat /\ i > 0
  BY ListFacts
<1>1. /\ Sigs(p)[i] = Signature(p[i]) /\ Datas(p)[i] = DataDecl(p[i])
      /\ Funcs(p)[i] = FuncDecl(p[i]) /\ Externs(p)[i] = ExternDecl(p[i])
  BY <1>0 DEF Sigs, Datas, Funcs, Externs
<1>2. Lists(h.sigs, p, i, "createsig", Sigs(p))
  <2>1. Lists(g.sigs, p, i - 1, "createsig", Sigs(p))
    BY DEF TablesHold
  <2>2. IF p[i].k = "createsig" THEN Extended(g.sigs, h.sigs, p[i].id, Sigs(p)[i]) /\ Agrees(g.sigs, p[i].id, Sigs(p)[i])
        ELSE h.sigs = g.sigs
    BY <1>1 DEF DeclFits, DeclDone
  <2>. QED BY <1>0, <2>1, <2>2, ListsStep
<1>3. Lists(h.datas, p, i, "declaredata", Datas(p))
  <2>1. Lists(g.datas, p, i - 1, "declaredata", Datas(p))
    BY DEF TablesHold
  <2>2. IF p[i].k = "declaredata" THEN Extended(g.datas, h.datas, p[i].id, Datas(p)[i]) /\ Agrees(g.datas, p[i].id, Datas(p)[i])
        ELSE h.datas = g.datas
    BY <1>1 DEF DeclFits, DeclDone
  <2>. QED BY <1>0, <2>1, <2>2, ListsStep
<1>4. Lists(h.funcs, p, i, "declarefunc", Funcs(p))
  <2>1. Lists(g.funcs, p, i - 1, "declarefunc", Funcs(p))
    BY DEF TablesHold
  <2>2. IF p[i].k = "declarefunc" THEN Extended(g.funcs, h.funcs, p[i].id, Funcs(p)[i]) /\ Agrees(g.funcs, p[i].id, Funcs(p)[i])
        ELSE h.funcs = g.funcs
    BY <1>1 DEF DeclFits, DeclDone
  <2>. QED BY <1>0, <2>1, <2>2, ListsStep
<1>5. Lists(h.externs, p, i, "declareextern", Externs(p))
  <2>1. Lists(g.externs, p, i - 1, "declareextern", Externs(p))
    BY DEF TablesHold
  <2>2. IF p[i].k = "declareextern" THEN Extended(g.externs, h.externs, p[i].id, Externs(p)[i]) /\ Agrees(g.externs, p[i].id, Externs(p)[i])
        ELSE h.externs = g.externs
    BY <1>1 DEF DeclFits, DeclDone
  <2>. QED BY <1>0, <2>1, <2>2, ListsStep
<1>. QED BY <1>2, <1>3, <1>4, <1>5 DEF TablesHold

(* What the tables take is what the rules of declarations allow. *)
LEMMA DeclExact ==
  ASSUME NEW p, List(p), NEW i \in 1..Len(p), Shaped(p[i]), NEW g, TablesHold(p, i - 1, g)
  PROVE  DeclFits(p[i], g) <=> DeclHere(p, i)
<1>0. i \in DOMAIN p /\ i \in Nat /\ i > 0 /\ DOMAIN p = 1..Len(p) /\ Len(p) \in Nat
  BY ListFacts
<1>1. \A j \in 1..(i - 1) : j \in DOMAIN p
  BY <1>0
<1>2. \A j \in 1..i : /\ Sigs(p)[j] = Signature(p[j]) /\ Datas(p)[j] = DataDecl(p[j])
                      /\ Funcs(p)[j] = FuncDecl(p[j]) /\ Externs(p)[j] = ExternDecl(p[j])
  BY <1>0 DEF Sigs, Datas, Funcs, Externs
<1>3. i \in 1..i /\ \A j \in 1..(i - 1) : j \in 1..i
  BY <1>0
<1>4. ASSUME NEW kind, NEW id
      PROVE  id \in {p[j].id : j \in {j \in 1..(i - 1) : p[j].k = kind}} <=> Before(p, i, kind, id)
  BY DEF Before
<1>5. CASE p[i].k = "createsig"
  <2>1. Agrees(g.sigs, p[i].id, Signature(p[i]))
          <=> \A j \in 1..(i - 1) : p[j].k = "createsig" /\ p[j].id = p[i].id => Signature(p[j]) = Signature(p[i])
    <3>1. Agrees(g.sigs, p[i].id, Sigs(p)[i])
            <=> \A j \in 1..(i - 1) : p[j].k = "createsig" /\ p[j].id = p[i].id => Sigs(p)[j] = Sigs(p)[i]
      BY <1>0, ListsAgree DEF TablesHold
    <3>. QED BY <1>2, <1>3, <3>1
  <2>2. ~(Len(p[i].results) > 1) <=> Len(p[i].results) <= 1
    <3>1. Len(p[i].results) \in Nat
      BY ListFacts DEF Shaped
    <3>. QED BY <3>1
  <2>3. \A j \in 1..i : p[j].k = "createsig" => Decl(p[j]) = Signature(p[j])
    BY DEF Decl
  <2>4. DeclFits(p[i], g) <=> ~(Len(p[i].results) > 1) /\ Agrees(g.sigs, p[i].id, Signature(p[i]))
    BY <1>5 DEF DeclFits, DataInits
  <2>5. DeclHere(p, i) <=> Len(p[i].results) <= 1
          /\ \A j \in 1..(i - 1) : p[j].k = "createsig" /\ p[j].id = p[i].id => Decl(p[j]) = Decl(p[i])
    BY <1>5 DEF DeclHere, DataInits, Declarations
  <2>6. (\A j \in 1..(i - 1) : p[j].k = "createsig" /\ p[j].id = p[i].id => Decl(p[j]) = Decl(p[i]))
          <=> \A j \in 1..(i - 1) : p[j].k = "createsig" /\ p[j].id = p[i].id => Signature(p[j]) = Signature(p[i])
    BY <1>3, <1>5, <2>3
  <2>. QED BY <2>1, <2>2, <2>4, <2>5, <2>6
<1>6. CASE p[i].k = "declaredata"
  <2>1. Agrees(g.datas, p[i].id, DataDecl(p[i]))
          <=> \A j \in 1..(i - 1) : p[j].k = "declaredata" /\ p[j].id = p[i].id => DataDecl(p[j]) = DataDecl(p[i])
    <3>1. Agrees(g.datas, p[i].id, Datas(p)[i])
            <=> \A j \in 1..(i - 1) : p[j].k = "declaredata" /\ p[j].id = p[i].id => Datas(p)[j] = Datas(p)[i]
      BY <1>0, ListsAgree DEF TablesHold
    <3>. QED BY <1>2, <1>3, <3>1
  <2>2. p[i].size # 0 <=> p[i].size > 0
    BY DEF Shaped
  <2>3. \A j \in 1..i : p[j].k = "declaredata" => Decl(p[j]) = <<p[j].size, p[j].align>>
    BY DEF Decl
  <2>4. DeclFits(p[i], g) <=> p[i].size # 0 /\ AlignOK(p[i].align) /\ Agrees(g.datas, p[i].id, DataDecl(p[i]))
    BY <1>6 DEF DeclFits, DataInits
  <2>5. DeclHere(p, i) <=> p[i].size > 0 /\ AlignOK(p[i].align)
          /\ \A j \in 1..(i - 1) : p[j].k = "declaredata" /\ p[j].id = p[i].id => Decl(p[j]) = Decl(p[i])
    BY <1>6 DEF DeclHere, DataInits, Declarations
  <2>6. \A j \in 1..i : p[j].k = "declaredata" => (Decl(p[j]) = Decl(p[i]) <=> DataDecl(p[j]) = DataDecl(p[i]))
    <3>1. ASSUME NEW j \in 1..i, p[j].k = "declaredata" PROVE Decl(p[j]) = Decl(p[i]) <=> DataDecl(p[j]) = DataDecl(p[i])
      <4>1. Decl(p[j]) = <<p[j].size, p[j].align>> /\ Decl(p[i]) = <<p[i].size, p[i].align>>
        BY <1>3, <1>6, <2>3, <3>1
      <4>2. <<p[j].size, p[j].align>> = <<p[i].size, p[i].align>> <=> p[j].size = p[i].size /\ p[j].align = p[i].align
        OBVIOUS
      <4>3. DataDecl(p[j]) = DataDecl(p[i]) <=> p[j].size = p[i].size /\ p[j].align = p[i].align
        BY DEF DataDecl
      <4>. QED BY <4>1, <4>2, <4>3
    <3>. QED BY <3>1
  <2>7. (\A j \in 1..(i - 1) : p[j].k = "declaredata" /\ p[j].id = p[i].id => Decl(p[j]) = Decl(p[i]))
          <=> \A j \in 1..(i - 1) : p[j].k = "declaredata" /\ p[j].id = p[i].id => DataDecl(p[j]) = DataDecl(p[i])
    BY <1>3, <2>6
  <2>. QED BY <2>1, <2>2, <2>4, <2>5, <2>7
<1>7. CASE p[i].k \in DataInits
  <2>1. DeclFits(p[i], g) <=> p[i].id \in DOMAIN g.datas
    BY <1>7 DEF DeclFits, DataInits
  <2>2. DeclHere(p, i) <=> Before(p, i, "declaredata", p[i].id)
    BY <1>7 DEF DeclHere, DataInits, Declarations
  <2>3. DOMAIN g.datas = {p[j].id : j \in {j \in 1..(i - 1) : p[j].k = "declaredata"}}
    BY DEF TablesHold, Lists
  <2>. QED BY <1>4, <2>1, <2>2, <2>3
<1>8. p[i].sig \in DOMAIN g.sigs <=> Before(p, i, "createsig", p[i].sig)
  <2>1. DOMAIN g.sigs = {p[j].id : j \in {j \in 1..(i - 1) : p[j].k = "createsig"}}
    BY DEF TablesHold, Lists
  <2>. QED BY <1>4, <2>1
<1>9. CASE p[i].k = "declarefunc"
  <2>1. Agrees(g.funcs, p[i].id, FuncDecl(p[i]))
          <=> \A j \in 1..(i - 1) : p[j].k = "declarefunc" /\ p[j].id = p[i].id => FuncDecl(p[j]) = FuncDecl(p[i])
    <3>1. Agrees(g.funcs, p[i].id, Funcs(p)[i])
            <=> \A j \in 1..(i - 1) : p[j].k = "declarefunc" /\ p[j].id = p[i].id => Funcs(p)[j] = Funcs(p)[i]
      BY <1>0, ListsAgree DEF TablesHold
    <3>. QED BY <1>2, <1>3, <3>1
  <2>2. DeclFits(p[i], g) <=> p[i].sig \in DOMAIN g.sigs /\ Agrees(g.funcs, p[i].id, FuncDecl(p[i]))
    BY <1>9 DEF DeclFits, DataInits
  <2>3. DeclHere(p, i) <=> Before(p, i, "createsig", p[i].sig)
          /\ \A j \in 1..(i - 1) : p[j].k = "declarefunc" /\ p[j].id = p[i].id => Decl(p[j]) = Decl(p[i])
    BY <1>9 DEF DeclHere, DataInits, Declarations
  <2>4. ASSUME NEW j \in 1..i, p[j].k = "declarefunc" PROVE Decl(p[j]) = Decl(p[i]) <=> FuncDecl(p[j]) = FuncDecl(p[i])
    <3>1. Decl(p[j]) = <<p[j].sig, p[j].how>> /\ Decl(p[i]) = <<p[i].sig, p[i].how>>
      BY <1>9, <2>4 DEF Decl
    <3>2. <<p[j].sig, p[j].how>> = <<p[i].sig, p[i].how>> <=> p[j].sig = p[i].sig /\ p[j].how = p[i].how
      OBVIOUS
    <3>3. FuncDecl(p[j]) = FuncDecl(p[i]) <=> p[j].sig = p[i].sig /\ p[j].how = p[i].how
      BY DEF FuncDecl
    <3>. QED BY <3>1, <3>2, <3>3
  <2>5. (\A j \in 1..(i - 1) : p[j].k = "declarefunc" /\ p[j].id = p[i].id => Decl(p[j]) = Decl(p[i]))
          <=> \A j \in 1..(i - 1) : p[j].k = "declarefunc" /\ p[j].id = p[i].id => FuncDecl(p[j]) = FuncDecl(p[i])
    BY <1>3, <2>4
  <2>. QED BY <1>8, <2>1, <2>2, <2>3, <2>5
<1>10. CASE p[i].k = "declareextern"
  <2>1. Agrees(g.externs, p[i].id, ExternDecl(p[i]))
          <=> \A j \in 1..(i - 1) : p[j].k = "declareextern" /\ p[j].id = p[i].id => ExternDecl(p[j]) = ExternDecl(p[i])
    <3>1. Agrees(g.externs, p[i].id, Externs(p)[i])
            <=> \A j \in 1..(i - 1) : p[j].k = "declareextern" /\ p[j].id = p[i].id => Externs(p)[j] = Externs(p)[i]
      BY <1>0, ListsAgree DEF TablesHold
    <3>. QED BY <1>2, <1>3, <3>1
  <2>2. DeclFits(p[i], g) <=> p[i].sig \in DOMAIN g.sigs /\ Agrees(g.externs, p[i].id, ExternDecl(p[i]))
    BY <1>10 DEF DeclFits, DataInits
  <2>3. DeclHere(p, i) <=> Before(p, i, "createsig", p[i].sig)
          /\ \A j \in 1..(i - 1) : p[j].k = "declareextern" /\ p[j].id = p[i].id => Decl(p[j]) = Decl(p[i])
    BY <1>10 DEF DeclHere, DataInits, Declarations
  <2>4. ASSUME NEW j \in 1..i, p[j].k = "declareextern" PROVE Decl(p[j]) = Decl(p[i]) <=> ExternDecl(p[j]) = ExternDecl(p[i])
    <3>1. Decl(p[j]) = <<p[j].sig, p[j].symbol>> /\ Decl(p[i]) = <<p[i].sig, p[i].symbol>>
      BY <1>10, <2>4 DEF Decl
    <3>2. <<p[j].sig, p[j].symbol>> = <<p[i].sig, p[i].symbol>> <=> p[j].sig = p[i].sig /\ p[j].symbol = p[i].symbol
      OBVIOUS
    <3>3. ExternDecl(p[j]) = ExternDecl(p[i]) <=> p[j].sig = p[i].sig /\ p[j].symbol = p[i].symbol
      BY DEF ExternDecl
    <3>. QED BY <3>1, <3>2, <3>3
  <2>5. (\A j \in 1..(i - 1) : p[j].k = "declareextern" /\ p[j].id = p[i].id => Decl(p[j]) = Decl(p[i]))
          <=> \A j \in 1..(i - 1) : p[j].k = "declareextern" /\ p[j].id = p[i].id => ExternDecl(p[j]) = ExternDecl(p[i])
    BY <1>3, <2>4
  <2>. QED BY <1>8, <2>1, <2>2, <2>3, <2>5
<1>11. CASE p[i].k \notin Declarations \cup DataInits
  <2>1. DeclFits(p[i], g)
    BY <1>11 DEF DeclFits, Declarations
  <2>2. DeclHere(p, i)
    BY <1>11 DEF DeclHere, Declarations
  <2>. QED BY <2>1, <2>2
<1>. QED BY <1>5, <1>6, <1>7, <1>9, <1>10, <1>11 DEF Declarations

-----------------------------------------------------------------------------
(* collect: the bodies *)

(* A value that is there. *)
LEMMA SomeFacts == \A x : Some(x) # None /\ Some(x)[1] = x
BY DEF Some, None

(* A list with one more element. *)
LEMMA ListAppend ==
  ASSUME NEW s, List(s), NEW x
  PROVE  /\ List(Append(s, x)) /\ Len(Append(s, x)) = Len(s) + 1 /\ Append(s, x)[Len(s) + 1] = x
         /\ \A i \in 1..Len(s) : Append(s, x)[i] = s[i]
<1>. DEFINE T == {s[i] : i \in DOMAIN s} \cup {x}
            a == Append(s, x)
<1>1. Len(s) \in Nat /\ DOMAIN s = 1..Len(s) /\ s \in Seq({s[i] : i \in DOMAIN s})
  BY ListFacts
<1>2. s \in Seq(T)
  <2>1. \A i \in 1..Len(s) : s[i] \in T
    BY <1>1
  <2>. HIDE DEF T
  <2>. QED BY <1>1, <2>1
<1>3. x \in T
  OBVIOUS
<1>. HIDE DEF T
<1>4. /\ a \in Seq(T) /\ Len(a) = Len(s) + 1 /\ a[Len(s) + 1] = x
      /\ \A i \in 1..Len(s) : a[i] = s[i]
  BY <1>2, <1>3
<1>. HIDE DEF a
<1>5. a \in Seq({a[i] : i \in DOMAIN a})
  <2>1. DOMAIN a = 1..Len(a) /\ Len(a) \in Nat
    BY <1>4
  <2>2. \A i \in 1..Len(a) : a[i] \in {a[j] : j \in DOMAIN a}
    BY <2>1
  <2>. QED BY <1>4, <2>1, <2>2
<1>6. List(a)
  BY <1>5 DEF List
<1>. QED BY <1>4, <1>6 DEF a

(* A function on 1..n is a list of n elements. *)
LEMMA ListOfFunction ==
  ASSUME NEW n \in Nat, NEW f, f = [i \in 1..n |-> f[i]]
  PROVE  List(f) /\ Len(f) = n
<1>. DEFINE T == {f[i] : i \in DOMAIN f}
<1>1. DOMAIN f = 1..n /\ \A i \in 1..n : f[i] \in T
  OBVIOUS
<1>2. f \in [1..n -> T]
  BY <1>1
<1>. HIDE DEF T
<1>3. f \in Seq(T) /\ Len(f) = n
  BY <1>2
<1>. QED BY <1>3 DEF List, T

(* A part of a list, and the part one longer. *)
LEMMA PartFacts ==
  ASSUME NEW p, List(p), NEW m \in Nat, NEW n \in Nat, m >= 1, n <= Len(p), m <= n + 1
  PROVE  /\ List(SubSeq(p, m, n)) /\ Len(SubSeq(p, m, n)) = n + 1 - m
         /\ \A i \in 1..(n + 1 - m) : SubSeq(p, m, n)[i] = p[i + (m - 1)]
         /\ n < Len(p) => Append(SubSeq(p, m, n), p[n + 1]) = SubSeq(p, m, n + 1)
<1>. DEFINE T == {p[i] : i \in DOMAIN p}
            s == SubSeq(p, m, n)
<1>1. Len(p) \in Nat /\ DOMAIN p = 1..Len(p) /\ p \in Seq(T)
  BY ListFacts
<1>2. \A i \in 1..Len(p) : p[i] \in T
  BY <1>1
<1>. HIDE DEF T
<1>3. s = [i \in 1..(n + 1 - m) |-> p[i + (m - 1)]] /\ n + 1 - m \in Nat
  BY <1>1, <1>2
<1>. HIDE DEF s
<1>4. \A i \in 1..(n + 1 - m) : s[i] = p[i + (m - 1)]
  BY <1>3
<1>5. List(s) /\ Len(s) = n + 1 - m
  <2>1. s = [i \in 1..(n + 1 - m) |-> s[i]]
    BY <1>3, <1>4
  <2>. QED BY <1>3, <2>1, ListOfFunction
<1>6. ASSUME n < Len(p) PROVE Append(s, p[n + 1]) = SubSeq(p, m, n + 1)
  <2>. DEFINE a == Append(s, p[n + 1])
              u == SubSeq(p, m, n + 1)
              k == n + 1 - m
  <2>1. List(a) /\ Len(a) = k + 1 /\ a[k + 1] = p[n + 1] /\ \A i \in 1..k : a[i] = s[i]
    BY <1>5, ListAppend
  <2>2. u = [i \in 1..(k + 1) |-> p[i + (m - 1)]]
    BY <1>1, <1>2, <1>3, <1>6
  <2>3. k \in Nat /\ (k + 1) + (m - 1) = n + 1
    BY <1>3
  <2>. HIDE DEF a, u, k
  <2>4. a \in Seq({a[i] : i \in DOMAIN a}) /\ DOMAIN a = 1..(k + 1)
    BY <2>1, <2>3, ListFacts
  <2>5. \A i \in 1..(k + 1) : a[i] = p[i + (m - 1)]
    <3>1. \A i \in 1..(k + 1) : i = k + 1 \/ i \in 1..k
      BY <2>3
    <3>. QED BY <1>4, <2>1, <2>3, <3>1 DEF k
  <2>6. a = [i \in 1..(k + 1) |-> a[i]]
    BY <2>4
  <2>. QED BY <2>2, <2>5, <2>6 DEF a, u
<1>. QED BY <1>4, <1>5, <1>6 DEF s

(* No body begins while one is open. *)
LEMMA CountOpen ==
  ASSUME NEW p, List(p), NEW i \in 0..Len(p), NEW b \in OpenAt(p, i)
  PROVE  Count(p, b) = Count(p, i)
<1>1. b \in Begins(p) /\ b <= i /\ i < EndOf(p, b)
  BY DEF OpenAt
<1>2. b \in 1..Len(p) /\ b \in DOMAIN p /\ Len(p) \in Nat /\ i \in Nat
  BY <1>1, BeginFacts
<1>3. EndOf(p, b) \in (b + 1)..(Len(p) + 1) /\ \A j \in (b + 1)..(EndOf(p, b) - 1) : p[j].k \notin {"begin", "finish"}
  BY <1>2, EndFacts
<1>4. ASSUME NEW a \in Begins(p), a <= i PROVE a <= b
  <2>1. a \in 1..Len(p) /\ p[a].k = "begin"
    BY BeginFacts
  <2>2. SUFFICES ASSUME ~(a <= b) PROVE FALSE
    OBVIOUS
  <2>3. a \in (b + 1)..(EndOf(p, b) - 1)
    BY <1>1, <1>2, <1>3, <1>4, <2>1, <2>2
  <2>. QED BY <1>3, <2>1, <2>3
<1>5. \A a \in Begins(p) : a <= b => a <= i
  <2>1. \A a \in Begins(p) : a \in Nat
    BY BeginFacts
  <2>. QED BY <1>1, <1>2, <2>1
<1>6. {a \in Begins(p) : a <= b} = {a \in Begins(p) : a <= i}
  BY <1>4, <1>5
<1>. QED BY <1>6 DEF Count

-----------------------------------------------------------------------------
(* The rules of nesting, for command i and those before it. *)
NestHere(p, i) ==
  /\ p[i].k = "begin" => OpenAt(p, i - 1) = {} /\ \A b \in Begins(p) : b < i => p[b].id # p[i].id
  /\ p[i].k = "finish" => \E b \in OpenAt(p, i - 1) : p[b].id = p[i].id
  /\ p[i].k \notin {"begin", "finish"} => OpenAt(p, i - 1) # {} \/ p[i].k \in TopLevel

(* A body as collect keeps it. *)
Body(p, b) == [id |-> p[b].id, cmds |-> BodyOf(p, b)]

(* What is open and what has been closed after i commands. *)
OpenHold(p, i, g) ==
  /\ OpenAt(p, i) = {} => g.open = None
  /\ \A b \in OpenAt(p, i) : g.open = Some(p[b].id) /\ g.cmds = SubSeq(p, b + 1, i)

(* The bodies closed after i commands, in the order of their begins. *)
BodiesHold(p, i, g) ==
  /\ List(g.bodies) /\ Len(g.bodies) = Count(p, i) - (IF OpenAt(p, i) = {} THEN 0 ELSE 1)
  /\ \A b \in Begins(p) : EndOf(p, b) <= i =>
       /\ p[EndOf(p, b)].k = "finish" /\ p[EndOf(p, b)].id = p[b].id
       /\ Count(p, b) \in DOMAIN g.bodies /\ g.bodies[Count(p, b)] = Body(p, b)
  /\ \A m \in DOMAIN g.bodies : \E b \in Begins(p) : EndOf(p, b) <= i /\ m = Count(p, b)

(* Both. *)
NestHold(p, i, g) == OpenHold(p, i, g) /\ BodiesHold(p, i, g)

(* The body that is open collects the commands since its begin. *)
LEMMA OpenStepHold ==
  ASSUME NEW p, List(p), NEW i \in 1..Len(p), NEW g, NEW h, OpenHold(p, i - 1, g), NestDone(p[i], g, h)
  PROVE  OpenHold(p, i, h)
<1>0. Len(p) \in Nat /\ i \in DOMAIN p /\ i \in Nat
  BY ListFacts
<1>1. OpenAt(p, i) = IF p[i].k = "begin" THEN {i} ELSE IF p[i].k = "finish" THEN {} ELSE OpenAt(p, i - 1)
  BY OpenStep
<1>2. CASE p[i].k = "begin"
  <2>1. OpenAt(p, i) = {i} /\ h.open = Some(p[i].id) /\ h.cmds = <<>>
    BY <1>1, <1>2 DEF NestDone
  <2>2. SubSeq(p, i + 1, i) = <<>>
    <3>1. List(SubSeq(p, i + 1, i)) /\ Len(SubSeq(p, i + 1, i)) = 0
      BY <1>0, PartFacts
    <3>. QED BY <3>1, ListFacts
  <2>. QED BY <2>1, <2>2 DEF OpenHold
<1>3. CASE p[i].k = "finish"
  BY <1>1, <1>3 DEF NestDone, OpenHold
<1>4. CASE p[i].k \notin {"begin", "finish"}
  <2>1. OpenAt(p, i) = OpenAt(p, i - 1) /\ h.open = g.open
        /\ h.cmds = IF g.open # None THEN Append(g.cmds, p[i]) ELSE g.cmds
    BY <1>1, <1>4 DEF NestDone
  <2>2. ASSUME NEW b \in OpenAt(p, i - 1) PROVE h.open = Some(p[b].id) /\ h.cmds = SubSeq(p, b + 1, i)
    <3>1. g.open = Some(p[b].id) /\ g.cmds = SubSeq(p, b + 1, i - 1)
      BY DEF OpenHold
    <3>2. g.open # None
      BY <3>1 DEF Some, None
    <3>3. b \in 1..Len(p) /\ b <= i - 1
      BY BeginFacts DEF OpenAt
    <3>4. Append(SubSeq(p, b + 1, i - 1), p[(i - 1) + 1]) = SubSeq(p, b + 1, (i - 1) + 1)
      <4>1. b + 1 \in Nat /\ i - 1 \in Nat /\ b + 1 >= 1 /\ i - 1 <= Len(p) /\ b + 1 <= (i - 1) + 1 /\ i - 1 < Len(p)
        BY <1>0, <3>3
      <4>. QED BY <4>1, PartFacts
    <3>5. (i - 1) + 1 = i
      BY <1>0
    <3>. QED BY <2>1, <3>1, <3>2, <3>4, <3>5
  <2>. QED BY <2>1, <2>2 DEF OpenHold
<1>. QED BY <1>2, <1>3, <1>4

(* The ids with a body are those of the bodies that have begun, when none is open. *)
LEMMA HasBodyFacts ==
  ASSUME NEW p, List(p), NEW i \in 0..Len(p), NEW g, BodiesHold(p, i, g)
  PROVE  /\ \A id \in HasBody(g) : \E b \in Begins(p) : b <= i /\ p[b].id = id
         /\ OpenAt(p, i) = {} => \A b \in Begins(p) : b <= i => p[b].id \in HasBody(g)
<1>0. Len(p) \in Nat /\ i \in Nat
  BY ListFacts
<1>1. ASSUME NEW id \in HasBody(g) PROVE \E b \in Begins(p) : b <= i /\ p[b].id = id
  <2>1. PICK m \in DOMAIN g.bodies : id = g.bodies[m].id
    BY DEF HasBody
  <2>2. PICK b \in Begins(p) : EndOf(p, b) <= i /\ m = Count(p, b)
    BY <2>1 DEF BodiesHold
  <2>3. g.bodies[m] = Body(p, b)
    BY <2>2 DEF BodiesHold
  <2>4. b \in 1..Len(p) /\ b \in DOMAIN p
    BY BeginFacts
  <2>5. EndOf(p, b) \in (b + 1)..(Len(p) + 1)
    BY <2>4, EndFacts
  <2>6. b <= i
    BY <1>0, <2>2, <2>4, <2>5
  <2>7. p[b].id = id
    BY <2>1, <2>3 DEF Body
  <2>. QED BY <2>6, <2>7
<1>2. ASSUME OpenAt(p, i) = {}, NEW b \in Begins(p), b <= i PROVE p[b].id \in HasBody(g)
  <2>1. b \in 1..Len(p) /\ b \in DOMAIN p
    BY BeginFacts
  <2>2. EndOf(p, b) \in (b + 1)..(Len(p) + 1)
    BY <2>1, EndFacts
  <2>3. ~(i < EndOf(p, b))
    BY <1>2 DEF OpenAt
  <2>4. EndOf(p, b) <= i
    BY <1>0, <2>2, <2>3
  <2>5. Count(p, b) \in DOMAIN g.bodies /\ g.bodies[Count(p, b)] = Body(p, b)
    BY <2>4 DEF BodiesHold
  <2>. QED BY <2>5 DEF HasBody, Body
<1>. QED BY <1>1, <1>2

(* What the loop of collect takes is what the rules of nesting allow. *)
LEMMA NestExact ==
  ASSUME NEW p, List(p), NEW i \in 1..Len(p), NEW g, NestHold(p, i - 1, g)
  PROVE  NestFits(p[i], g) <=> NestHere(p, i)
<1>0. Len(p) \in Nat /\ i \in Nat /\ i - 1 \in 0..Len(p)
  BY ListFacts
<1>1. g.open = None <=> OpenAt(p, i - 1) = {}
  <2>1. ASSUME NEW b \in OpenAt(p, i - 1) PROVE g.open # None
    <3>1. g.open = Some(p[b].id)
      BY DEF NestHold, OpenHold
    <3>. QED BY <3>1, SomeFacts
  <2>. QED BY <2>1 DEF NestHold, OpenHold
<1>2. ASSUME OpenAt(p, i - 1) = {}
      PROVE  p[i].id \notin HasBody(g) <=> \A b \in Begins(p) : b < i => p[b].id # p[i].id
  <2>1. /\ \A id \in HasBody(g) : \E b \in Begins(p) : b <= i - 1 /\ p[b].id = id
        /\ \A b \in Begins(p) : b <= i - 1 => p[b].id \in HasBody(g)
    BY <1>0, <1>2, HasBodyFacts DEF NestHold
  <2>2. \A b \in Begins(p) : b <= i - 1 <=> b < i
    <3>1. \A b \in Begins(p) : b \in Nat
      BY BeginFacts
    <3>. QED BY <1>0, <3>1
  <2>. QED BY <2>1, <2>2
<1>3. g.open = Some(p[i].id) <=> \E b \in OpenAt(p, i - 1) : p[b].id = p[i].id
  <2>1. CASE OpenAt(p, i - 1) = {}
    BY <1>1, <2>1 DEF Some, None
  <2>2. CASE OpenAt(p, i - 1) # {}
    <3>1. PICK b \in OpenAt(p, i - 1) : TRUE
      BY <2>2
    <3>2. g.open = Some(p[b].id) /\ \A c \in OpenAt(p, i - 1) : c = b
      BY <1>0, OpenOne DEF NestHold, OpenHold
    <3>. QED BY <3>2 DEF Some
  <2>. QED BY <2>1, <2>2
<1>4. CASE p[i].k = "begin"
  BY <1>1, <1>2, <1>4 DEF NestFits, NestHere
<1>5. CASE p[i].k = "finish"
  BY <1>3, <1>5 DEF NestFits, NestHere
<1>6. CASE p[i].k \notin {"begin", "finish"}
  BY <1>1, <1>6 DEF NestFits, NestHere
<1>. QED BY <1>4, <1>5, <1>6

(* A body that is closed has been collected whole. *)
LEMMA BodiesStep ==
  ASSUME NEW p, List(p), NEW i \in 1..Len(p), NEW g, NEW h, NestHold(p, i - 1, g), NestDone(p[i], g, h), NestHere(p, i)
  PROVE  BodiesHold(p, i, h)
<1>0. Len(p) \in Nat /\ i \in DOMAIN p /\ i \in Nat /\ i - 1 \in 0..Len(p) /\ i \in 0..Len(p)
  BY ListFacts
<1>1. /\ OpenAt(p, i) = IF p[i].k = "begin" THEN {i} ELSE IF p[i].k = "finish" THEN {} ELSE OpenAt(p, i - 1)
      /\ \A b \in OpenAt(p, i - 1) : p[i].k \in {"begin", "finish"} => EndOf(p, b) = i
      /\ \A b \in Begins(p) : EndOf(p, b) = i => b \in OpenAt(p, i - 1)
  BY OpenStep
<1>2. Count(p, i) \in Nat /\ Count(p, i - 1) \in Nat /\ Count(p, i) = Count(p, i - 1) + (IF p[i].k = "begin" THEN 1 ELSE 0)
  BY <1>0, CountStep
<1>3. List(g.bodies) /\ Len(g.bodies) = Count(p, i - 1) - (IF OpenAt(p, i - 1) = {} THEN 0 ELSE 1)
  BY DEF NestHold, BodiesHold
<1>4. \A b \in Begins(p) : b \in 1..Len(p) /\ EndOf(p, b) \in (b + 1)..(Len(p) + 1)
  BY BeginFacts, EndFacts
<1>5. \A b \in Begins(p) : EndOf(p, b) <= i <=> EndOf(p, b) <= i - 1 \/ EndOf(p, b) = i
  BY <1>0, <1>4
<1>6. CASE p[i].k = "finish"
  <2>1. PICK b \in OpenAt(p, i - 1) : p[b].id = p[i].id
    BY <1>6 DEF NestHere
  <2>2. b \in Begins(p) /\ EndOf(p, b) = i /\ BodyOf(p, b) = g.cmds /\ \A c \in OpenAt(p, i - 1) : c = b
    <3>1. EndOf(p, b) = i
      BY <1>1, <1>6
    <3>2. g.cmds = SubSeq(p, b + 1, i - 1)
      BY DEF NestHold, OpenHold
    <3>. QED BY <1>0, <3>1, <3>2, OpenOne DEF BodyOf, OpenAt
  <2>3. OpenAt(p, i) = {} /\ OpenAt(p, i - 1) # {} /\ h.bodies = Append(g.bodies, Body(p, b))
    BY <1>1, <1>6, <2>1, <2>2 DEF NestDone, Body
  <2>4. Count(p, b) = Count(p, i - 1)
    BY <1>0, CountOpen
  <2>5. /\ List(h.bodies) /\ Len(h.bodies) = Len(g.bodies) + 1 /\ h.bodies[Len(g.bodies) + 1] = Body(p, b)
        /\ \A m \in 1..Len(g.bodies) : h.bodies[m] = g.bodies[m]
    BY <1>3, <2>3, ListAppend
  <2>6. Len(g.bodies) + 1 = Count(p, b) /\ Len(h.bodies) = Count(p, i) /\ Len(g.bodies) \in Nat
        /\ DOMAIN h.bodies = 1..(Len(g.bodies) + 1) /\ DOMAIN g.bodies = 1..Len(g.bodies)
    BY <1>2, <1>3, <1>6, <2>3, <2>4, <2>5, ListFacts
  <2>7. ASSUME NEW c \in Begins(p), EndOf(p, c) <= i
        PROVE  /\ p[EndOf(p, c)].k = "finish" /\ p[EndOf(p, c)].id = p[c].id
               /\ Count(p, c) \in DOMAIN h.bodies /\ h.bodies[Count(p, c)] = Body(p, c)
    <3>1. CASE EndOf(p, c) <= i - 1
      <4>1. /\ p[EndOf(p, c)].k = "finish" /\ p[EndOf(p, c)].id = p[c].id
            /\ Count(p, c) \in DOMAIN g.bodies /\ g.bodies[Count(p, c)] = Body(p, c)
        BY <3>1 DEF NestHold, BodiesHold
      <4>. QED BY <2>5, <2>6, <4>1
    <3>2. CASE EndOf(p, c) = i
      <4>1. c = b
        BY <1>1, <2>2, <3>2
      <4>. QED BY <1>6, <2>1, <2>2, <2>5, <2>6, <4>1
    <3>. QED BY <1>5, <2>7, <3>1, <3>2
  <2>8. ASSUME NEW m \in DOMAIN h.bodies PROVE \E c \in Begins(p) : EndOf(p, c) <= i /\ m = Count(p, c)
    <3>1. CASE m \in DOMAIN g.bodies
      <4>1. PICK c \in Begins(p) : EndOf(p, c) <= i - 1 /\ m = Count(p, c)
        BY <3>1 DEF NestHold, BodiesHold
      <4>. QED BY <1>5, <4>1
    <3>2. CASE m = Len(g.bodies) + 1
      BY <1>5, <2>2, <2>6, <3>2
    <3>. QED BY <2>6, <3>1, <3>2
  <2>9. Len(h.bodies) = Count(p, i) - (IF OpenAt(p, i) = {} THEN 0 ELSE 1)
    BY <1>2, <2>3, <2>6
  <2>. QED BY <2>5, <2>7, <2>8, <2>9 DEF BodiesHold
<1>7. CASE p[i].k # "finish"
  <2>1. h.bodies = g.bodies
    BY <1>7 DEF NestDone
  <2>2. Count(p, i) - (IF OpenAt(p, i) = {} THEN 0 ELSE 1) = Count(p, i - 1) - (IF OpenAt(p, i - 1) = {} THEN 0 ELSE 1)
    <3>1. CASE p[i].k = "begin"
      <4>1. OpenAt(p, i - 1) = {} /\ OpenAt(p, i) = {i}
        BY <1>1, <3>1 DEF NestHere
      <4>. QED BY <1>2, <3>1, <4>1
    <3>2. CASE p[i].k # "begin"
      BY <1>1, <1>2, <1>7, <3>2
    <3>. QED BY <3>1, <3>2
  <2>3. \A b \in Begins(p) : EndOf(p, b) # i
    <3>1. SUFFICES ASSUME NEW b \in Begins(p), EndOf(p, b) = i PROVE FALSE
      OBVIOUS
    <3>2. b \in OpenAt(p, i - 1)
      BY <1>1, <3>1
    <3>3. p[i].k \in {"begin", "finish"}
      BY <1>0, <1>4, <3>1, EndFacts, BeginFacts
    <3>4. p[i].k = "begin"
      BY <1>7, <3>3
    <3>. QED BY <3>2, <3>4 DEF NestHere
  <2>. QED BY <1>3, <1>5, <2>1, <2>2, <2>3 DEF NestHold, BodiesHold
<1>. QED BY <1>6, <1>7

-----------------------------------------------------------------------------
(* collect: the program *)

(* A program of commands as the interface makes them. *)
WellShaped(p) == List(p) /\ \A i \in DOMAIN p : Shaped(p[i])

(* What collect has after i commands. *)
CollectHold(p, i, g) ==
  /\ Fields(g) /\ g.st \in {"ok", "error"}
  /\ g.st = "ok" <=> \A j \in 1..i : DeclHere(p, j) /\ NestHere(p, j)
  /\ g.st = "ok" => TablesHold(p, i, g) /\ NestHold(p, i, g)

(* What collect knows after i commands. *)
LEMMA CollectHolds ==
  ASSUME NEW p, WellShaped(p)
  PROVE  \A i \in 0..Len(p) : CollectHold(p, i, Collected(p)[i])
<1>. DEFINE C == Collected(p)
            S == {i \in Nat : i <= Len(p) => CollectHold(p, i, C[i])}
<1>0. List(p) /\ Len(p) \in Nat /\ DOMAIN p = 1..Len(p)
  BY ListFacts DEF WellShaped
<1>1. C[0] = Nothing /\ \A i \in 1..Len(p) : C[i] = CollectStep(p[i], C[i - 1])
  BY <1>0, CollectedDef
<1>2. 0 \in S
  <2>. DEFINE g == Nothing
  <2>1. Fields(g) /\ g.st = "ok" /\ g.open = None /\ g.bodies = <<>>
        /\ g.sigs = <<>> /\ g.datas = <<>> /\ g.funcs = <<>> /\ g.externs = <<>>
    BY DEF Nothing, Fields
  <2>. HIDE DEF g
  <2>2. OpenAt(p, 0) = {} /\ Count(p, 0) = 0
    BY <1>0, OpenStart
  <2>3. TablesHold(p, 0, g)
    BY <2>1, ListsStart DEF TablesHold
  <2>4. List(<<>>) /\ Len(<<>>) = 0 /\ DOMAIN <<>> = {}
    BY DEF List
  <2>5. \A b \in Begins(p) : ~(EndOf(p, b) <= 0)
    <3>1. \A b \in Begins(p) : b \in 1..Len(p) /\ EndOf(p, b) \in (b + 1)..(Len(p) + 1)
      BY <1>0, BeginFacts, EndFacts
    <3>. QED BY <1>0, <3>1
  <2>6. NestHold(p, 0, g)
    BY <2>1, <2>2, <2>4, <2>5 DEF NestHold, OpenHold, BodiesHold
  <2>7. CollectHold(p, 0, g)
    BY <2>1, <2>3, <2>6 DEF CollectHold
  <2>. QED BY <1>1, <2>7 DEF g
<1>3. ASSUME NEW m \in Nat, m \in S PROVE m + 1 \in S
  <2>0. SUFFICES ASSUME m + 1 <= Len(p) PROVE CollectHold(p, m + 1, C[m + 1])
    OBVIOUS
  <2>. DEFINE i == m + 1
              g == C[m]
              h == C[i]
  <2>1. i \in 1..Len(p) /\ i - 1 = m /\ m <= Len(p) /\ i \in DOMAIN p
    BY <1>0, <2>0
  <2>2. CollectHold(p, i - 1, g) /\ h = CollectStep(p[i], g)
    BY <1>1, <1>3, <2>1
  <2>3. \A j \in 1..i : j = i \/ j \in 1..(i - 1)
    BY <2>1
  <2>4. \A j \in 1..(i - 1) : j \in 1..i
    BY <2>1
  <2>. HIDE DEF C, g, h, i
  <2>5. /\ Fields(h) /\ h.st \in {"ok", "error"}
        /\ h.st = "ok" <=> g.st = "ok" /\ DeclFits(p[i], g) /\ NestFits(p[i], g)
        /\ h.st = "ok" => DeclDone(p[i], g, h) /\ NestDone(p[i], g, h)
    BY <2>2, CollectStepFacts DEF CollectHold
  <2>6. g.st = "ok" => (DeclFits(p[i], g) <=> DeclHere(p, i)) /\ (NestFits(p[i], g) <=> NestHere(p, i))
    BY <1>0, <2>1, <2>2, DeclExact, NestExact DEF CollectHold, WellShaped
  <2>7. g.st = "ok" <=> \A j \in 1..(i - 1) : DeclHere(p, j) /\ NestHere(p, j)
    BY <2>2 DEF CollectHold
  <2>8. h.st = "ok" <=> \A j \in 1..i : DeclHere(p, j) /\ NestHere(p, j)
    <3>1. i \in 1..i
      BY <2>1
    <3>. QED BY <2>3, <2>4, <2>5, <2>6, <2>7, <3>1
  <2>9. ASSUME h.st = "ok" PROVE TablesHold(p, i, h) /\ NestHold(p, i, h)
    <3>1. TablesHold(p, i - 1, g) /\ NestHold(p, i - 1, g) /\ DeclFits(p[i], g) /\ NestHere(p, i)
          /\ DeclDone(p[i], g, h) /\ NestDone(p[i], g, h)
      BY <2>2, <2>5, <2>6, <2>9 DEF CollectHold
    <3>2. TablesHold(p, i, h)
      BY <1>0, <2>1, <3>1, TablesStep
    <3>3. OpenHold(p, i, h)
      BY <1>0, <2>1, <3>1, OpenStepHold DEF NestHold
    <3>4. BodiesHold(p, i, h)
      BY <1>0, <2>1, <3>1, BodiesStep
    <3>. QED BY <3>2, <3>3, <3>4 DEF NestHold
  <2>10. CollectHold(p, i, h)
    BY <2>5, <2>8, <2>9 DEF CollectHold
  <2>. QED BY <2>10 DEF i, h
<1>4. Nat \subseteq S
  <2>. HIDE DEF S
  <2>. QED BY <1>2, <1>3, SetInduction
<1>. QED BY <1>0, <1>4

-----------------------------------------------------------------------------
(* The rules of declarations, one command at a time. *)
LEMMA DeclarationsExact ==
  ASSUME NEW p, WellShaped(p)
  PROVE  DeclarationRules(p) <=> \A i \in DOMAIN p : DeclHere(p, i)
<1>0. DOMAIN p = 1..Len(p) /\ Len(p) \in Nat
  BY ListFacts DEF WellShaped
<1>1. ASSUME \A i \in DOMAIN p : DeclHere(p, i),
             NEW i \in DOMAIN p, NEW j \in DOMAIN p, p[i].k \in Declarations, p[j].k = p[i].k, p[j].id = p[i].id
      PROVE  Decl(p[i]) = Decl(p[j])
  <2>1. \/ i = j \/ i \in 1..(j - 1) \/ j \in 1..(i - 1)
    BY <1>0
  <2>2. i \in 1..(j - 1) => Decl(p[i]) = Decl(p[j])
    BY <1>1 DEF DeclHere
  <2>3. j \in 1..(i - 1) => Decl(p[i]) = Decl(p[j])
    BY <1>1 DEF DeclHere
  <2>. QED BY <2>1, <2>2, <2>3
<1>2. \A i \in DOMAIN p : \A j \in 1..(i - 1) : j \in DOMAIN p
  BY <1>0
<1>. QED BY <1>1, <1>2, Zenon DEF DeclarationRules, DeclHere

(* The rules of nesting that do not name the tables. *)
Nested(p) ==
  /\ \A b \in Begins(p) :
       /\ EndOf(p, b) \in DOMAIN p
       /\ p[EndOf(p, b)].k = "finish" /\ p[EndOf(p, b)].id = p[b].id
       /\ \A c \in Begins(p) : p[b].id = p[c].id => b = c
  /\ \A i \in DOMAIN p : p[i].k = "finish" => \E b \in Begins(p) : EndOf(p, b) = i
  /\ \A i \in DOMAIN p : p[i].k \notin TopLevel \cup {"begin", "finish"} => Inside(p, i)

(* A command is inside a body when one is open before it. *)
LEMMA InsideFacts ==
  ASSUME NEW p, List(p), NEW i \in DOMAIN p, p[i].k \notin {"begin", "finish"}
  PROVE  Inside(p, i) <=> OpenAt(p, i - 1) # {}
<1>0. DOMAIN p = 1..Len(p) /\ Len(p) \in Nat
  BY ListFacts
<1>1. \A b \in Begins(p) : b \in 1..Len(p) /\ EndOf(p, b) \in (b + 1)..(Len(p) + 1)
  BY BeginFacts, EndFacts
<1>2. OpenAt(p, i) = OpenAt(p, i - 1)
  BY <1>0, OpenStep
<1>3. ASSUME NEW b \in Begins(p), b < i, i < EndOf(p, b) PROVE b \in OpenAt(p, i)
  BY <1>0, <1>1, <1>3 DEF OpenAt
<1>4. ASSUME NEW b \in OpenAt(p, i) PROVE b \in Begins(p) /\ b < i /\ i < EndOf(p, b)
  <2>1. b \in Begins(p) /\ b <= i /\ i < EndOf(p, b)
    BY DEF OpenAt
  <2>2. b # i
    BY <2>1 DEF Begins
  <2>. QED BY <1>0, <1>1, <2>1, <2>2
<1>. QED BY <1>2, <1>3, <1>4 DEF Inside

(* The rules of nesting, one command at a time. *)
LEMMA NestedExact ==
  ASSUME NEW p, List(p)
  PROVE  Nested(p) <=> (\A i \in DOMAIN p : NestHere(p, i)) /\ OpenAt(p, Len(p)) = {}
<1>0. DOMAIN p = 1..Len(p) /\ Len(p) \in Nat
  BY ListFacts
<1>1. \A b \in Begins(p) : b \in 1..Len(p) /\ b \in DOMAIN p /\ p[b].k = "begin" /\ EndOf(p, b) \in (b + 1)..(Len(p) + 1)
  BY BeginFacts, EndFacts
<1>2. \A b \in Begins(p) : b \in OpenAt(p, Len(p)) <=> EndOf(p, b) \notin DOMAIN p
  <2>1. \A b \in Begins(p) : b <= Len(p)
    BY <1>0, <1>1
  <2>2. \A b \in Begins(p) : Len(p) < EndOf(p, b) <=> EndOf(p, b) \notin DOMAIN p
    BY <1>0, <1>1
  <2>. QED BY <2>1, <2>2 DEF OpenAt
<1>3. ASSUME NEW i \in DOMAIN p
      PROVE  /\ \A b \in OpenAt(p, i - 1) : p[i].k \in {"begin", "finish"} => EndOf(p, b) = i
             /\ \A b \in Begins(p) : EndOf(p, b) = i => b \in OpenAt(p, i - 1)
             /\ \A b \in OpenAt(p, i - 1), c \in OpenAt(p, i - 1) : b = c
             /\ \A b \in OpenAt(p, i - 1) : b \in Begins(p)
  <2>1. i \in 1..Len(p) /\ i - 1 \in 0..Len(p)
    BY <1>0
  <2>2. \A b \in OpenAt(p, i - 1), c \in OpenAt(p, i - 1) : b = c
    BY <2>1, OpenOne
  <2>3. \A b \in OpenAt(p, i - 1) : b \in Begins(p)
    BY DEF OpenAt
  <2>. QED BY <2>1, <2>2, <2>3, OpenStep
<1>4. ASSUME \A i \in DOMAIN p : NestHere(p, i), OpenAt(p, Len(p)) = {} PROVE Nested(p)
  <2>1. ASSUME NEW b \in Begins(p) PROVE EndOf(p, b) \in DOMAIN p /\ p[EndOf(p, b)].k = "finish" /\ p[EndOf(p, b)].id = p[b].id
    <3>. DEFINE e == EndOf(p, b)
    <3>1. e \in DOMAIN p
      BY <1>2, <1>4
    <3>2. b \in OpenAt(p, e - 1)
      BY <1>3, <3>1
    <3>3. p[e].k \in {"begin", "finish"}
      BY <1>0, <1>1, <3>1, EndFacts
    <3>4. NestHere(p, e)
      BY <1>4, <3>1
    <3>. HIDE DEF e
    <3>5. p[e].k = "finish"
      BY <3>2, <3>3, <3>4 DEF NestHere
    <3>6. PICK c \in OpenAt(p, e - 1) : p[c].id = p[e].id
      BY <3>4, <3>5 DEF NestHere
    <3>7. c = b
      BY <1>3, <3>1, <3>2
    <3>. QED BY <3>1, <3>5, <3>6, <3>7 DEF e
  <2>2. ASSUME NEW b \in Begins(p), NEW c \in Begins(p), b < c PROVE p[b].id # p[c].id
    BY <1>1, <1>4, <2>2 DEF NestHere
  <2>3. ASSUME NEW b \in Begins(p), NEW c \in Begins(p), p[b].id = p[c].id PROVE b = c
    <3>1. ~(b < c) /\ ~(c < b)
      BY <2>2, <2>3
    <3>2. b \in Nat /\ c \in Nat
      BY <1>1
    <3>. QED BY <3>1, <3>2
  <2>4. ASSUME NEW i \in DOMAIN p, p[i].k = "finish" PROVE \E b \in Begins(p) : EndOf(p, b) = i
    <3>1. PICK b \in OpenAt(p, i - 1) : p[b].id = p[i].id
      BY <1>4, <2>4 DEF NestHere
    <3>. QED BY <1>3, <2>4, <3>1
  <2>5. ASSUME NEW i \in DOMAIN p, p[i].k \notin TopLevel \cup {"begin", "finish"} PROVE Inside(p, i)
    BY <1>4, <2>5, InsideFacts DEF NestHere
  <2>. QED BY <2>1, <2>3, <2>4, <2>5 DEF Nested
<1>5. ASSUME Nested(p) PROVE (\A i \in DOMAIN p : NestHere(p, i)) /\ OpenAt(p, Len(p)) = {}
  <2>1. OpenAt(p, Len(p)) = {}
    <3>1. \A b \in OpenAt(p, Len(p)) : b \in Begins(p)
      BY DEF OpenAt
    <3>. QED BY <1>2, <1>5, <3>1 DEF Nested
  <2>2. ASSUME NEW i \in DOMAIN p PROVE NestHere(p, i)
    <3>1. CASE p[i].k = "begin"
      <4>1. i \in Begins(p)
        BY <3>1 DEF Begins
      <4>2. OpenAt(p, i - 1) = {}
        <5>1. SUFFICES ASSUME NEW b \in OpenAt(p, i - 1) PROVE FALSE
          OBVIOUS
        <5>2. b \in Begins(p) /\ EndOf(p, b) = i
          BY <1>3, <3>1
        <5>. QED BY <1>5, <3>1, <5>2 DEF Nested
      <4>3. ASSUME NEW b \in Begins(p), b < i PROVE p[b].id # p[i].id
        <5>1. b # i
          BY <1>1, <4>1, <4>3
        <5>. QED BY <1>5, <4>1, <5>1 DEF Nested
      <4>. QED BY <3>1, <4>2, <4>3 DEF NestHere
    <3>2. CASE p[i].k = "finish"
      <4>1. PICK b \in Begins(p) : EndOf(p, b) = i
        BY <1>5, <3>2 DEF Nested
      <4>2. b \in OpenAt(p, i - 1) /\ p[b].id = p[i].id
        BY <1>3, <1>5, <4>1 DEF Nested
      <4>. QED BY <3>2, <4>2 DEF NestHere
    <3>3. CASE p[i].k \notin {"begin", "finish"}
      BY <1>5, <3>3, InsideFacts DEF NestHere, Nested
    <3>. QED BY <3>1, <3>2, <3>3
  <2>. QED BY <2>1, <2>2
<1>. QED BY <1>4, <1>5

-----------------------------------------------------------------------------
(* What collect lets through, and what it has then. *)
CollectFits(p) == DeclarationRules(p) /\ Nested(p) /\ Ids(p, "declarefunc") \subseteq {p[b].id : b \in Begins(p)}

(* A table of a whole program has every id declared. *)
LEMMA ListsIds ==
  ASSUME NEW p, List(p), NEW t, NEW kind, NEW D, Lists(t, p, Len(p), kind, D)
  PROVE  /\ DOMAIN t = Ids(p, kind)
         /\ \A i \in DOMAIN p : p[i].k = kind => p[i].id \in DOMAIN t /\ t[p[i].id] = D[i]
<1>1. DOMAIN p = 1..Len(p)
  BY ListFacts
<1>2. \A i \in DOMAIN p : p[i].k = kind => p[i].id \in DOMAIN t /\ t[p[i].id] = D[i]
  BY <1>1 DEF Lists
<1>. QED BY <1>1, <1>2 DEF Lists, Ids

(* collect (lib.rs 442-509) lets a program through exactly when its         *)
(* declarations and its nesting keep the rules; it has then every           *)
(* declaration and every body.                                              *)
THEOREM CollectExact ==
  ASSUME NEW p, WellShaped(p), NEW g, g = Collect(p)
  PROVE  /\ Fields(g) /\ g.st \in {"ok", "error"}
         /\ g.st = "ok" <=> CollectFits(p)
         /\ g.st = "ok" => /\ g = Collected(p)[Len(p)] /\ TablesHold(p, Len(p), g) /\ BodiesHold(p, Len(p), g)
                           /\ OpenAt(p, Len(p)) = {} /\ HasBody(g) = {p[b].id : b \in Begins(p)}
<1>0. List(p) /\ DOMAIN p = 1..Len(p) /\ Len(p) \in Nat /\ Len(p) \in 0..Len(p)
  BY ListFacts DEF WellShaped
<1>. DEFINE c == Collected(p)[Len(p)]
<1>1. CollectHold(p, Len(p), c)
  BY <1>0, CollectHolds
<1>2. g = IF c.open # None \/ ~(DOMAIN c.funcs \subseteq HasBody(c)) THEN Refuse(c) ELSE c
  BY DEF Collect
<1>. HIDE DEF c
<1>3. c.st = "ok" <=> DeclarationRules(p) /\ \A i \in DOMAIN p : NestHere(p, i)
  <2>1. DeclarationRules(p) <=> \A i \in DOMAIN p : DeclHere(p, i)
    BY DeclarationsExact
  <2>. QED BY <1>0, <1>1, <2>1 DEF CollectHold
<1>4. Nested(p) <=> (\A i \in DOMAIN p : NestHere(p, i)) /\ OpenAt(p, Len(p)) = {}
  BY <1>0, NestedExact
<1>5. Fields(Refuse(c)) /\ Refuse(c).st = "error"
  BY <1>1, RefuseFacts DEF CollectHold
<1>6. CASE c.st = "ok"
  <2>1. TablesHold(p, Len(p), c) /\ OpenHold(p, Len(p), c) /\ BodiesHold(p, Len(p), c)
    BY <1>1, <1>6 DEF CollectHold, NestHold
  <2>2. c.open = None <=> OpenAt(p, Len(p)) = {}
    BY <2>1 DEF OpenHold, Some, None
  <2>3. DOMAIN c.funcs = Ids(p, "declarefunc")
    BY <1>0, <2>1, ListsIds DEF TablesHold
  <2>4. ASSUME OpenAt(p, Len(p)) = {} PROVE HasBody(c) = {p[b].id : b \in Begins(p)}
    <3>1. \A b \in Begins(p) : b <= Len(p)
      BY <1>0, BeginFacts
    <3>2. /\ \A id \in HasBody(c) : \E b \in Begins(p) : b <= Len(p) /\ p[b].id = id
          /\ \A b \in Begins(p) : b <= Len(p) => p[b].id \in HasBody(c)
      BY <1>0, <2>1, <2>4, HasBodyFacts
    <3>. QED BY <3>1, <3>2
  <2>5. CASE OpenAt(p, Len(p)) = {} /\ Ids(p, "declarefunc") \subseteq {p[b].id : b \in Begins(p)}
    <3>1. g = c
      BY <1>2, <2>2, <2>3, <2>4, <2>5
    <3>2. CollectFits(p)
      BY <1>3, <1>4, <1>6, <2>5 DEF CollectFits
    <3>. QED BY <1>1, <1>6, <2>1, <2>4, <2>5, <3>1, <3>2 DEF c, CollectHold
  <2>6. CASE ~(OpenAt(p, Len(p)) = {} /\ Ids(p, "declarefunc") \subseteq {p[b].id : b \in Begins(p)})
    <3>1. g = Refuse(c)
      BY <1>2, <2>2, <2>3, <2>4, <2>6
    <3>2. ~CollectFits(p)
      BY <1>4, <2>6 DEF CollectFits
    <3>. QED BY <1>5, <3>1, <3>2
  <2>. QED BY <2>5, <2>6
<1>7. CASE c.st # "ok"
  <2>1. c.st = "error" /\ Fields(c)
    BY <1>1, <1>7 DEF CollectHold
  <2>2. Fields(g) /\ g.st = "error"
    BY <1>2, <1>5, <2>1
  <2>3. ~CollectFits(p)
    BY <1>3, <1>4, <1>7 DEF CollectFits
  <2>. QED BY <2>2, <2>3
<1>. QED BY <1>6, <1>7

-----------------------------------------------------------------------------
(* The bytes of data objects *)

(* An object after all of its initializers. *)
After(inits, size, d) == Written(inits, size, d)[Len(inits)]

(* One more initializer. *)
LEMMA AfterAppend ==
  ASSUME NEW inits, List(inits), NEW x, NEW size, NEW d
  PROVE  After(Append(inits, x), size, d) = Initialize(After(inits, size, d), x, d)
<1>. DEFINE n == Len(inits)
            a == Append(inits, x)
            W == Written(inits, size, d)
            V == Written(a, size, d)
            S == {j \in Nat : j <= n => V[j] = W[j]}
<1>1. n \in Nat /\ Len(a) = n + 1 /\ a[n + 1] = x /\ \A j \in 1..n : a[j] = inits[j]
  BY ListFacts, ListAppend
<1>2. W[0] = Zeros(size) /\ \A j \in 1..n : W[j] = Initialize(W[j - 1], inits[j], d)
  BY <1>1, WrittenDef
<1>3. V[0] = Zeros(size) /\ \A j \in 1..(n + 1) : V[j] = Initialize(V[j - 1], a[j], d)
  <2>. HIDE DEF a, n
  <2>1. Len(a) \in Nat /\ Len(a) = n + 1
    BY <1>1
  <2>. QED BY <2>1, WrittenDef
<1>. HIDE DEF W, V, n, a
<1>4. 0 \in S
  BY <1>2, <1>3
<1>5. ASSUME NEW m \in Nat, m \in S PROVE m + 1 \in S
  <2>1. SUFFICES ASSUME m + 1 <= n PROVE V[m + 1] = W[m + 1]
    OBVIOUS
  <2>2. m + 1 \in 1..n /\ m + 1 \in 1..(n + 1) /\ (m + 1) - 1 = m /\ m <= n
    BY <1>1, <2>1
  <2>3. V[m] = W[m]
    BY <1>5, <2>2
  <2>. QED BY <1>1, <1>2, <1>3, <2>2, <2>3
<1>6. n \in S
  <2>. HIDE DEF S
  <2>1. Nat \subseteq S
    BY <1>4, <1>5, SetInduction
  <2>. QED BY <1>1, <2>1
<1>7. V[n] = W[n]
  BY <1>1, <1>6
<1>8. V[n + 1] = Initialize(V[n], a[n + 1], d)
  <2>1. n + 1 \in 1..(n + 1) /\ (n + 1) - 1 = n
    BY <1>1
  <2>. QED BY <1>3, <2>1
<1>9. After(a, size, d) = V[n + 1] /\ After(inits, size, d) = W[n]
  BY <1>1 DEF After, V, W, n
<1>. QED BY <1>1, <1>7, <1>8, <1>9 DEF a

(* An initializer that has bytes has a list of them. *)
LEMMA InitBytesFacts ==
  ASSUME NEW c, Shaped(c), InitBytes(c) # None
  PROVE  InitBytes(c) = Some(InitBytes(c)[1]) /\ List(InitBytes(c)[1])
<1>. DEFINE value == CASE c.k = "dataint" /\ c.ty \notin {"bool", "f64"} -> Masked(Parsed(c.lit, c.ty \in Signed, Bits(c.ty)), c.ty)
                       [] c.k = "datafloat" /\ c.ty = "f64" -> c.lit
                       [] c.k = "databool" -> c.lit
                       [] OTHER -> None
            bits == IF c.k = "databool" THEN Byte ELSE Bits(c.ty)
            f == [i \in 1..(bits \div Byte) |-> (value[1] \div 2^(Byte * (i - 1))) % 2^Byte]
            z == [i \in 1..c.size |-> 0]
<1>1. InitBytes(c) = Some(z) \/ InitBytes(c) = Some(f)
  <2>. HIDE DEF z
  <2>1. CASE c.k = "datazero"
    BY <2>1 DEF InitBytes, z
  <2>2. CASE c.k # "datazero"
    BY <2>2 DEF InitBytes
  <2>. QED BY <2>1, <2>2
<1>2. List(z)
  <2>1. c.size \in Nat
    BY DEF Shaped
  <2>2. z = [i \in 1..c.size |-> z[i]]
    OBVIOUS
  <2>. HIDE DEF z
  <2>. QED BY <2>1, <2>2, ListOfFunction
<1>3. List(f)
  <2>1. bits \div Byte \in Nat
    <3>1. bits \in Nat /\ Byte \in Nat /\ Byte > 0
      BY WidthAssumption DEF Bits
    <3>. HIDE DEF bits
    <3>. QED BY <3>1
  <2>2. f = [i \in 1..(bits \div Byte) |-> f[i]]
    OBVIOUS
  <2>. HIDE DEF f, bits
  <2>. QED BY <2>1, <2>2, ListOfFunction
<1>. HIDE DEF f, z
<1>. QED BY <1>1, <1>2, <1>3, SomeFacts

(* A command writes byte n of object d. *)
Covers(c, d, n) == c.k \in DataInits /\ c.id = d /\ n - c.at \in DOMAIN InitBytes(c)[1]

(* A command writes beyond the end of object d, or has no bytes. *)
Misfits(c, d, size) == c.k \in DataInits /\ c.id = d /\ (InitBytes(c) = None \/ c.at + Len(InitBytes(c)[1]) > size)

(* The bytes of an object after i commands. *)
BytesHold(p, i, bytes, size, d) ==
  /\ List(bytes) /\ Len(bytes) = size
  /\ \A n \in 1..size : (\A j \in 1..i : ~Covers(p[j], d, n)) => bytes[n] = 0
  /\ \A n \in 1..size, j \in 1..i :
       Covers(p[j], d, n) /\ (\A l \in 1..i : Covers(p[l], d, n) => l <= j) => bytes[n] = InitBytes(p[j])[1][n - p[j].at]

(* An object after i commands. *)
ObjectHold(p, i, after, size, d) ==
  /\ after = None <=> \E j \in 1..i : Misfits(p[j], d, size)
  /\ after # None => after = Some(after[1]) /\ BytesHold(p, i, after[1], size, d)

(* A command that does not initialize the object leaves its bytes alone. *)
LEMMA ObjectSkips ==
  ASSUME NEW p, NEW i \in Nat, i > 0, NEW after, NEW size \in Nat, NEW d, ObjectHold(p, i - 1, after, size, d),
         ~(p[i].k \in DataInits /\ p[i].id = d)
  PROVE  ObjectHold(p, i, after, size, d)
<1>1. \A j \in 1..i : j = i \/ j \in 1..(i - 1)
  OBVIOUS
<1>2. \A j \in 1..(i - 1) : j \in 1..i
  OBVIOUS
<1>3. \A n : ~Covers(p[i], d, n)
  BY DEF Covers
<1>4. ~Misfits(p[i], d, size)
  BY DEF Misfits
<1>5. after = None <=> \E j \in 1..i : Misfits(p[j], d, size)
  BY <1>1, <1>2, <1>4 DEF ObjectHold
<1>6. ASSUME after # None PROVE BytesHold(p, i, after[1], size, d)
  <2>1. BytesHold(p, i - 1, after[1], size, d)
    BY <1>6 DEF ObjectHold
  <2>2. ASSUME NEW n \in 1..size, \A j \in 1..i : ~Covers(p[j], d, n) PROVE after[1][n] = 0
    BY <1>2, <2>1, <2>2 DEF BytesHold
  <2>3. ASSUME NEW n \in 1..size, NEW j \in 1..i, Covers(p[j], d, n), \A l \in 1..i : Covers(p[l], d, n) => l <= j
        PROVE  after[1][n] = InitBytes(p[j])[1][n - p[j].at]
    <3>1. j \in 1..(i - 1)
      BY <1>1, <1>3, <2>3
    <3>2. \A l \in 1..(i - 1) : Covers(p[l], d, n) => l <= j
      BY <1>2, <2>3
    <3>. QED BY <2>1, <2>3, <3>1, <3>2 DEF BytesHold
  <2>. QED BY <2>1, <2>2, <2>3 DEF BytesHold
<1>. QED BY <1>5, <1>6 DEF ObjectHold

(* An initializer writes the bytes it covers and no others. *)
LEMMA ObjectWrites ==
  ASSUME NEW p, NEW i \in Nat, i > 0, Shaped(p[i]), NEW old, NEW size \in Nat, NEW d, ObjectHold(p, i - 1, old, size, d),
         p[i].k \in DataInits, p[i].id = d, NEW after, after = Initialize(old, p[i], d)
  PROVE  ObjectHold(p, i, after, size, d)
<1>. DEFINE c == p[i]
            src == InitBytes(c)
<1>1. \A j \in 1..i : j = i \/ j \in 1..(i - 1)
  OBVIOUS
<1>2. (\A j \in 1..(i - 1) : j \in 1..i) /\ i \in 1..i
  OBVIOUS
<1>3. CASE old = None
  <2>1. after = None
    BY <1>3 DEF Initialize
  <2>2. \E j \in 1..i : Misfits(p[j], d, size)
    BY <1>2, <1>3 DEF ObjectHold
  <2>. QED BY <2>1, <2>2 DEF ObjectHold
<1>4. CASE old # None
  <2>. DEFINE b == old[1]
  <2>1. BytesHold(p, i - 1, b, size, d) /\ ~(\E j \in 1..(i - 1) : Misfits(p[j], d, size))
    BY <1>4 DEF ObjectHold
  <2>2. List(b) /\ Len(b) = size /\ DOMAIN b = 1..size
    BY <2>1, ListFacts DEF BytesHold
  <2>3. after = WriteInit(b, c)
    BY <1>4 DEF Initialize
  <2>. HIDE DEF b
  <2>4. CASE Misfits(c, d, size)
    <3>1. after = None
      BY <2>2, <2>3, <2>4 DEF WriteInit, Misfits
    <3>. QED BY <1>2, <2>4, <3>1 DEF ObjectHold
  <2>5. CASE ~Misfits(c, d, size)
    <3>1. src # None /\ ~(c.at + Len(src[1]) > size)
      BY <2>5 DEF Misfits
    <3>. DEFINE a == [m \in 1..size |-> IF m - c.at \in DOMAIN src[1] THEN src[1][m - c.at] ELSE b[m]]
    <3>2. after = Some(a)
      BY <2>2, <2>3, <3>1 DEF WriteInit
    <3>3. a = [m \in 1..size |-> a[m]]
      OBVIOUS
    <3>4. \A m \in 1..size : a[m] = IF Covers(c, d, m) THEN src[1][m - c.at] ELSE b[m]
      BY DEF Covers
    <3>. HIDE DEF a
    <3>5. List(a) /\ Len(a) = size
      BY <3>3, ListOfFunction
    <3>6. ASSUME NEW n \in 1..size, \A j \in 1..i : ~Covers(p[j], d, n) PROVE a[n] = 0
      <4>1. a[n] = b[n]
        BY <1>2, <3>4, <3>6
      <4>2. \A j \in 1..(i - 1) : ~Covers(p[j], d, n)
        BY <1>2, <3>6
      <4>. QED BY <2>1, <4>1, <4>2 DEF BytesHold
    <3>7. ASSUME NEW n \in 1..size, NEW j \in 1..i, Covers(p[j], d, n), \A l \in 1..i : Covers(p[l], d, n) => l <= j
          PROVE  a[n] = InitBytes(p[j])[1][n - p[j].at]
      <4>1. CASE Covers(c, d, n)
        <5>1. i <= j
          BY <1>2, <3>7, <4>1
        <5>2. j = i
          BY <5>1
        <5>. QED BY <3>4, <4>1, <5>2
      <4>2. CASE ~Covers(c, d, n)
        <5>1. j \in 1..(i - 1)
          BY <1>1, <3>7, <4>2
        <5>2. \A l \in 1..(i - 1) : Covers(p[l], d, n) => l <= j
          BY <1>2, <3>7
        <5>. QED BY <2>1, <3>4, <3>7, <4>2, <5>1, <5>2 DEF BytesHold
      <4>. QED BY <4>1, <4>2
    <3>8. BytesHold(p, i, a, size, d)
      BY <3>5, <3>6, <3>7 DEF BytesHold
    <3>9. ~(\E j \in 1..i : Misfits(p[j], d, size))
      BY <1>1, <2>1, <2>5
    <3>. QED BY <3>2, <3>8, <3>9, SomeFacts DEF ObjectHold
  <2>. QED BY <2>4, <2>5
<1>. QED BY <1>3, <1>4

(* All objects after i commands. *)
DataHold(p, i, inits) == List(inits) /\ \A size \in Nat : \A d : ObjectHold(p, i, After(inits, size, d), size, d)

(* After any number of commands, in every object each byte is that of the   *)
(* last initializer that covers it.                                         *)
LEMMA DataHolds ==
  ASSUME NEW p, WellShaped(p)
  PROVE  \A i \in 0..Len(p) : Collected(p)[i].st = "ok" => DataHold(p, i, Collected(p)[i].inits)
<1>. DEFINE C == Collected(p)
            S == {i \in Nat : i <= Len(p) /\ C[i].st = "ok" => DataHold(p, i, C[i].inits)}
<1>0. List(p) /\ Len(p) \in Nat /\ DOMAIN p = 1..Len(p)
  BY ListFacts DEF WellShaped
<1>1. C[0] = Nothing /\ \A i \in 1..Len(p) : C[i] = CollectStep(p[i], C[i - 1])
  BY <1>0, CollectedDef
<1>2. \A i \in 0..Len(p) : CollectHold(p, i, C[i])
  BY CollectHolds
<1>. HIDE DEF C
<1>3. 0 \in S
  <2>1. C[0].inits = <<>>
    BY <1>1 DEF Nothing
  <2>2. List(<<>>) /\ Len(<<>>) = 0
    BY DEF List
  <2>3. ASSUME NEW size \in Nat, NEW d PROVE ObjectHold(p, 0, After(<<>>, size, d), size, d)
    <3>. DEFINE z == [n \in 1..size |-> 0]
    <3>1. After(<<>>, size, d) = Some(z)
      <4>1. Written(<<>>, size, d)[0] = Zeros(size)
        BY <2>2, WrittenDef
      <4>. QED BY <2>2, <4>1 DEF After, Zeros
    <3>2. z = [n \in 1..size |-> z[n]] /\ \A n \in 1..size : z[n] = 0
      OBVIOUS
    <3>. HIDE DEF z
    <3>3. List(z) /\ Len(z) = size
      BY <3>2, ListOfFunction
    <3>4. BytesHold(p, 0, z, size, d)
      <4>1. \A j \in 1..0 : FALSE
        OBVIOUS
      <4>. QED BY <3>2, <3>3, <4>1 DEF BytesHold
    <3>5. ~(\E j \in 1..0 : Misfits(p[j], d, size))
      OBVIOUS
    <3>. QED BY <3>1, <3>4, <3>5, SomeFacts DEF ObjectHold
  <2>. QED BY <2>1, <2>2, <2>3 DEF DataHold
<1>4. ASSUME NEW m \in Nat, m \in S PROVE m + 1 \in S
  <2>0. SUFFICES ASSUME m + 1 <= Len(p), C[m + 1].st = "ok" PROVE DataHold(p, m + 1, C[m + 1].inits)
    OBVIOUS
  <2>. DEFINE i == m + 1
              g == C[m]
              h == C[i]
  <2>1. i \in 1..Len(p) /\ i \in 0..Len(p) /\ m \in 0..Len(p) /\ i - 1 = m /\ m <= Len(p) /\ i \in DOMAIN p /\ i \in Nat /\ i > 0
    BY <1>0, <2>0
  <2>2. CollectHold(p, i - 1, g) /\ CollectHold(p, i, h) /\ h = CollectStep(p[i], g)
    BY <1>1, <1>2, <2>1
  <2>3. g.st = "ok" => DataHold(p, i - 1, g.inits)
    BY <1>4, <2>1
  <2>4. h.st = "ok" /\ Shaped(p[i])
    BY <2>0, <2>1 DEF WellShaped
  <2>. HIDE DEF g, h, i
  <2>5. /\ h.st = "ok" <=> g.st = "ok" /\ DeclFits(p[i], g) /\ NestFits(p[i], g)
        /\ h.st = "ok" => DeclDone(p[i], g, h) /\ NestDone(p[i], g, h)
    BY <2>2, CollectStepFacts DEF CollectHold
  <2>6. DataHold(p, i - 1, g.inits) /\ h.inits = IF p[i].k \in DataInits THEN Append(g.inits, p[i]) ELSE g.inits
    BY <2>3, <2>4, <2>5 DEF DeclDone
  <2>7. ASSUME NEW size \in Nat, NEW d PROVE ObjectHold(p, i, After(h.inits, size, d), size, d)
    <3>1. ObjectHold(p, i - 1, After(g.inits, size, d), size, d) /\ List(g.inits)
      BY <2>6 DEF DataHold
    <3>2. CASE p[i].k \notin DataInits
      BY <2>1, <2>6, <3>1, <3>2, ObjectSkips
    <3>3. CASE p[i].k \in DataInits
      <4>1. After(h.inits, size, d) = Initialize(After(g.inits, size, d), p[i], d)
        BY <2>6, <3>1, <3>3, AfterAppend
      <4>2. CASE p[i].id = d
        BY <2>1, <2>4, <3>1, <3>3, <4>1, <4>2, ObjectWrites
      <4>3. CASE p[i].id # d
        <5>1. After(h.inits, size, d) = After(g.inits, size, d)
          BY <4>1, <4>3 DEF Initialize
        <5>. QED BY <2>1, <3>1, <4>3, <5>1, ObjectSkips
      <4>. QED BY <4>2, <4>3
    <3>. QED BY <3>2, <3>3
  <2>8. List(h.inits)
    BY <2>6, ListAppend DEF DataHold
  <2>9. DataHold(p, i, h.inits)
    BY <2>7, <2>8 DEF DataHold
  <2>. QED BY <2>9 DEF h, i
<1>5. Nat \subseteq S
  <2>. HIDE DEF S
  <2>. QED BY <1>3, <1>4, SetInduction
<1>. QED BY <1>0, <1>5 DEF C

-----------------------------------------------------------------------------
(* Symbols and data *)

(* The tables of a whole program. *)
TablesAre(p, g) ==
  /\ DOMAIN g.sigs = Ids(p, "createsig") /\ \A id \in Ids(p, "createsig") : g.sigs[id] = Signature(The(p, "createsig", id))
  /\ DOMAIN g.datas = Ids(p, "declaredata") /\ \A id \in Ids(p, "declaredata") : g.datas[id] = DataDecl(The(p, "declaredata", id))
  /\ DOMAIN g.funcs = Ids(p, "declarefunc") /\ \A id \in Ids(p, "declarefunc") : g.funcs[id] = FuncDecl(The(p, "declarefunc", id))
  /\ DOMAIN g.externs = Ids(p, "declareextern")
  /\ \A id \in Ids(p, "declareextern") : g.externs[id] = ExternDecl(The(p, "declareextern", id))

(* An id that is declared has a first declaration. *)
LEMMA TheFacts ==
  ASSUME NEW p, NEW kind, NEW id, id \in Ids(p, kind)
  PROVE  \E i \in DOMAIN p : p[i].k = kind /\ p[i].id = id /\ The(p, kind, id) = p[i]
<1>1. \E i \in DOMAIN p : p[i].k = kind /\ p[i].id = id
  BY DEF Ids
<1>. DEFINE i == CHOOSE i \in DOMAIN p : p[i].k = kind /\ p[i].id = id
<1>2. i \in DOMAIN p /\ p[i].k = kind /\ p[i].id = id
  BY <1>1
<1>3. The(p, kind, id) = p[i]
  BY DEF The
<1>. QED BY <1>2, <1>3

(* A table holds for each id what the first declaration says. *)
LEMMA ListsThe ==
  ASSUME NEW p, List(p), NEW t, NEW kind, NEW D, Lists(t, p, Len(p), kind, D)
  PROVE  DOMAIN t = Ids(p, kind) /\ \A id \in Ids(p, kind) :
           \E i \in DOMAIN p : p[i].k = kind /\ p[i].id = id /\ The(p, kind, id) = p[i] /\ t[id] = D[i]
<1>1. DOMAIN t = Ids(p, kind) /\ \A i \in DOMAIN p : p[i].k = kind => p[i].id \in DOMAIN t /\ t[p[i].id] = D[i]
  BY ListsIds
<1>2. ASSUME NEW id \in Ids(p, kind)
      PROVE  \E i \in DOMAIN p : p[i].k = kind /\ p[i].id = id /\ The(p, kind, id) = p[i] /\ t[id] = D[i]
  <2>1. PICK i \in DOMAIN p : p[i].k = kind /\ p[i].id = id /\ The(p, kind, id) = p[i]
    BY TheFacts
  <2>2. t[id] = D[i]
    BY <1>1, <2>1
  <2>. QED BY <2>1, <2>2
<1>. QED BY <1>1, <1>2

(* The tables of a program that has been collected. *)
LEMMA TablesFinal ==
  ASSUME NEW p, List(p), NEW g, TablesHold(p, Len(p), g)
  PROVE  TablesAre(p, g)
<1>1. \A i \in DOMAIN p : /\ Sigs(p)[i] = Signature(p[i]) /\ Datas(p)[i] = DataDecl(p[i])
                          /\ Funcs(p)[i] = FuncDecl(p[i]) /\ Externs(p)[i] = ExternDecl(p[i])
  BY DEF Sigs, Datas, Funcs, Externs
<1>2. DOMAIN g.sigs = Ids(p, "createsig") /\ \A id \in Ids(p, "createsig") : g.sigs[id] = Signature(The(p, "createsig", id))
  <2>1. DOMAIN g.sigs = Ids(p, "createsig") /\ \A id \in Ids(p, "createsig") :
          \E i \in DOMAIN p : p[i].k = "createsig" /\ p[i].id = id /\ The(p, "createsig", id) = p[i] /\ g.sigs[id] = Sigs(p)[i]
    BY ListsThe DEF TablesHold
  <2>. QED BY <1>1, <2>1
<1>3. DOMAIN g.datas = Ids(p, "declaredata") /\ \A id \in Ids(p, "declaredata") : g.datas[id] = DataDecl(The(p, "declaredata", id))
  <2>1. DOMAIN g.datas = Ids(p, "declaredata") /\ \A id \in Ids(p, "declaredata") :
          \E i \in DOMAIN p : p[i].k = "declaredata" /\ p[i].id = id /\ The(p, "declaredata", id) = p[i] /\ g.datas[id] = Datas(p)[i]
    BY ListsThe DEF TablesHold
  <2>. QED BY <1>1, <2>1
<1>4. DOMAIN g.funcs = Ids(p, "declarefunc") /\ \A id \in Ids(p, "declarefunc") : g.funcs[id] = FuncDecl(The(p, "declarefunc", id))
  <2>1. DOMAIN g.funcs = Ids(p, "declarefunc") /\ \A id \in Ids(p, "declarefunc") :
          \E i \in DOMAIN p : p[i].k = "declarefunc" /\ p[i].id = id /\ The(p, "declarefunc", id) = p[i] /\ g.funcs[id] = Funcs(p)[i]
    BY ListsThe DEF TablesHold
  <2>. QED BY <1>1, <2>1
<1>5. DOMAIN g.externs = Ids(p, "declareextern")
      /\ \A id \in Ids(p, "declareextern") : g.externs[id] = ExternDecl(The(p, "declareextern", id))
  <2>1. DOMAIN g.externs = Ids(p, "declareextern") /\ \A id \in Ids(p, "declareextern") :
          \E i \in DOMAIN p : p[i].k = "declareextern" /\ p[i].id = id /\ The(p, "declareextern", id) = p[i] /\ g.externs[id] = Externs(p)[i]
    BY ListsThe DEF TablesHold
  <2>. QED BY <1>1, <2>1
<1>. QED BY <1>2, <1>3, <1>4, <1>5 DEF TablesAre

(* A declaration is what the tables say of its id. *)
LEMMA DeclaredSame ==
  ASSUME NEW p, DeclarationRules(p), NEW i \in DOMAIN p, p[i].k \in Declarations
  PROVE  p[i].id \in Ids(p, p[i].k) /\ Decl(The(p, p[i].k, p[i].id)) = Decl(p[i])
<1>1. p[i].id \in Ids(p, p[i].k)
  BY DEF Ids
<1>2. PICK j \in DOMAIN p : p[j].k = p[i].k /\ p[j].id = p[i].id /\ The(p, p[i].k, p[i].id) = p[j]
  BY <1>1, TheFacts
<1>3. Decl(p[j]) = Decl(p[i])
  BY <1>2 DEF DeclarationRules
<1>. QED BY <1>1, <1>2, <1>3

(* Every declaration of a program is in its table. *)
LEMMA DeclaredFacts ==
  ASSUME NEW p, WellShaped(p), DeclarationRules(p), NEW g, TablesAre(p, g), NEW i \in DOMAIN p
  PROVE  /\ p[i].k = "createsig" => p[i].id \in DOMAIN g.sigs /\ g.sigs[p[i].id] = Signature(p[i])
         /\ p[i].k = "declaredata" => p[i].id \in DOMAIN g.datas /\ g.datas[p[i].id] = DataDecl(p[i])
         /\ p[i].k = "declarefunc" => p[i].id \in DOMAIN g.funcs /\ g.funcs[p[i].id] = FuncDecl(p[i]) /\ p[i].sig \in DOMAIN g.sigs
         /\ p[i].k = "declareextern" => p[i].id \in DOMAIN g.externs /\ g.externs[p[i].id] = ExternDecl(p[i]) /\ p[i].sig \in DOMAIN g.sigs
<1>0. DOMAIN p = 1..Len(p) /\ Len(p) \in Nat
  BY ListFacts DEF WellShaped
<1>1. p[i].k \in {"declarefunc", "declareextern"} => p[i].sig \in Ids(p, "createsig")
  BY <1>0 DEF DeclarationRules, Before, Ids
<1>. DEFINE c == p[i]
            w == The(p, p[i].k, p[i].id)
<1>2. c.k \in Declarations => c.id \in Ids(p, c.k) /\ Decl(w) = Decl(c)
  BY DeclaredSame
<1>3. c.k \in Declarations => w.k = c.k
  BY <1>2, TheFacts
<1>4. CASE c.k = "createsig"
  <2>1. Decl(w) = Signature(w) /\ Decl(c) = Signature(c)
    BY <1>3, <1>4 DEF Decl, Declarations
  <2>. QED BY <1>2, <1>4, <2>1 DEF TablesAre, Declarations
<1>5. CASE c.k = "declaredata"
  <2>1. Decl(w) = <<w.size, w.align>> /\ Decl(c) = <<c.size, c.align>>
    BY <1>3, <1>5 DEF Decl, Declarations
  <2>2. w.size = c.size /\ w.align = c.align
    BY <1>2, <1>5, <2>1 DEF Declarations
  <2>. QED BY <1>2, <1>5, <2>2 DEF TablesAre, Declarations, DataDecl
<1>6. CASE c.k = "declarefunc"
  <2>1. Decl(w) = <<w.sig, w.how>> /\ Decl(c) = <<c.sig, c.how>>
    BY <1>3, <1>6 DEF Decl, Declarations
  <2>2. w.sig = c.sig /\ w.how = c.how
    BY <1>2, <1>6, <2>1 DEF Declarations
  <2>. QED BY <1>1, <1>2, <1>6, <2>2 DEF TablesAre, Declarations, FuncDecl
<1>7. CASE c.k = "declareextern"
  <2>1. Decl(w) = <<w.sig, w.symbol>> /\ Decl(c) = <<c.sig, c.symbol>>
    BY <1>3, <1>7 DEF Decl, Declarations
  <2>2. w.sig = c.sig /\ w.symbol = c.symbol
    BY <1>2, <1>7, <2>1 DEF Declarations
  <2>. QED BY <1>1, <1>2, <1>7, <2>2 DEF TablesAre, Declarations, ExternDecl
<1>. QED BY <1>4, <1>5, <1>6, <1>7

-----------------------------------------------------------------------------
(* The two halves of the rules of symbols. *)
SymbolDecls(p) ==
  LET sig(c) == Signature(The(p, "createsig", c.sig))
  IN  \A i \in DOMAIN p : p[i].k = "declareextern" =>
        \A j \in DOMAIN p :
          /\ p[j].k = "declareextern" /\ p[i].symbol = p[j].symbol => sig(p[i]) = sig(p[j])
          /\ p[j].k = "declarefunc" /\ p[i].symbol = SymbolOf(p[j].id) => sig(p[i]) = sig(p[j])
          /\ p[j].k = "declaredata" => p[i].symbol # DataSymbolOf(p[j].id)

(* Externs that are called exist. *)
SymbolCalls(p, symbols) ==
  \A i \in DOMAIN p : p[i].k \in Calls /\ p[i].how = "extern" =>
    The(p, "declareextern", p[i].id).symbol \in symbols \cup HostSymbols \cup {SymbolOf(f) : f \in Ids(p, "declarefunc")}

(* The rules of symbols: of the declarations and of the calls. *)
LEMMA SymbolHalves ==
  ASSUME NEW p, NEW symbols
  PROVE  SymbolRules(p, symbols) <=> SymbolDecls(p) /\ SymbolCalls(p, symbols)
BY Zenon DEF SymbolRules, SymbolDecls, SymbolCalls

(* declare_all refuses exactly the programs that give a symbol two          *)
(* signatures, or one of data to a function.                                *)
LEMMA DeclareExact ==
  ASSUME NEW p, WellShaped(p), DeclarationRules(p), NEW g, TablesAre(p, g), Fields(g), g.st = "ok", NEW h, h = DeclareAll(g)
  PROVE  (h = g \/ h = Refuse(g)) /\ (h = g <=> SymbolDecls(p))
<1>. DEFINE sig(c) == Signature(The(p, "createsig", c.sig))
            X == {<<g.externs[x].symbol, g.sigs[g.externs[x].sig]>> : x \in DOMAIN g.externs}
            F == {<<SymbolOf(f), g.sigs[g.funcs[f].sig]>> : f \in DOMAIN g.funcs}
            Clash == \E d1, d2 \in X \cup F : d1[1] = d2[1] /\ d1[2] # d2[2]
            OnData == \E x \in DOMAIN g.externs : \E d \in DOMAIN g.datas : g.externs[x].symbol = DataSymbolOf(d)
            Apart == \A i \in DOMAIN p : p[i].k = "declareextern" =>
                       \A j \in DOMAIN p : p[j].k = "declaredata" => p[i].symbol # DataSymbolOf(p[j].id)
            Agree == \A i \in DOMAIN p : p[i].k = "declareextern" =>
                       \A j \in DOMAIN p :
                         /\ p[j].k = "declareextern" /\ p[i].symbol = p[j].symbol => sig(p[i]) = sig(p[j])
                         /\ p[j].k = "declarefunc" /\ p[i].symbol = SymbolOf(p[j].id) => sig(p[i]) = sig(p[j])
<1>0. SymbolDecls(p) <=> Agree /\ Apart
  BY Zenon DEF SymbolDecls
<1>1. h = IF Clash \/ OnData THEN Refuse(g) ELSE g
  BY DEF DeclareAll
<1>2. Refuse(g) # g
  BY RefuseFacts
<1>3. ASSUME NEW i \in DOMAIN p, p[i].k = "declareextern" PROVE <<p[i].symbol, sig(p[i])>> \in X
  <2>1. p[i].id \in DOMAIN g.externs /\ g.externs[p[i].id] = ExternDecl(p[i]) /\ p[i].sig \in DOMAIN g.sigs
    BY <1>3, DeclaredFacts
  <2>2. g.sigs[p[i].sig] = sig(p[i])
    BY <2>1 DEF TablesAre
  <2>. QED BY <2>1, <2>2 DEF ExternDecl
<1>4. ASSUME NEW i \in DOMAIN p, p[i].k = "declarefunc" PROVE <<SymbolOf(p[i].id), sig(p[i])>> \in F
  <2>1. p[i].id \in DOMAIN g.funcs /\ g.funcs[p[i].id] = FuncDecl(p[i]) /\ p[i].sig \in DOMAIN g.sigs
    BY <1>4, DeclaredFacts
  <2>2. g.sigs[p[i].sig] = sig(p[i])
    BY <2>1 DEF TablesAre
  <2>. QED BY <2>1, <2>2 DEF FuncDecl
<1>5. ASSUME NEW d \in X PROVE \E i \in DOMAIN p : p[i].k = "declareextern" /\ d = <<p[i].symbol, sig(p[i])>>
  <2>1. PICK x \in DOMAIN g.externs : d = <<g.externs[x].symbol, g.sigs[g.externs[x].sig]>>
    OBVIOUS
  <2>2. PICK i \in DOMAIN p : p[i].k = "declareextern" /\ p[i].id = x
    BY <2>1, TheFacts DEF TablesAre
  <2>3. g.externs[x] = ExternDecl(p[i]) /\ p[i].sig \in DOMAIN g.sigs
    BY <2>2, DeclaredFacts
  <2>4. g.sigs[p[i].sig] = sig(p[i])
    BY <2>3 DEF TablesAre
  <2>. QED BY <2>1, <2>2, <2>3, <2>4 DEF ExternDecl
<1>6. ASSUME NEW d \in F PROVE \E i \in DOMAIN p : p[i].k = "declarefunc" /\ d = <<SymbolOf(p[i].id), sig(p[i])>>
  <2>1. PICK x \in DOMAIN g.funcs : d = <<SymbolOf(x), g.sigs[g.funcs[x].sig]>>
    OBVIOUS
  <2>2. PICK i \in DOMAIN p : p[i].k = "declarefunc" /\ p[i].id = x
    BY <2>1, TheFacts DEF TablesAre
  <2>3. g.funcs[x] = FuncDecl(p[i]) /\ p[i].sig \in DOMAIN g.sigs
    BY <2>2, DeclaredFacts
  <2>4. g.sigs[p[i].sig] = sig(p[i])
    BY <2>3 DEF TablesAre
  <2>. QED BY <2>1, <2>2, <2>3, <2>4 DEF FuncDecl
<1>7. \A d \in F, e \in F : d[1] = e[1] => d[2] = e[2]
  <2>1. ASSUME NEW f1 \in DOMAIN g.funcs, NEW f2 \in DOMAIN g.funcs, SymbolOf(f1) = SymbolOf(f2) PROVE f1 = f2
    BY <2>1 DEF SymbolOf
  <2>. QED BY <2>1
<1>10. OnData <=> ~Apart
  <2>1. ASSUME NEW x \in DOMAIN g.externs, NEW d \in DOMAIN g.datas, g.externs[x].symbol = DataSymbolOf(d) PROVE ~Apart
    <3>1. PICK i \in DOMAIN p : p[i].k = "declareextern" /\ p[i].id = x
      BY <2>1, TheFacts DEF TablesAre
    <3>2. PICK j \in DOMAIN p : p[j].k = "declaredata" /\ p[j].id = d
      BY <2>1, TheFacts DEF TablesAre
    <3>3. g.externs[x] = ExternDecl(p[i])
      BY <3>1, DeclaredFacts
    <3>4. p[i].symbol = DataSymbolOf(p[j].id)
      BY <2>1, <3>2, <3>3 DEF ExternDecl
    <3>. QED BY <3>1, <3>2, <3>4
  <2>2. ASSUME NEW i \in DOMAIN p, p[i].k = "declareextern", NEW j \in DOMAIN p, p[j].k = "declaredata",
               p[i].symbol = DataSymbolOf(p[j].id)
        PROVE  OnData
    <3>1. p[i].id \in DOMAIN g.externs /\ g.externs[p[i].id] = ExternDecl(p[i])
      BY <2>2, DeclaredFacts
    <3>2. p[j].id \in DOMAIN g.datas
      BY <2>2, DeclaredFacts
    <3>. QED BY <2>2, <3>1, <3>2 DEF ExternDecl
  <2>. QED BY <2>1, <2>2
<1>. HIDE DEF X, F, sig, OnData, Apart
<1>8. ASSUME Agree PROVE ~Clash
  <2>0. \A i \in DOMAIN p : p[i].k = "declareextern" =>
          \A j \in DOMAIN p :
            /\ p[j].k = "declareextern" /\ p[i].symbol = p[j].symbol => sig(p[i]) = sig(p[j])
            /\ p[j].k = "declarefunc" /\ p[i].symbol = SymbolOf(p[j].id) => sig(p[i]) = sig(p[j])
    BY <1>8
  <2>1. ASSUME NEW d \in X, NEW e \in X, d[1] = e[1] PROVE d[2] = e[2]
    <3>1. PICK i \in DOMAIN p : p[i].k = "declareextern" /\ d = <<p[i].symbol, sig(p[i])>>
      BY <1>5
    <3>2. PICK j \in DOMAIN p : p[j].k = "declareextern" /\ e = <<p[j].symbol, sig(p[j])>>
      BY <1>5
    <3>3. d[1] = p[i].symbol /\ e[1] = p[j].symbol /\ d[2] = sig(p[i]) /\ e[2] = sig(p[j])
      BY <3>1, <3>2
    <3>. QED BY <2>0, <2>1, <3>1, <3>2, <3>3
  <2>2. ASSUME NEW d \in X, NEW e \in F, d[1] = e[1] PROVE d[2] = e[2]
    <3>1. PICK i \in DOMAIN p : p[i].k = "declareextern" /\ d = <<p[i].symbol, sig(p[i])>>
      BY <1>5
    <3>2. PICK j \in DOMAIN p : p[j].k = "declarefunc" /\ e = <<SymbolOf(p[j].id), sig(p[j])>>
      BY <1>6
    <3>3. d[1] = p[i].symbol /\ e[1] = SymbolOf(p[j].id) /\ d[2] = sig(p[i]) /\ e[2] = sig(p[j])
      BY <3>1, <3>2
    <3>. QED BY <2>0, <2>2, <3>1, <3>2, <3>3
  <2>. QED BY <1>7, <2>1, <2>2
<1>9. ASSUME ~Clash PROVE Agree
  <2>1. ASSUME NEW i \in DOMAIN p, p[i].k = "declareextern", NEW j \in DOMAIN p,
               p[j].k = "declareextern", p[i].symbol = p[j].symbol
        PROVE  sig(p[i]) = sig(p[j])
    <3>. DEFINE d == <<p[i].symbol, sig(p[i])>>
                e == <<p[j].symbol, sig(p[j])>>
    <3>1. d \in X /\ e \in X /\ d[1] = e[1] /\ d[2] = sig(p[i]) /\ e[2] = sig(p[j])
      BY <1>3, <2>1
    <3>. HIDE DEF d, e
    <3>. QED BY <1>9, <3>1
  <2>2. ASSUME NEW i \in DOMAIN p, p[i].k = "declareextern", NEW j \in DOMAIN p,
               p[j].k = "declarefunc", p[i].symbol = SymbolOf(p[j].id)
        PROVE  sig(p[i]) = sig(p[j])
    <3>. DEFINE d == <<p[i].symbol, sig(p[i])>>
                e == <<SymbolOf(p[j].id), sig(p[j])>>
    <3>1. d \in X /\ e \in F /\ d[1] = e[1] /\ d[2] = sig(p[i]) /\ e[2] = sig(p[j])
      BY <1>3, <1>4, <2>2
    <3>. HIDE DEF d, e
    <3>. QED BY <1>9, <3>1
  <2>. QED BY <2>1, <2>2
<1>. QED BY <1>0, <1>1, <1>2, <1>8, <1>9, <1>10

(* The data of a program fits when its initializers keep the rules. *)
LEMMA DataFits ==
  ASSUME NEW p, WellShaped(p), DeclarationRules(p), NEW g, TablesAre(p, g), Fields(g), g.st = "ok",
         DataHold(p, Len(p), g.inits), NEW h, h = DefineData(g)
  PROVE  (h = g \/ h = Refuse(g)) /\ (h = g <=> DataRules(p))
<1>0. DOMAIN p = 1..Len(p) /\ Len(p) \in Nat
  BY ListFacts DEF WellShaped
<1>1. Refuse(g) # g
  BY RefuseFacts
<1>2. h = IF \E d \in DOMAIN g.datas : Contents(g, d) = None THEN Refuse(g) ELSE g
  BY DEF DefineData
<1>3. ASSUME NEW d \in DOMAIN g.datas
      PROVE  /\ g.datas[d].size = The(p, "declaredata", d).size /\ g.datas[d].size \in Nat
             /\ Contents(g, d) = None <=> \E i \in DOMAIN p : Misfits(p[i], d, The(p, "declaredata", d).size)
  <2>1. d \in Ids(p, "declaredata") /\ g.datas[d] = DataDecl(The(p, "declaredata", d))
    BY DEF TablesAre
  <2>2. PICK j \in DOMAIN p : The(p, "declaredata", d) = p[j]
    BY <2>1, TheFacts
  <2>3. g.datas[d].size = p[j].size /\ p[j].size \in Nat
    BY <2>1, <2>2 DEF DataDecl, WellShaped, Shaped
  <2>4. Contents(g, d) = After(g.inits, p[j].size, d)
    BY <2>3 DEF Contents, After
  <2>5. ObjectHold(p, Len(p), After(g.inits, p[j].size, d), p[j].size, d)
    BY <2>3 DEF DataHold
  <2>6. Contents(g, d) = None <=> \E i \in DOMAIN p : Misfits(p[i], d, The(p, "declaredata", d).size)
    BY <1>0, <2>2, <2>4, <2>5 DEF ObjectHold
  <2>. QED BY <2>2, <2>3, <2>6
<1>4. ASSUME NEW i \in DOMAIN p, p[i].k \in DataInits
      PROVE  /\ p[i].id \in DOMAIN g.datas
             /\ Misfits(p[i], p[i].id, The(p, "declaredata", p[i].id).size)
                  <=> ~(InitBytes(p[i]) # None /\ p[i].at + Len(InitBytes(p[i])[1]) <= The(p, "declaredata", p[i].id).size)
  <2>1. Before(p, i, "declaredata", p[i].id)
    BY <1>4 DEF DeclarationRules
  <2>2. p[i].id \in Ids(p, "declaredata")
    BY <1>0, <2>1 DEF Before, Ids
  <2>3. p[i].id \in DOMAIN g.datas
    BY <2>2 DEF TablesAre
  <2>4. The(p, "declaredata", p[i].id).size \in Nat
    BY <1>3, <2>3
  <2>5. Shaped(p[i]) /\ p[i].at \in Nat
    BY DEF WellShaped, Shaped
  <2>6. InitBytes(p[i]) # None => Len(InitBytes(p[i])[1]) \in Nat
    BY <2>5, InitBytesFacts, ListFacts
  <2>. QED BY <1>4, <2>3, <2>4, <2>5, <2>6 DEF Misfits
<1>5. (\E d \in DOMAIN g.datas : Contents(g, d) = None) <=> ~DataRules(p)
  <2>1. ASSUME NEW d \in DOMAIN g.datas, Contents(g, d) = None PROVE ~DataRules(p)
    <3>1. PICK i \in DOMAIN p : Misfits(p[i], d, The(p, "declaredata", d).size)
      BY <1>3, <2>1
    <3>2. p[i].k \in DataInits /\ p[i].id = d
      BY <3>1 DEF Misfits
    <3>. QED BY <1>4, <3>1, <3>2 DEF DataRules
  <2>2. ASSUME ~DataRules(p) PROVE \E d \in DOMAIN g.datas : Contents(g, d) = None
    <3>1. PICK i \in DOMAIN p : p[i].k \in DataInits
             /\ ~(InitBytes(p[i]) # None /\ p[i].at + Len(InitBytes(p[i])[1]) <= The(p, "declaredata", p[i].id).size)
      BY <2>2 DEF DataRules
    <3>. QED BY <1>3, <1>4, <3>1
  <2>. QED BY <2>1, <2>2
<1>. QED BY <1>1, <1>2, <1>5

-----------------------------------------------------------------------------
(* Names bound by a lowerer *)

(* A lowerer has its fields. *)
LowererFields(e) == DOMAIN e = DOMAIN Lowerer

(* The fields of a lowerer. *)
LEMMA LowererNames ==
  ASSUME NEW e, LowererFields(e)
  PROVE  DOMAIN e = {"values", "blocks", "slots", "placed", "externs", "tables", "st"}
BY DEF LowererFields, Lowerer

(* A lowerer that ends changes its state and nothing else. *)
LEMMA EndsFacts ==
  ASSUME NEW e, LowererFields(e), NEW st
  PROVE  LowererFields(Ends(e, st)) /\ Ends(e, st).st = st
<1>1. DOMAIN Ends(e, st) = DOMAIN e
  BY DEF Ends
<1>. QED BY <1>1, LowererNames DEF Ends, LowererFields

(* What is not a value stays while names are bound. *)
SameButValues(e, h) ==
  /\ LowererFields(h) /\ h.blocks = e.blocks /\ h.slots = e.slots /\ h.placed = e.placed
  /\ h.externs = e.externs /\ h.tables = e.tables

(* After the first i names have been bound. *)
BindHold(e, dsts, tys, i, h) ==
  /\ SameButValues(e, h) /\ h.st \in {"ok", "error"}
  /\ h.st = "ok" <=> \A d \in 1..i : dsts[d] \notin DOMAIN e.values /\ \A d2 \in 1..i : dsts[d] = dsts[d2] => d = d2
  /\ h.st = "ok" =>
       /\ DOMAIN h.values = DOMAIN e.values \cup {dsts[d] : d \in 1..i}
       /\ \A x \in DOMAIN e.values : h.values[x] = e.values[x]
       /\ \A d \in 1..i : h.values[dsts[d]] = tys[d]

(* One more name: it must be new. *)
LEMMA BindStep ==
  ASSUME NEW e, NEW dsts, NEW tys, NEW i \in Nat, i > 0, NEW g, BindHold(e, dsts, tys, i - 1, g),
         NEW h, h = BindValue(g, dsts[i], tys[i])
  PROVE  BindHold(e, dsts, tys, i, h)
<1>0. LowererFields(g) /\ {"values", "blocks", "slots", "placed", "externs", "tables", "st"} = DOMAIN g
  BY LowererNames DEF BindHold, SameButValues
<1>1. \A d \in 1..i : d = i \/ d \in 1..(i - 1)
  OBVIOUS
<1>2. i \in 1..i /\ i \notin 1..(i - 1) /\ \A d \in 1..(i - 1) : d \in 1..i
  OBVIOUS
<1>3. CASE g.st # "ok"
  <2>0. g.st = "error"
    BY <1>3 DEF BindHold
  <2>1. SameButValues(e, h) /\ h.st = "error"
    <3>1. CASE dsts[i] \in DOMAIN g.values
      <4>1. h = Ends(g, "error")
        BY <3>1 DEF BindValue
      <4>. QED BY <1>0, <4>1, EndsFacts DEF Ends, BindHold, SameButValues
    <3>2. CASE dsts[i] \notin DOMAIN g.values
      <4>1. h = [g EXCEPT !.values = Put(g.values, dsts[i], tys[i])]
        BY <3>2 DEF BindValue
      <4>2. DOMAIN h = DOMAIN g /\ \A f \in DOMAIN g : f # "values" => h[f] = g[f]
        BY <1>0, <4>1
      <4>. QED BY <1>0, <2>0, <4>2 DEF BindHold, SameButValues, LowererFields
    <3>. QED BY <3>1, <3>2
  <2>2. ~(\A d \in 1..i : dsts[d] \notin DOMAIN e.values /\ \A d2 \in 1..i : dsts[d] = dsts[d2] => d = d2)
    <3>1. ~(\A d \in 1..(i - 1) : dsts[d] \notin DOMAIN e.values /\ \A d2 \in 1..(i - 1) : dsts[d] = dsts[d2] => d = d2)
      BY <1>3 DEF BindHold
    <3>. QED BY <1>2, <3>1
  <2>. QED BY <2>1, <2>2 DEF BindHold
<1>4. CASE g.st = "ok" /\ dsts[i] \in DOMAIN g.values
  <2>1. h = Ends(g, "error")
    BY <1>4 DEF BindValue
  <2>2. SameButValues(e, h) /\ h.st = "error"
    BY <1>0, <2>1, EndsFacts DEF Ends, BindHold, SameButValues
  <2>3. dsts[i] \in DOMAIN e.values \/ \E d \in 1..(i - 1) : dsts[i] = dsts[d]
    BY <1>4 DEF BindHold
  <2>4. ~(\A d \in 1..i : dsts[d] \notin DOMAIN e.values /\ \A d2 \in 1..i : dsts[d] = dsts[d2] => d = d2)
    BY <1>2, <2>3
  <2>. QED BY <2>2, <2>4 DEF BindHold
<1>5. CASE g.st = "ok" /\ dsts[i] \notin DOMAIN g.values
  <2>1. h = [g EXCEPT !.values = Put(g.values, dsts[i], tys[i])]
    BY <1>5 DEF BindValue
  <2>2. DOMAIN h = DOMAIN g /\ h.values = Put(g.values, dsts[i], tys[i]) /\ \A f \in DOMAIN g : f # "values" => h[f] = g[f]
    BY <1>0, <2>1
  <2>3. SameButValues(e, h) /\ h.st = "ok"
    BY <1>0, <1>5, <2>2 DEF BindHold, SameButValues, LowererFields
  <2>4. /\ DOMAIN g.values = DOMAIN e.values \cup {dsts[d] : d \in 1..(i - 1)}
        /\ \A x \in DOMAIN e.values : g.values[x] = e.values[x]
        /\ \A d \in 1..(i - 1) : g.values[dsts[d]] = tys[d]
        /\ \A d \in 1..(i - 1) : dsts[d] \notin DOMAIN e.values /\ \A d2 \in 1..(i - 1) : dsts[d] = dsts[d2] => d = d2
    BY <1>5 DEF BindHold
  <2>5. DOMAIN h.values = DOMAIN g.values \cup {dsts[i]} /\ h.values[dsts[i]] = tys[i]
        /\ \A x \in DOMAIN g.values : h.values[x] = g.values[x]
    BY <1>5, <2>2 DEF Put
  <2>6. {dsts[d] : d \in 1..i} = {dsts[d] : d \in 1..(i - 1)} \cup {dsts[i]}
    BY <1>1, <1>2
  <2>7. \A d \in 1..i : dsts[d] \notin DOMAIN e.values /\ \A d2 \in 1..i : dsts[d] = dsts[d2] => d = d2
    BY <1>1, <1>5, <2>4
  <2>8. DOMAIN h.values = DOMAIN e.values \cup {dsts[d] : d \in 1..i}
    BY <2>4, <2>5, <2>6
  <2>9. \A x \in DOMAIN e.values : h.values[x] = e.values[x]
    BY <2>4, <2>5
  <2>10. \A d \in 1..i : h.values[dsts[d]] = tys[d]
    BY <1>1, <2>4, <2>5
  <2>. QED BY <2>3, <2>7, <2>8, <2>9, <2>10 DEF BindHold
<1>. QED BY <1>3, <1>4, <1>5

(* Binding a list of names: each must be new, and none may be twice in it. *)
LEMMA BindFacts ==
  ASSUME NEW e, LowererFields(e), e.st = "ok", NEW dsts, List(dsts), NEW tys, NEW h, h = BindValues(e, dsts, tys)
  PROVE  BindHold(e, dsts, tys, Len(dsts), h)
<1>. DEFINE B == Bound(e, dsts, tys)
            S == {i \in Nat : i <= Len(dsts) => BindHold(e, dsts, tys, i, B[i])}
<1>0. Len(dsts) \in Nat
  BY ListFacts
<1>1. B[0] = e /\ \A i \in 1..Len(dsts) : B[i] = BindValue(B[i - 1], dsts[i], tys[i])
  BY <1>0, BoundDef
<1>. HIDE DEF B
<1>2. 0 \in S
  <2>1. \A d \in 1..0 : FALSE
    OBVIOUS
  <2>. QED BY <1>1, <2>1 DEF BindHold, SameButValues
<1>3. ASSUME NEW m \in Nat, m \in S PROVE m + 1 \in S
  <2>1. SUFFICES ASSUME m + 1 <= Len(dsts) PROVE BindHold(e, dsts, tys, m + 1, B[m + 1])
    OBVIOUS
  <2>2. m + 1 \in 1..Len(dsts) /\ m + 1 \in Nat /\ m + 1 > 0 /\ (m + 1) - 1 = m /\ m <= Len(dsts)
    BY <1>0, <2>1
  <2>3. BindHold(e, dsts, tys, (m + 1) - 1, B[m]) /\ B[m + 1] = BindValue(B[m], dsts[m + 1], tys[m + 1])
    BY <1>1, <1>3, <2>2
  <2>. QED BY <2>2, <2>3, BindStep
<1>4. Nat \subseteq S
  <2>. HIDE DEF S
  <2>. QED BY <1>2, <1>3, SetInduction
<1>5. h = B[Len(dsts)]
  BY DEF BindValues, B
<1>. QED BY <1>0, <1>4, <1>5

-----------------------------------------------------------------------------
(* A lowerer: one command *)

(* Two lists, one after the other. *)
LEMMA ListConcat ==
  ASSUME NEW s, List(s), NEW t, List(t)
  PROVE  /\ List(s \o t) /\ Len(s \o t) = Len(s) + Len(t) /\ s \o <<>> = s
         /\ \A i \in 1..Len(s) : (s \o t)[i] = s[i]
         /\ \A i \in 1..Len(t) : (s \o t)[Len(s) + i] = t[i]
<1>. DEFINE T == {s[i] : i \in DOMAIN s} \cup {t[i] : i \in DOMAIN t}
            u == s \o t
<1>1. Len(s) \in Nat /\ DOMAIN s = 1..Len(s) /\ s \in Seq({s[i] : i \in DOMAIN s})
      /\ Len(t) \in Nat /\ DOMAIN t = 1..Len(t) /\ t \in Seq({t[i] : i \in DOMAIN t})
  BY ListFacts
<1>2. s \in Seq(T) /\ t \in Seq(T)
  <2>1. (\A i \in 1..Len(s) : s[i] \in T) /\ \A i \in 1..Len(t) : t[i] \in T
    BY <1>1
  <2>. HIDE DEF T
  <2>. QED BY <1>1, <2>1
<1>. HIDE DEF T
<1>3. /\ u \in Seq(T) /\ Len(u) = Len(s) + Len(t)
      /\ \A i \in 1..Len(s) : u[i] = s[i]
      /\ \A i \in 1..Len(t) : u[Len(s) + i] = t[i]
  BY <1>2
<1>4. s \o <<>> = s
  BY <1>2
<1>. HIDE DEF u
<1>5. List(u)
  <2>1. u = [i \in 1..Len(u) |-> u[i]] /\ Len(u) \in Nat
    BY <1>3
  <2>. QED BY <2>1, ListOfFunction
<1>. QED BY <1>3, <1>4, <1>5 DEF u

(* A list of one element is not empty. *)
LEMMA OneNotEmpty == ASSUME NEW s, Len(s) = 1 PROVE s # <<>>
<1>1. Len(<<>>) = 0
  OBVIOUS
<1>. QED BY <1>1

(* Kinds of commands, by what the lowerer does with them. *)
Declares(c) == c.k \in Declarations
Outside(c) == c.k \in DataInits \cup {"finalize", "begin", "finish", "frem"}

(* The type a name gets. *)
NewType(c, e, g, params, d) ==
  IF c.k = "bindentry" THEN (e.blocks[c.dests[1]] \o params)[d]
  ELSE IF c.k = "blockparam" THEN ClifType(c.ty)
  ELSE IF c.k = "alias" THEN e.values[c.uses[1]]
  ELSE ResultType(c, e, g)

(* The names are new, and no two are the same. *)
Fresh(c, e) ==
  \A d \in DOMAIN c.dsts : c.dsts[d] \notin DOMAIN e.values /\ \A d2 \in DOMAIN c.dsts : c.dsts[d] = c.dsts[d2] => d = d2

(* The jump table of a switch. *)
TableOf(c) ==
  [ty |-> c.ty, default |-> c.dests[1],
   entries |-> {<<SwitchBits(c.ty, c.cases[i].lit)[1], c.cases[i].dest>> : i \in DOMAIN c.cases}]

(* When a command of a body is lowered. *)
Allowed(c, e, g, params) ==
  IF Declares(c) THEN Redeclared(c, g)
  ELSE /\ ~Outside(c) /\ Found(c, e, g)
       /\ c.k \in Inserting => e.placed
       /\ c.k = "createblock" => c.id \notin DOMAIN e.blocks
       /\ c.k = "slot" => c.id \notin e.slots /\ AlignOK(c.align)
       /\ c.k = "bindentry" => Len(c.dsts) = Len(e.blocks[c.dests[1]] \o params)
       /\ c.k = "callvalue" => Len(g.sigs[c.sig].results) = 1
       /\ c.k # "alias" => Fresh(c, e)

(* What the lowerer has then. *)
Results(c, e, g, params, h) ==
  /\ DOMAIN h.values = DOMAIN e.values \cup {c.dsts[d] : d \in DOMAIN c.dsts}
  /\ \A x \in DOMAIN e.values : x \notin {c.dsts[d] : d \in DOMAIN c.dsts} => h.values[x] = e.values[x]
  /\ \A d \in DOMAIN c.dsts : h.values[c.dsts[d]] = NewType(c, e, g, params, d)

(* The blocks then. *)
Blocks(c, e, params, h) ==
  /\ DOMAIN h.blocks = DOMAIN e.blocks \cup (IF c.k = "createblock" THEN {c.id} ELSE {})
  /\ \A x \in DOMAIN e.blocks : h.blocks[x] = ParamStep(e.blocks[x], c, params, x)
  /\ c.k = "createblock" => h.blocks[c.id] = <<>>

(* The rest then. *)
Rest(c, e, h) ==
  /\ h.slots = e.slots \cup (IF c.k = "slot" THEN {c.id} ELSE {})
  /\ h.placed = (e.placed \/ c.k = "switchto")
  /\ h.externs = e.externs \cup (IF c.k \in Calls /\ c.how = "extern" THEN {c.id} ELSE {})
  /\ h.tables = e.tables \cup (IF c.k = "switch" THEN {TableOf(c)} ELSE {})

(* All of it. *)
LowerDone(c, e, g, params, h) == Results(c, e, g, params, h) /\ Blocks(c, e, params, h) /\ Rest(c, e, h)

(* A step of the lowerer, whatever the command. *)
LowerStep(c, e, g, params, h) ==
  /\ LowererFields(h) /\ h.st \in {"ok", "error", "abort"}
  /\ h.st = "abort" => c.k \in Inserting /\ ~e.placed
  /\ h.st = "ok" <=> Allowed(c, e, g, params)
  /\ h.st = "ok" => LowerDone(c, e, g, params, h)

(* A lowerer whose blocks have lists of parameters. *)
Sound(e) == LowererFields(e) /\ e.placed \in BOOLEAN /\ \A x \in DOMAIN e.blocks : List(e.blocks[x])

(* What is looked up first is among what is looked up. *)
LEMMA FirstPartFacts ==
  ASSUME NEW c, Shaped(c), NEW e, NEW g, Found(c, e, g)
  PROVE  Found(FirstPart(c), e, g)
<1>1. CASE c.k \notin {"brif", "select"}
  BY <1>1 DEF FirstPart
<1>2. CASE c.k \in {"brif", "select"}
  <2>. DEFINE f == [c EXCEPT !.uses = SubSeq(c.uses, 1, 1), !.dests = <<>>]
  <2>0. DOMAIN c = DOMAIN Cmd /\ List(c.uses) /\ c.uses # <<>>
    <3>1. c.k = "brif" => c.uses # <<>>
      BY DEF Shaped
    <3>2. c.k = "select" => Len(c.uses) = 3
      BY DEF Shaped
    <3>3. c.uses # <<>>
      BY <1>2, <3>1, <3>2
    <3>. QED BY <3>3 DEF Shaped
  <2>1. FirstPart(c) = f
    BY <1>2 DEF FirstPart
  <2>2. /\ f.k = c.k /\ f.uses = SubSeq(c.uses, 1, 1) /\ f.dests = <<>> /\ f.cases = c.cases
        /\ f.ty = c.ty /\ f.lit = c.lit /\ f.how = c.how /\ f.sig = c.sig /\ f.id = c.id
    BY <2>0 DEF Cmd
  <2>. HIDE DEF f
  <2>3. Len(c.uses) \in Nat /\ DOMAIN c.uses = 1..Len(c.uses) /\ Len(c.uses) >= 1
    <3>1. Len(c.uses) \in Nat /\ DOMAIN c.uses = 1..Len(c.uses) /\ c.uses \in Seq({c.uses[i] : i \in DOMAIN c.uses})
      BY <2>0, ListFacts
    <3>. QED BY <2>0, <3>1
  <2>4. \A i \in DOMAIN f.uses : f.uses[i] \in DOMAIN e.values
    <3>1. List(f.uses) /\ Len(f.uses) = 1 /\ \A i \in 1..1 : f.uses[i] = c.uses[i + (1 - 1)]
      BY <2>0, <2>2, <2>3, PartFacts
    <3>2. DOMAIN f.uses = {1} /\ f.uses[1] = c.uses[1]
      BY <3>1, ListFacts
    <3>3. c.uses[1] \in DOMAIN e.values
      BY <2>3 DEF Found
    <3>. QED BY <3>2, <3>3
  <2>5. f.k \notin {"stackaddr", "dataaddr", "constint", "constfloat", "switch"} /\ f.k \notin Calls
    BY <1>2, <2>2 DEF Calls
  <2>6. \A i \in DOMAIN f.dests : f.dests[i] \in DOMAIN e.blocks
    BY <2>2
  <2>7. \A i \in DOMAIN f.cases : f.cases[i].dest \in DOMAIN e.blocks
    BY <2>2 DEF Found
  <2>. QED BY <2>1, <2>4, <2>5, <2>6, <2>7 DEF Found
<1>. QED BY <1>1, <1>2

(* Commands that add no parameter leave those of every block. *)
LEMMA SameParams ==
  ASSUME NEW c, NEW e, Sound(e), NEW params, c.k \notin {"bindentry", "blockparam"}
  PROVE  \A x \in DOMAIN e.blocks : ParamStep(e.blocks[x], c, params, x) = e.blocks[x]
<1>1. \A x : ParamsOf(c, params, x) = <<>>
  BY DEF ParamsOf
<1>2. List(<<>>)
  BY DEF List
<1>. QED BY <1>1, <1>2, ListConcat DEF ParamStep, Sound

(* A step of the lowerer: blocks, slots and names. *)
LEMMA StructureFacts ==
  ASSUME NEW c, Shaped(c), NEW e, Sound(e), e.st = "ok", NEW g, NEW params, List(params),
         c.k \notin Inserting, ~Declares(c), ~Outside(c), Found(c, e, g), NEW h, h = Structure(c, e, params)
  PROVE  LowerStep(c, e, g, params, h)
<1>0. LowererFields(e) /\ DOMAIN e = {"values", "blocks", "slots", "placed", "externs", "tables", "st"}
  BY LowererNames DEF Sound
<1>1. /\ c.k \in {"createblock", "switchto", "seal", "bindentry", "blockparam", "slot", "alias"}
      /\ c.k \notin Calls /\ c.k # "switch" /\ c.k # "callvalue"
  BY DEF Shaped, Kinds, Declares, Outside, TopLevel, Inserting, Calls, DataInits, Declarations
<1>2. DOMAIN c.dsts = 1..Len(c.dsts) /\ Len(c.dsts) \in Nat /\ List(c.dsts)
  BY ListFacts DEF Shaped
<1>3. c.k \notin {"bindentry", "blockparam", "alias"} => c.dsts = <<>> /\ DOMAIN c.dsts = {} /\ Fresh(c, e)
  <2>1. c.k \notin {"bindentry", "blockparam", "alias"} => c.dsts = <<>>
    BY <1>1 DEF Shaped, Binding, Constants, Computing
  <2>2. DOMAIN <<>> = {}
    OBVIOUS
  <2>. QED BY <2>1, <2>2 DEF Fresh
<1>4. c.k \notin {"bindentry", "blockparam"} => \A x \in DOMAIN e.blocks : ParamStep(e.blocks[x], c, params, x) = e.blocks[x]
  BY SameParams
<1>5. ASSUME h = Ends(e, "error"), ~Allowed(c, e, g, params) PROVE LowerStep(c, e, g, params, h)
  BY <1>0, <1>5, EndsFacts DEF LowerStep
<1>6. CASE c.k = "createblock"
  <2>1. CASE c.id \in DOMAIN e.blocks
    <3>1. h = Ends(e, "error")
      BY <1>6, <2>1 DEF Structure
    <3>. QED BY <1>5, <1>6, <2>1, <3>1 DEF Allowed
  <2>2. CASE c.id \notin DOMAIN e.blocks
    <3>1. h = [e EXCEPT !.blocks = Put(e.blocks, c.id, <<>>)]
      BY <1>6, <2>2 DEF Structure
    <3>2. DOMAIN h = DOMAIN e /\ h.blocks = Put(e.blocks, c.id, <<>>) /\ \A f \in DOMAIN e : f # "blocks" => h[f] = e[f]
      BY <1>0, <3>1
    <3>3. Blocks(c, e, params, h)
      BY <1>4, <1>6, <2>2, <3>2 DEF Blocks, Put
    <3>4. Results(c, e, g, params, h) /\ Rest(c, e, h)
      BY <1>0, <1>1, <1>3, <1>6, <3>2 DEF Results, Rest, Sound
    <3>5. Allowed(c, e, g, params)
      BY <1>1, <1>3, <1>6, <2>2 DEF Allowed
    <3>. QED BY <1>0, <3>2, <3>3, <3>4, <3>5 DEF LowerStep, LowerDone, LowererFields
  <2>. QED BY <2>1, <2>2
<1>7. CASE c.k = "slot"
  <2>1. CASE c.id \in e.slots \/ ~AlignOK(c.align)
    <3>1. h = Ends(e, "error")
      BY <1>7, <2>1 DEF Structure
    <3>. QED BY <1>5, <1>7, <2>1, <3>1 DEF Allowed
  <2>2. CASE ~(c.id \in e.slots \/ ~AlignOK(c.align))
    <3>1. h = [e EXCEPT !.slots = e.slots \cup {c.id}]
      BY <1>7, <2>2 DEF Structure
    <3>2. DOMAIN h = DOMAIN e /\ h.slots = e.slots \cup {c.id} /\ \A f \in DOMAIN e : f # "slots" => h[f] = e[f]
      BY <1>0, <3>1
    <3>3. Blocks(c, e, params, h)
      BY <1>0, <1>4, <1>7, <3>2 DEF Blocks
    <3>4. Results(c, e, g, params, h) /\ Rest(c, e, h)
      BY <1>0, <1>1, <1>3, <1>7, <3>2 DEF Results, Rest, Sound
    <3>5. Allowed(c, e, g, params)
      BY <1>1, <1>3, <1>7, <2>2 DEF Allowed
    <3>. QED BY <1>0, <3>2, <3>3, <3>4, <3>5 DEF LowerStep, LowerDone, LowererFields
  <2>. QED BY <2>1, <2>2
<1>8. CASE c.k \in {"switchto", "seal"}
  <2>1. h = IF c.k = "switchto" THEN [e EXCEPT !.placed = TRUE] ELSE e
    BY <1>8 DEF Structure
  <2>2. DOMAIN h = DOMAIN e /\ h.placed = (e.placed \/ c.k = "switchto") /\ \A f \in DOMAIN e : f # "placed" => h[f] = e[f]
    BY <1>0, <1>8, <2>1 DEF Sound
  <2>3. Blocks(c, e, params, h)
    BY <1>0, <1>4, <1>8, <2>2 DEF Blocks
  <2>4. Results(c, e, g, params, h) /\ Rest(c, e, h)
    BY <1>0, <1>1, <1>3, <1>8, <2>2 DEF Results, Rest
  <2>5. Allowed(c, e, g, params)
    BY <1>1, <1>3, <1>8 DEF Allowed
  <2>. QED BY <1>0, <2>2, <2>3, <2>4, <2>5 DEF LowerStep, LowerDone, LowererFields
<1>9. CASE c.k \in {"bindentry", "blockparam"}
  <2>. DEFINE block == c.dests[1]
              all == e.blocks[block] \o (IF c.k = "bindentry" THEN params ELSE <<ClifType(c.ty)>>)
              new == IF c.k = "bindentry" THEN all ELSE <<ClifType(c.ty)>>
              f == [e EXCEPT !.blocks[block] = all]
  <2>1. h = IF Len(new) # Len(c.dsts) THEN Ends(e, "error") ELSE BindValues(f, c.dsts, new)
    BY <1>9 DEF Structure
  <2>2. Len(c.dests) = 1 /\ List(c.dests)
    BY <1>9 DEF Shaped
  <2>3. block \in DOMAIN e.blocks /\ c.dests = <<block>>
    <3>1. c.dests \in Seq({c.dests[i] : i \in DOMAIN c.dests}) /\ DOMAIN c.dests = 1..1
      BY <2>2, ListFacts
    <3>2. 1 \in DOMAIN c.dests
      BY <3>1
    <3>. QED BY <2>2, <3>1, <3>2 DEF Found
  <2>4. Len(new) = Len(c.dsts) <=> (c.k = "bindentry" => Len(c.dsts) = Len(e.blocks[block] \o params))
    <3>1. c.k = "blockparam" => Len(c.dsts) = 1 /\ Len(new) = 1
      BY DEF Shaped, Binding
    <3>. QED BY <1>9, <3>1
  <2>5. \A x \in DOMAIN e.blocks : (IF x = block THEN all ELSE e.blocks[x]) = ParamStep(e.blocks[x], c, params, x)
    <3>1. \A x : x # block => ParamsOf(c, params, x) = <<>>
      BY <2>3 DEF ParamsOf
    <3>2. ParamsOf(c, params, block) = IF c.k = "bindentry" THEN params ELSE <<ClifType(c.ty)>>
      BY <1>9, <2>3 DEF ParamsOf
    <3>3. \A x \in DOMAIN e.blocks : e.blocks[x] \o <<>> = e.blocks[x]
      <4>1. List(<<>>)
        BY DEF List
      <4>. QED BY <4>1, ListConcat DEF Sound
    <3>. QED BY <3>1, <3>2, <3>3 DEF ParamStep
  <2>6. \A d \in DOMAIN c.dsts : new[d] = NewType(c, e, g, params, d)
    <3>1. CASE c.k = "bindentry"
      BY <3>1 DEF NewType
    <3>2. CASE c.k = "blockparam"
      <4>0. Len(c.dsts) = 1
        BY <3>2 DEF Shaped, Binding
      <4>1. DOMAIN c.dsts = {1}
        BY <1>2, <4>0
      <4>. QED BY <3>2, <4>1 DEF NewType
    <3>. QED BY <1>9, <3>1, <3>2
  <2>. HIDE DEF new, all
  <2>7. DOMAIN f = DOMAIN e /\ DOMAIN f.blocks = DOMAIN e.blocks
        /\ (\A x \in DOMAIN e.blocks : f.blocks[x] = IF x = block THEN all ELSE e.blocks[x])
        /\ \A n \in DOMAIN e : n # "blocks" => f[n] = e[n]
    BY <1>0, <2>3
  <2>. HIDE DEF f, block
  <2>8. CASE Len(new) # Len(c.dsts)
    <3>1. h = Ends(e, "error")
      BY <2>1, <2>8
    <3>2. ~Allowed(c, e, g, params)
      BY <2>4, <2>8 DEF Allowed, block
    <3>. QED BY <1>5, <3>1, <3>2
  <2>9. CASE Len(new) = Len(c.dsts)
    <3>1. BindHold(f, c.dsts, new, Len(c.dsts), h)
      <4>1. LowererFields(f) /\ f.st = "ok"
        BY <1>0, <2>7 DEF LowererFields
      <4>. QED BY <1>2, <2>1, <2>9, <4>1, BindFacts
    <3>2. f.values = e.values /\ f.slots = e.slots /\ f.placed = e.placed /\ f.externs = e.externs /\ f.tables = e.tables
      BY <1>0, <2>7
    <3>3. h.st = "ok" <=> Allowed(c, e, g, params)
      <4>1. Allowed(c, e, g, params) <=> Fresh(c, e)
        BY <1>9, <2>4, <2>9 DEF Allowed, block, Inserting, Calls, Constants, Computing
      <4>. QED BY <1>2, <3>1, <3>2, <4>1 DEF BindHold, Fresh
    <3>4. ASSUME h.st = "ok" PROVE LowerDone(c, e, g, params, h)
      <4>1. Blocks(c, e, params, h)
        BY <1>9, <2>5, <2>7, <3>1 DEF Blocks, BindHold, SameButValues
      <4>2. Rest(c, e, h)
        BY <1>1, <1>9, <3>1, <3>2 DEF Rest, BindHold, SameButValues, Sound
      <4>3. Results(c, e, g, params, h)
        BY <1>2, <2>6, <3>1, <3>2, <3>4 DEF Results, BindHold
      <4>. QED BY <4>1, <4>2, <4>3 DEF LowerDone
    <3>. QED BY <3>1, <3>3, <3>4 DEF LowerStep, BindHold, SameButValues
  <2>. QED BY <2>8, <2>9
<1>10. CASE c.k = "alias"
  <2>1. h = [e EXCEPT !.values = Put(e.values, c.dsts[1], e.values[c.uses[1]])]
    BY <1>10 DEF Structure
  <2>2. DOMAIN h = DOMAIN e /\ h.values = Put(e.values, c.dsts[1], e.values[c.uses[1]]) /\ \A f \in DOMAIN e : f # "values" => h[f] = e[f]
    BY <1>0, <2>1
  <2>3. DOMAIN c.dsts = {1}
    <3>1. Len(c.dsts) = 1
      BY <1>10 DEF Shaped, Binding
    <3>. QED BY <1>2, <3>1
  <2>4. Results(c, e, g, params, h)
    BY <1>10, <2>2, <2>3 DEF Results, Put, NewType
  <2>5. Blocks(c, e, params, h) /\ Rest(c, e, h)
    BY <1>0, <1>1, <1>4, <1>10, <2>2 DEF Blocks, Rest, Sound
  <2>6. Allowed(c, e, g, params)
    BY <1>1, <1>10 DEF Allowed
  <2>. QED BY <1>0, <2>2, <2>4, <2>5, <2>6 DEF LowerStep, LowerDone, LowererFields
<1>. QED BY <1>1, <1>6, <1>7, <1>8, <1>9, <1>10

(* A step of the lowerer: instructions. *)
LEMMA InsertFacts ==
  ASSUME NEW c, Shaped(c), NEW e, Sound(e), e.st = "ok", NEW g, NEW params,
         c.k \in Inserting, e.placed, ~Declares(c), ~Outside(c), Found(c, e, g), NEW h, h = Insert(c, e, g)
  PROVE  LowerStep(c, e, g, params, h)
<1>0. LowererFields(e) /\ DOMAIN e = {"values", "blocks", "slots", "placed", "externs", "tables", "st"}
  BY LowererNames DEF Sound
<1>1. c.k \notin {"createblock", "switchto", "seal", "bindentry", "blockparam", "slot", "alias"}
  BY DEF Inserting, Calls, Constants, Computing
<1>2. DOMAIN c.dsts = 1..Len(c.dsts) /\ Len(c.dsts) \in Nat /\ List(c.dsts)
  BY ListFacts DEF Shaped
<1>3. IF c.k \in Binding THEN Len(c.dsts) = 1 /\ c.dsts # <<>> ELSE c.dsts = <<>>
  <2>1. c.k \in Binding => Len(c.dsts) = 1
    BY DEF Shaped
  <2>2. Len(c.dsts) = 1 => c.dsts # <<>>
    BY OneNotEmpty
  <2>3. c.k \notin Binding => c.dsts = <<>>
    BY <1>1 DEF Shaped
  <2>. QED BY <2>1, <2>2, <2>3
<1>4. \A x \in DOMAIN e.blocks : ParamStep(e.blocks[x], c, params, x) = e.blocks[x]
  <2>1. c.k \notin {"bindentry", "blockparam"}
    BY <1>1
  <2>. QED BY ONLY <2>1, SameParams, Sound(e)
<1>5. Allowed(c, e, g, params) <=> (c.k = "callvalue" => Len(g.sigs[c.sig].results) = 1) /\ Fresh(c, e)
  BY <1>1 DEF Allowed
<1>. DEFINE tys == <<ResultType(c, e, g)>>
<1>6. ASSUME NEW f, LowererFields(f), f.st = "ok", f.values = e.values, f.blocks = e.blocks, Rest(c, e, f),
             c.k = "callvalue" => Len(g.sigs[c.sig].results) = 1,
             h = IF c.dsts # <<>> THEN BindValues(f, c.dsts, tys) ELSE f
      PROVE  LowerStep(c, e, g, params, h)
  <2>1. CASE c.dsts = <<>>
    <3>1. h = f /\ DOMAIN c.dsts = {}
      BY <1>6, <2>1
    <3>2. Allowed(c, e, g, params)
      BY <1>5, <1>6, <3>1 DEF Fresh
    <3>3. Results(c, e, g, params, h) /\ Blocks(c, e, params, h)
      BY <1>1, <1>4, <1>6, <3>1 DEF Results, Blocks
    <3>. QED BY <1>6, <3>1, <3>2, <3>3 DEF LowerStep, LowerDone
  <2>2. CASE c.dsts # <<>>
    <3>0. Len(c.dsts) = 1
      BY <1>3, <2>2
    <3>1. DOMAIN c.dsts = {1}
      BY <1>2, <3>0
    <3>2. h = BindValues(f, c.dsts, tys)
      BY <1>6, <2>2
    <3>3. BindHold(f, c.dsts, tys, Len(c.dsts), h)
      BY <1>2, <1>6, <3>2, BindFacts
    <3>4. \A d \in DOMAIN c.dsts : tys[d] = NewType(c, e, g, params, d)
      BY <1>1, <3>1 DEF NewType
    <3>. HIDE DEF tys
    <3>5. h.st = "ok" <=> Allowed(c, e, g, params)
      <4>1. Allowed(c, e, g, params) <=> Fresh(c, e)
        BY <1>5, <1>6
      <4>. QED BY <1>2, <1>6, <3>3, <4>1 DEF BindHold, Fresh
    <3>6. ASSUME h.st = "ok" PROVE LowerDone(c, e, g, params, h)
      <4>1. Results(c, e, g, params, h)
        BY <1>2, <1>6, <3>1, <3>3, <3>4, <3>6 DEF Results, BindHold
      <4>2. h.blocks = e.blocks /\ h.slots = f.slots /\ h.placed = f.placed /\ h.externs = f.externs /\ h.tables = f.tables
        BY <1>6, <3>3 DEF BindHold, SameButValues
      <4>3. Blocks(c, e, params, h) /\ Rest(c, e, h)
        BY <1>1, <1>4, <1>6, <4>2 DEF Blocks, Rest
      <4>. QED BY <4>1, <4>3 DEF LowerDone
    <3>. QED BY <3>3, <3>5, <3>6 DEF LowerStep, BindHold, SameButValues
  <2>. QED BY <2>1, <2>2
<1>7. CASE c.k \in Calls
  <2>. DEFINE called == IF c.how = "extern" THEN [e EXCEPT !.externs = e.externs \cup {c.id}] ELSE e
  <2>1. h = IF c.k = "callstmt" THEN called
            ELSE IF Len(g.sigs[c.sig].results) # 1 THEN Ends(e, "error")
            ELSE BindValues(called, c.dsts, tys)
    BY <1>7 DEF Insert, Calls
  <2>2. /\ LowererFields(called) /\ called.st = "ok" /\ called.values = e.values /\ called.blocks = e.blocks
        /\ Rest(c, e, called)
    <3>1. /\ DOMAIN called = DOMAIN e /\ called.externs = e.externs \cup (IF c.how = "extern" THEN {c.id} ELSE {})
          /\ \A f \in DOMAIN e : f # "externs" => called[f] = e[f]
      BY <1>0
    <3>. HIDE DEF called
    <3>2. c.k # "switch"
      BY <1>7 DEF Calls
    <3>3. Rest(c, e, called)
      BY <1>0, <1>1, <1>7, <3>1, <3>2 DEF Rest, Sound
    <3>. QED BY <1>0, <3>1, <3>3 DEF LowererFields
  <2>. HIDE DEF called, tys
  <2>3. CASE c.k = "callstmt"
    <3>1. c.dsts = <<>>
      BY <1>1, <2>3 DEF Shaped, Binding, Constants, Computing
    <3>. QED BY <1>6, <2>1, <2>2, <2>3, <3>1
  <2>4. CASE c.k = "callvalue" /\ Len(g.sigs[c.sig].results) # 1
    <3>1. h = Ends(e, "error")
      BY <2>1, <2>4
    <3>. QED BY <1>0, <1>5, <2>4, <3>1, EndsFacts DEF LowerStep
  <2>5. CASE c.k = "callvalue" /\ Len(g.sigs[c.sig].results) = 1
    <3>1. c.dsts # <<>>
      BY <1>3, <2>5 DEF Binding
    <3>. QED BY <1>6, <2>1, <2>2, <2>5, <3>1
  <2>. QED BY <1>7, <2>3, <2>4, <2>5 DEF Calls
<1>8. CASE c.k = "switch"
  <2>1. h = [e EXCEPT !.tables = e.tables \cup {TableOf(c)}]
    BY <1>8 DEF Insert, TableOf, Calls
  <2>2. DOMAIN h = DOMAIN e /\ h.tables = e.tables \cup {TableOf(c)} /\ \A f \in DOMAIN e : f # "tables" => h[f] = e[f]
    BY <1>0, <2>1
  <2>3. c.dsts = <<>>
    BY <1>8 DEF Shaped, Binding, Constants, Computing
  <2>4. Rest(c, e, h)
    BY <1>0, <1>8, <2>2 DEF Rest, Sound, Calls
  <2>5. h = IF c.dsts # <<>> THEN BindValues(h, c.dsts, tys) ELSE h
    BY <2>3
  <2>6. c.k # "callvalue" /\ LowererFields(h) /\ h.st = "ok" /\ h.values = e.values /\ h.blocks = e.blocks
    BY <1>0, <1>8, <2>2 DEF LowererFields
  <2>. QED BY <1>6, <2>4, <2>5, <2>6
<1>9. CASE c.k \notin Calls \cup {"switch"}
  <2>1. h = IF c.dsts # <<>> THEN BindValues(e, c.dsts, tys) ELSE e
    BY <1>9 DEF Insert
  <2>2. Rest(c, e, e)
    BY <1>1, <1>9 DEF Rest, Sound
  <2>3. c.k # "callvalue"
    BY <1>9 DEF Calls
  <2>. QED BY <1>0, <1>6, <2>1, <2>2, <2>3
<1>. QED BY <1>7, <1>8, <1>9

(* A step of the lowerer. *)
LEMMA LowerCmdFacts ==
  ASSUME NEW c, Shaped(c), NEW e, Sound(e), e.st = "ok", NEW g, NEW params, List(params),
         NEW h, h = LowerCmd(c, e, g, params)
  PROVE  LowerStep(c, e, g, params, h)
<1>0. LowererFields(e) /\ DOMAIN e = {"values", "blocks", "slots", "placed", "externs", "tables", "st"}
  BY LowererNames DEF Sound
<1>1. ASSUME h = Ends(e, "error"), ~Allowed(c, e, g, params) PROVE LowerStep(c, e, g, params, h)
  BY <1>0, <1>1, EndsFacts DEF LowerStep
<1>2. CASE Declares(c)
  <2>0. h = IF Redeclared(c, g) THEN e ELSE Ends(e, "error")
    BY <1>2 DEF LowerCmd, Declares
  <2>1. Allowed(c, e, g, params) <=> Redeclared(c, g)
    BY <1>2 DEF Allowed
  <2>2. CASE ~Redeclared(c, g)
    BY <1>1, <2>0, <2>1, <2>2
  <2>3. CASE Redeclared(c, g)
    <3>1. h = e
      BY <2>0, <2>3
    <3>2. c.k \notin Binding \cup {"bindentry", "blockparam", "createblock", "slot", "switchto", "switch"} /\ c.k \notin Calls
      BY <1>2 DEF Declares, Declarations, Binding, Constants, Computing, Calls
    <3>3. c.dsts = <<>>
      BY <3>2 DEF Shaped
    <3>4. DOMAIN c.dsts = {}
      BY <3>3
    <3>5. Results(c, e, g, params, e)
      BY <3>4 DEF Results
    <3>6. \A x \in DOMAIN e.blocks : ParamStep(e.blocks[x], c, params, x) = e.blocks[x]
      BY <3>2, SameParams
    <3>7. Blocks(c, e, params, e) /\ Rest(c, e, e)
      BY <3>2, <3>6 DEF Blocks, Rest, Sound
    <3>. QED BY <1>0, <2>1, <2>3, <3>1, <3>5, <3>7 DEF LowerStep, LowerDone
  <2>. QED BY <2>2, <2>3
<1>3. CASE ~Declares(c)
  <2>1. c.k \in TopLevel \cup {"begin", "finish", "frem"} <=> Outside(c)
    BY <1>3 DEF TopLevel, Declares, Outside
  <2>2. h = IF Outside(c) \/ ~Found(FirstPart(c), e, g) THEN Ends(e, "error")
            ELSE IF c.k \in Inserting /\ ~e.placed THEN Ends(e, "abort")
            ELSE IF ~Found(c, e, g) THEN Ends(e, "error")
            ELSE IF c.k \in Inserting THEN Insert(c, e, g) ELSE Structure(c, e, params)
    BY <1>3, <2>1 DEF LowerCmd, Declares
  <2>3. CASE Outside(c) \/ ~Found(FirstPart(c), e, g)
    <3>1. ~Allowed(c, e, g, params)
      BY <1>3, <2>3, FirstPartFacts DEF Allowed
    <3>. QED BY <1>1, <2>2, <2>3, <3>1
  <2>4. CASE ~(Outside(c) \/ ~Found(FirstPart(c), e, g)) /\ c.k \in Inserting /\ ~e.placed
    <3>1. h = Ends(e, "abort")
      BY <2>2, <2>4
    <3>2. ~Allowed(c, e, g, params)
      BY <1>3, <2>4 DEF Allowed
    <3>. QED BY <1>0, <2>4, <3>1, <3>2, EndsFacts DEF LowerStep
  <2>5. CASE ~(Outside(c) \/ ~Found(FirstPart(c), e, g)) /\ ~(c.k \in Inserting /\ ~e.placed) /\ ~Found(c, e, g)
    <3>1. ~Allowed(c, e, g, params)
      BY <1>3, <2>5 DEF Allowed
    <3>. QED BY <1>1, <2>2, <2>5, <3>1
  <2>6. CASE ~(Outside(c) \/ ~Found(FirstPart(c), e, g)) /\ c.k \in Inserting /\ e.placed /\ Found(c, e, g)
    BY <1>3, <2>2, <2>6, InsertFacts
  <2>7. CASE ~(Outside(c) \/ ~Found(FirstPart(c), e, g)) /\ c.k \notin Inserting /\ Found(c, e, g)
    BY <1>3, <2>2, <2>7, StructureFacts
  <2>. QED BY <2>3, <2>4, <2>5, <2>6, <2>7
<1>. QED BY <1>2, <1>3

-----------------------------------------------------------------------------
(* A lowerer: the rules of a body *)

(* The rules of a body, one command at a time. *)
NameHere(q, i) ==
  /\ \A u \in DOMAIN q[i].uses : \E j \in 1..(i - 1) : BindsAt(q, j, q[i].uses[u])
  /\ q[i].k # "alias" =>
       \A d \in DOMAIN q[i].dsts :
         /\ \A j \in 1..(i - 1) : ~BindsAt(q, j, q[i].dsts[d])
         /\ \A d2 \in DOMAIN q[i].dsts : q[i].dsts[d] = q[i].dsts[d2] => d = d2

(* Blocks and slots. *)
BlockHere(q, params, i) ==
  /\ q[i].k \in {"createblock", "slot"} => ~Before(q, i, q[i].k, q[i].id)
  /\ q[i].k = "slot" => AlignOK(q[i].align)
  /\ q[i].k = "stackaddr" => Before(q, i, "slot", q[i].id)
  /\ \A d \in DOMAIN q[i].dests : Before(q, i, "createblock", q[i].dests[d])
  /\ \A d \in DOMAIN q[i].cases : Before(q, i, "createblock", q[i].cases[d].dest)
  /\ q[i].k \in Inserting => \E j \in 1..(i - 1) : q[j].k = "switchto"
  /\ q[i].k = "bindentry" => Len(q[i].dsts) = Len(ParamTypes(q, params, q[i].dests[1])[i])

(* Calls. *)
CallHere(p, c) ==
  c.k \in Calls =>
    /\ c.sig \in Ids(p, "createsig")
    /\ c.how = "direct" => c.id \in Ids(p, "declarefunc") /\ The(p, "declarefunc", c.id).sig = c.sig
    /\ c.how = "extern" => c.id \in Ids(p, "declareextern") /\ The(p, "declareextern", c.id).sig = c.sig
    /\ c.k = "callvalue" => Len(The(p, "createsig", c.sig).results) = 1

(* Literals. *)
ValueHere(p, q, params, i) ==
  /\ q[i].k # "frem"
  /\ q[i].k = "constint" => ConstBits(q[i].ty, q[i].lit) # None
  /\ q[i].k = "constfloat" => q[i].ty = "f64" /\ q[i].lit # None
  /\ q[i].k = "dataaddr" => q[i].id \in Ids(p, "declaredata")
  /\ q[i].k = "switch" => CasesDistinct(q[i]) /\ TypeAt(p, q, params, i, q[i].uses[1]) = ClifType(q[i].ty)

(* All of them, and what may not stand in a body. *)
BodyHere(p, q, params, i) ==
  /\ NameHere(q, i) /\ BlockHere(q, params, i) /\ CallHere(p, q[i]) /\ ValueHere(p, q, params, i)
  /\ q[i].k \notin DataInits \cup {"finalize"}

(* The rules of a body. *)
BodyRules(p, q, params) ==
  /\ NameRules(q) /\ BlockRules(q, params) /\ CallRules(p, q) /\ ValueRules(p, q, params)
  /\ \A i \in DOMAIN q : q[i].k \notin DataInits \cup {"finalize"}

(* The rules of a body, one command at a time. *)
LEMMA BodyRulesHere ==
  ASSUME NEW p, NEW q, NEW params
  PROVE  BodyRules(p, q, params) <=> \A i \in DOMAIN q : BodyHere(p, q, params, i)
<1>1. NameRules(q) <=> \A i \in DOMAIN q : NameHere(q, i)
  BY Zenon DEF NameRules, NameHere
<1>2. BlockRules(q, params) <=> \A i \in DOMAIN q : BlockHere(q, params, i)
  BY Zenon DEF BlockRules, BlockHere
<1>3. CallRules(p, q) <=> \A i \in DOMAIN q : CallHere(p, q[i])
  BY Zenon DEF CallRules, CallHere
<1>4. ValueRules(p, q, params) <=> \A i \in DOMAIN q : ValueHere(p, q, params, i)
  BY Zenon DEF ValueRules, ValueHere
<1>. QED BY <1>1, <1>2, <1>3, <1>4, Zenon DEF BodyRules, BodyHere

(* The lowerer after i commands of a body. *)
NamesAre(p, q, params, i, e) ==
  /\ \A name : name \in DOMAIN e.values <=> \E j \in 1..i : BindsAt(q, j, name)
  /\ \A name \in DOMAIN e.values : e.values[name] = TypeAt(p, q, params, i + 1, name)

(* Its blocks. *)
BlocksAre(q, params, i, e) ==
  /\ \A x : x \in DOMAIN e.blocks <=> Before(q, i + 1, "createblock", x)
  /\ \A x : IF x \in DOMAIN e.blocks THEN e.blocks[x] = ParamTypes(q, params, x)[i] ELSE ParamTypes(q, params, x)[i] = <<>>

(* Its slots, externs and tables. *)
RestAre(q, i, e) ==
  /\ \A x : x \in e.slots <=> Before(q, i + 1, "slot", x)
  /\ e.placed \in BOOLEAN /\ (e.placed <=> \E j \in 1..i : q[j].k = "switchto")
  /\ e.externs = {q[j].id : j \in {j \in 1..i : q[j].k \in Calls /\ q[j].how = "extern"}}
  /\ e.tables = {TableOf(q[j]) : j \in {j \in 1..i : q[j].k = "switch"}}

(* All of it. *)
LowerHold(p, q, params, i, e) ==
  LowererFields(e) /\ NamesAre(p, q, params, i, e) /\ BlocksAre(q, params, i, e) /\ RestAre(q, i, e)

(* A body of a program, all of its commands among the program's. *)
BodyIn(p, q) ==
  List(q) /\ \A i \in DOMAIN q : q[i].k \notin {"begin", "finish"} /\ \E n \in DOMAIN p : q[i] = p[n]

(* The parameters of a block are a list. *)
LEMMA ParamTypesList ==
  ASSUME NEW q, List(q), NEW params, List(params), NEW x
  PROVE  \A i \in 0..Len(q) : List(ParamTypes(q, params, x)[i])
<1>. DEFINE P == ParamTypes(q, params, x)
            S == {i \in Nat : i <= Len(q) => List(P[i])}
<1>0. Len(q) \in Nat
  BY ListFacts
<1>1. P[0] = <<>> /\ \A i \in 1..Len(q) : P[i] = ParamStep(P[i - 1], q[i], params, x)
  BY <1>0, ParamTypesDef
<1>. HIDE DEF P
<1>2. 0 \in S
  <2>1. List(<<>>)
    BY DEF List
  <2>. QED BY <1>1, <2>1
<1>3. ASSUME NEW m \in Nat, m \in S PROVE m + 1 \in S
  <2>1. SUFFICES ASSUME m + 1 <= Len(q) PROVE List(P[m + 1])
    OBVIOUS
  <2>2. m + 1 \in 1..Len(q) /\ (m + 1) - 1 = m /\ m <= Len(q)
    BY <1>0, <2>1
  <2>3. List(P[m]) /\ P[m + 1] = P[m] \o ParamsOf(q[m + 1], params, x)
    BY <1>1, <1>3, <2>2 DEF ParamStep
  <2>4. \A t : List(<<t>>)
    BY DEF List
  <2>5. List(<<>>)
    BY DEF List
  <2>6. List(ParamsOf(q[m + 1], params, x))
    <3>1. \/ ParamsOf(q[m + 1], params, x) = <<>> \/ ParamsOf(q[m + 1], params, x) = params
          \/ \E t : ParamsOf(q[m + 1], params, x) = <<t>>
      BY DEF ParamsOf
    <3>. QED BY <2>4, <2>5, <3>1
  <2>. QED BY <2>3, <2>6, ListConcat
<1>4. Nat \subseteq S
  <2>. HIDE DEF S
  <2>. QED BY <1>2, <1>3, SetInduction
<1>. QED BY <1>0, <1>4 DEF P

(* The binder of a name after one more command. *)
LEMMA BinderStep ==
  ASSUME NEW q, NEW i \in Nat, i > 0, NEW name
  PROVE  Binder(q, i + 1, name) = IF BindsAt(q, i, name) THEN i ELSE Binder(q, i, name)
<1>. DEFINE B == Binder(q, i, name)
            C == Binder(q, i + 1, name)
<1>1. /\ B \in 0..(i - 1)
      /\ B = 0 <=> \A j \in 1..(i - 1) : ~BindsAt(q, j, name)
      /\ B # 0 => BindsAt(q, B, name) /\ \A j \in 1..(i - 1) : BindsAt(q, j, name) => j <= B
  BY BinderFacts
<1>2. /\ C \in 0..((i + 1) - 1)
      /\ C = 0 <=> \A j \in 1..((i + 1) - 1) : ~BindsAt(q, j, name)
      /\ C # 0 => BindsAt(q, C, name) /\ \A j \in 1..((i + 1) - 1) : BindsAt(q, j, name) => j <= C
  <2>1. i + 1 \in Nat /\ i + 1 > 0
    OBVIOUS
  <2>. QED BY <2>1, BinderFacts
<1>. HIDE DEF B, C
<1>3. (i + 1) - 1 = i /\ i \in 1..i /\ (\A j \in 1..i : j = i \/ j \in 1..(i - 1)) /\ (\A j \in 1..(i - 1) : j \in 1..i)
  OBVIOUS
<1>4. CASE BindsAt(q, i, name)
  <2>1. C # 0 /\ i <= C /\ C \in 0..i
    BY <1>2, <1>3, <1>4
  <2>2. C = i
    BY <2>1
  <2>. QED BY <1>4, <2>2 DEF C
<1>5. CASE ~BindsAt(q, i, name)
  <2>1. CASE B = 0
    <3>1. \A j \in 1..i : ~BindsAt(q, j, name)
      BY <1>1, <1>3, <1>5, <2>1
    <3>2. C = 0
      BY <1>2, <1>3, <3>1
    <3>. QED BY <1>5, <2>1, <3>2 DEF B, C
  <2>2. CASE B # 0
    <3>1. B \in 1..i /\ BindsAt(q, B, name)
      BY <1>1, <2>2
    <3>2. C # 0 /\ B <= C
      BY <1>2, <1>3, <3>1
    <3>3. C \in 1..(i - 1)
      <4>1. C # i
        BY <1>2, <1>5, <3>2
      <4>. QED BY <1>2, <3>2, <4>1
    <3>4. C <= B
      BY <1>1, <1>2, <2>2, <3>2, <3>3
    <3>5. C = B
      BY <1>1, <3>2, <3>3, <3>4
    <3>. QED BY <1>5, <3>5 DEF B, C
  <2>. QED BY <2>1, <2>2
<1>. QED BY <1>4, <1>5

(* The callee a call finds is the one the program declares. *)
LEMMA CallExact ==
  ASSUME NEW p, WellShaped(p), DeclarationRules(p), NEW g, TablesAre(p, g), NEW c, Shaped(c), c.k \in Calls
  PROVE  Callable(c, g) /\ (c.k = "callvalue" => Len(g.sigs[c.sig].results) = 1) <=> CallHere(p, c)
<1>1. c.how \in {"direct", "extern", "indirect"}
  BY DEF Shaped
<1>2. ASSUME NEW id \in DOMAIN g.funcs
      PROVE  id \in Ids(p, "declarefunc") /\ g.funcs[id].sig = The(p, "declarefunc", id).sig /\ g.funcs[id].sig \in Ids(p, "createsig")
  <2>1. id \in Ids(p, "declarefunc") /\ g.funcs[id] = FuncDecl(The(p, "declarefunc", id))
    BY DEF TablesAre
  <2>2. PICK i \in DOMAIN p : p[i].k = "declarefunc" /\ The(p, "declarefunc", id) = p[i]
    BY <2>1, TheFacts
  <2>3. p[i].sig \in DOMAIN g.sigs
    BY <2>2, DeclaredFacts
  <2>. QED BY <2>1, <2>2, <2>3 DEF FuncDecl, TablesAre
<1>3. ASSUME NEW id \in DOMAIN g.externs
      PROVE  id \in Ids(p, "declareextern") /\ g.externs[id].sig = The(p, "declareextern", id).sig /\ g.externs[id].sig \in Ids(p, "createsig")
  <2>1. id \in Ids(p, "declareextern") /\ g.externs[id] = ExternDecl(The(p, "declareextern", id))
    BY DEF TablesAre
  <2>2. PICK i \in DOMAIN p : p[i].k = "declareextern" /\ The(p, "declareextern", id) = p[i]
    BY <2>1, TheFacts
  <2>3. p[i].sig \in DOMAIN g.sigs
    BY <2>2, DeclaredFacts
  <2>. QED BY <2>1, <2>2, <2>3 DEF ExternDecl, TablesAre
<1>4. Callable(c, g) <=> /\ c.sig \in Ids(p, "createsig")
                         /\ c.how = "direct" => c.id \in Ids(p, "declarefunc") /\ The(p, "declarefunc", c.id).sig = c.sig
                         /\ c.how = "extern" => c.id \in Ids(p, "declareextern") /\ The(p, "declareextern", c.id).sig = c.sig
  <2>1. DOMAIN g.funcs = Ids(p, "declarefunc") /\ DOMAIN g.externs = Ids(p, "declareextern") /\ DOMAIN g.sigs = Ids(p, "createsig")
    BY DEF TablesAre
  <2>2. CASE c.how = "direct"
    BY <1>2, <2>1, <2>2 DEF Callable
  <2>3. CASE c.how = "extern"
    BY <1>3, <2>1, <2>3 DEF Callable
  <2>4. CASE c.how = "indirect"
    BY <2>1, <2>4 DEF Callable
  <2>. QED BY <1>1, <2>2, <2>3, <2>4
<1>5. ASSUME c.sig \in Ids(p, "createsig")
      PROVE  Len(g.sigs[c.sig].results) = Len(The(p, "createsig", c.sig).results)
  <2>. DEFINE w == The(p, "createsig", c.sig)
              r == [i \in DOMAIN w.results |-> ClifType(w.results[i])]
  <2>1. g.sigs[c.sig] = Signature(w)
    BY <1>5 DEF TablesAre
  <2>2. Shaped(w)
    BY <1>5, TheFacts DEF WellShaped
  <2>3. DOMAIN w.results = 1..Len(w.results) /\ Len(w.results) \in Nat
    BY <2>2, ListFacts DEF Shaped
  <2>4. r = [i \in 1..Len(w.results) |-> r[i]]
    BY <2>3
  <2>. HIDE DEF r
  <2>5. Len(r) = Len(w.results)
    BY <2>3, <2>4, ListOfFunction
  <2>6. g.sigs[c.sig].results = r
    BY <2>1 DEF Signature, r
  <2>. QED BY <2>5, <2>6
<1>. QED BY <1>4, <1>5 DEF CallHere

(* A declaration that stands in a body is what it was the first time. *)
LEMMA RedeclaredTrue ==
  ASSUME NEW p, WellShaped(p), DeclarationRules(p), NEW g, TablesAre(p, g), NEW i \in DOMAIN p, Declares(p[i])
  PROVE  Redeclared(p[i], g)
<1>1. /\ p[i].k = "createsig" => p[i].id \in DOMAIN g.sigs /\ g.sigs[p[i].id] = Signature(p[i])
      /\ p[i].k = "declaredata" => p[i].id \in DOMAIN g.datas /\ g.datas[p[i].id] = DataDecl(p[i])
      /\ p[i].k = "declarefunc" => p[i].id \in DOMAIN g.funcs /\ g.funcs[p[i].id] = FuncDecl(p[i])
      /\ p[i].k = "declareextern" => p[i].id \in DOMAIN g.externs /\ g.externs[p[i].id] = ExternDecl(p[i])
  BY DeclaredFacts
<1>2. p[i].k \in Declarations
  BY DEF Declares
<1>3. CASE p[i].k = "createsig"
  BY <1>1, <1>3 DEF Redeclared
<1>4. CASE p[i].k = "declaredata"
  BY <1>1, <1>4 DEF Redeclared, DataDecl
<1>5. CASE p[i].k = "declarefunc"
  BY <1>1, <1>5 DEF Redeclared, FuncDecl
<1>6. CASE p[i].k = "declareextern"
  BY <1>1, <1>6 DEF Redeclared, ExternDecl
<1>. QED BY <1>2, <1>3, <1>4, <1>5, <1>6 DEF Declarations

(* A declaration names nothing. *)
LEMMA DeclaresNothing ==
  ASSUME NEW c, Shaped(c), Declares(c)
  PROVE  /\ c.uses = <<>> /\ c.dests = <<>> /\ c.dsts = <<>> /\ c.cases = <<>>
         /\ c.k \notin Inserting \cup DataInits \cup Calls
         /\ c.k \notin {"createblock", "slot", "stackaddr", "bindentry", "blockparam", "finalize",
                        "frem", "constint", "constfloat", "dataaddr", "switch", "switchto", "begin", "finish", "alias"}
<1>1. /\ c.k \notin Inserting \cup DataInits \cup Calls \cup Binding
      /\ c.k \notin {"createblock", "slot", "stackaddr", "bindentry", "blockparam", "finalize",
                     "frem", "constint", "constfloat", "dataaddr", "switch", "switchto", "begin", "finish", "alias"}
  BY DEF Declares, Declarations, Inserting, DataInits, Calls, Binding, Constants, Computing
<1>2. c.k \in TopLevel
  BY DEF Declares, TopLevel
<1>3. c.uses = <<>> /\ c.dests = <<>> /\ c.dsts = <<>> /\ c.cases = <<>>
  BY <1>1, <1>2 DEF Shaped
<1>. QED BY <1>1, <1>3

(* What the lowerer allows is what the rules allow. *)
LEMMA AllowedExact ==
  ASSUME NEW p, WellShaped(p), DeclarationRules(p), NEW g, TablesAre(p, g), NEW q, BodyIn(p, q),
         NEW params, List(params), NEW i \in 1..Len(q), NEW e, LowerHold(p, q, params, i - 1, e)
  PROVE  Allowed(q[i], e, g, params) <=> BodyHere(p, q, params, i)
<1>. DEFINE c == q[i]
<1>0. Len(q) \in Nat /\ DOMAIN q = 1..Len(q) /\ i \in DOMAIN q /\ i \in Nat /\ i > 0 /\ (i - 1) + 1 = i
  BY ListFacts DEF BodyIn
<1>1. PICK n \in DOMAIN p : c = p[n]
  BY <1>0 DEF BodyIn
<1>2. Shaped(c) /\ c.k \notin {"begin", "finish"}
  BY <1>0, <1>1 DEF WellShaped, BodyIn
<1>3. /\ \A name : name \in DOMAIN e.values <=> \E j \in 1..(i - 1) : BindsAt(q, j, name)
      /\ \A name \in DOMAIN e.values : e.values[name] = TypeAt(p, q, params, i, name)
      /\ \A x : x \in DOMAIN e.blocks <=> Before(q, i, "createblock", x)
      /\ \A x \in DOMAIN e.blocks : e.blocks[x] = ParamTypes(q, params, x)[i - 1]
      /\ \A x : x \in e.slots <=> Before(q, i, "slot", x)
      /\ e.placed <=> \E j \in 1..(i - 1) : q[j].k = "switchto"
  BY <1>0 DEF LowerHold, NamesAre, BlocksAre, RestAre
<1>4. CASE Declares(c)
  <2>1. Allowed(c, e, g, params)
    BY <1>1, <1>4, RedeclaredTrue DEF Allowed
  <2>2. /\ c.uses = <<>> /\ c.dests = <<>> /\ c.dsts = <<>> /\ c.cases = <<>>
        /\ c.k \notin Inserting \cup DataInits \cup Calls
        /\ c.k \notin {"createblock", "slot", "stackaddr", "bindentry", "blockparam", "finalize",
                       "frem", "constint", "constfloat", "dataaddr", "switch", "switchto", "begin", "finish", "alias"}
    BY <1>2, <1>4, DeclaresNothing
  <2>3. DOMAIN c.uses = {} /\ DOMAIN c.dests = {} /\ DOMAIN c.dsts = {} /\ DOMAIN c.cases = {}
    BY <2>2
  <2>. HIDE DEF c
  <2>4. NameHere(q, i)
    BY <2>3 DEF NameHere, c
  <2>5. BlockHere(q, params, i)
    BY <2>2, <2>3 DEF BlockHere, c
  <2>6. CallHere(p, c) /\ ValueHere(p, q, params, i)
    BY <2>2 DEF CallHere, ValueHere, c
  <2>. QED BY <2>1, <2>2, <2>4, <2>5, <2>6 DEF BodyHere, c
<1>5. CASE ~Declares(c)
  <2>1. Outside(c) <=> c.k \in DataInits \cup {"finalize"} \/ c.k = "frem"
    BY <1>2 DEF Outside
  <2>2. NameHere(q, i) <=> (\A u \in DOMAIN c.uses : c.uses[u] \in DOMAIN e.values) /\ (c.k # "alias" => Fresh(c, e))
    BY <1>3 DEF NameHere, Fresh
  <2>3. c.k = "bindentry" /\ (\A d \in DOMAIN c.dests : c.dests[d] \in DOMAIN e.blocks)
          => e.blocks[c.dests[1]] \o params = ParamTypes(q, params, c.dests[1])[i]
    <3>1. SUFFICES ASSUME c.k = "bindentry", \A d \in DOMAIN c.dests : c.dests[d] \in DOMAIN e.blocks
                   PROVE  e.blocks[c.dests[1]] \o params = ParamTypes(q, params, c.dests[1])[i]
      OBVIOUS
    <3>2. Len(c.dests) = 1 /\ List(c.dests)
      BY <1>2, <3>1 DEF Shaped
    <3>3. c.dests \in Seq({c.dests[d] : d \in DOMAIN c.dests}) /\ DOMAIN c.dests = 1..1
      BY <3>2, ListFacts
    <3>4. c.dests = <<c.dests[1]>> /\ 1 \in DOMAIN c.dests
      BY <3>2, <3>3
    <3>5. e.blocks[c.dests[1]] = ParamTypes(q, params, c.dests[1])[i - 1]
      BY <1>3, <3>1, <3>4
    <3>6. ParamTypes(q, params, c.dests[1])[i] = ParamStep(ParamTypes(q, params, c.dests[1])[i - 1], c, params, c.dests[1])
      BY <1>0, ParamTypesDef
    <3>7. ParamsOf(c, params, c.dests[1]) = params
      BY <3>1, <3>4 DEF ParamsOf
    <3>. QED BY <3>5, <3>6, <3>7 DEF ParamStep
  <2>4. /\ \A d \in DOMAIN c.dests : c.dests[d] \in DOMAIN e.blocks <=> Before(q, i, "createblock", c.dests[d])
        /\ \A d \in DOMAIN c.cases : c.cases[d].dest \in DOMAIN e.blocks <=> Before(q, i, "createblock", c.cases[d].dest)
    BY <1>3
  <2>5. BlockHere(q, params, i) <=>
          /\ \A d \in DOMAIN c.dests : c.dests[d] \in DOMAIN e.blocks
          /\ \A d \in DOMAIN c.cases : c.cases[d].dest \in DOMAIN e.blocks
          /\ c.k = "stackaddr" => c.id \in e.slots
          /\ c.k \in Inserting => e.placed
          /\ c.k = "createblock" => c.id \notin DOMAIN e.blocks
          /\ c.k = "slot" => c.id \notin e.slots /\ AlignOK(c.align)
          /\ c.k = "bindentry" => Len(c.dsts) = Len(e.blocks[c.dests[1]] \o params)
    <3>1. (c.k \in {"createblock", "slot"} => ~Before(q, i, c.k, c.id))
            <=> (c.k = "createblock" => c.id \notin DOMAIN e.blocks) /\ (c.k = "slot" => c.id \notin e.slots)
      BY <1>3
    <3>2. c.k = "stackaddr" => (c.id \in e.slots <=> Before(q, i, "slot", c.id))
      BY <1>3
    <3>. HIDE DEF c
    <3>3. BlockHere(q, params, i) <=>
          /\ c.k \in {"createblock", "slot"} => ~Before(q, i, c.k, c.id)
          /\ c.k = "slot" => AlignOK(c.align)
          /\ c.k = "stackaddr" => Before(q, i, "slot", c.id)
          /\ \A d \in DOMAIN c.dests : Before(q, i, "createblock", c.dests[d])
          /\ \A d \in DOMAIN c.cases : Before(q, i, "createblock", c.cases[d].dest)
          /\ c.k \in Inserting => \E j \in 1..(i - 1) : q[j].k = "switchto"
          /\ c.k = "bindentry" => Len(c.dsts) = Len(ParamTypes(q, params, c.dests[1])[i])
      BY Zenon DEF BlockHere, c
    <3>. QED BY <1>3, <2>3, <2>4, <3>1, <3>2, <3>3
  <2>6. c.k = "switch" /\ (\A u \in DOMAIN c.uses : c.uses[u] \in DOMAIN e.values)
          => e.values[c.uses[1]] = TypeAt(p, q, params, i, c.uses[1])
    <3>1. SUFFICES ASSUME c.k = "switch", \A u \in DOMAIN c.uses : c.uses[u] \in DOMAIN e.values
                   PROVE  e.values[c.uses[1]] = TypeAt(p, q, params, i, c.uses[1])
      OBVIOUS
    <3>2. c.uses # <<>> /\ List(c.uses)
      BY <1>2, <3>1 DEF Shaped
    <3>3. c.uses \in Seq({c.uses[d] : d \in DOMAIN c.uses}) /\ DOMAIN c.uses = 1..Len(c.uses) /\ Len(c.uses) \in Nat
      BY <3>2, ListFacts
    <3>4. 1 \in DOMAIN c.uses
      BY <3>2, <3>3
    <3>. QED BY <1>3, <3>1, <3>4
  <2>7. (c.k \in Calls => Callable(c, g)) /\ (c.k = "callvalue" => Len(g.sigs[c.sig].results) = 1) <=> CallHere(p, c)
    <3>1. CASE c.k \in Calls
      BY <1>2, <3>1, CallExact
    <3>2. CASE c.k \notin Calls
      BY <3>2 DEF CallHere, Calls
    <3>. QED BY <3>1, <3>2
  <2>8. DOMAIN g.datas = Ids(p, "declaredata")
    BY DEF TablesAre
  <2>9. Allowed(c, e, g, params) <=>
          /\ ~Outside(c) /\ Found(c, e, g)
          /\ c.k \in Inserting => e.placed
          /\ c.k = "createblock" => c.id \notin DOMAIN e.blocks
          /\ c.k = "slot" => c.id \notin e.slots /\ AlignOK(c.align)
          /\ c.k = "bindentry" => Len(c.dsts) = Len(e.blocks[c.dests[1]] \o params)
          /\ c.k = "callvalue" => Len(g.sigs[c.sig].results) = 1
          /\ c.k # "alias" => Fresh(c, e)
    BY <1>5 DEF Allowed
  <2>10. BodyHere(p, q, params, i) <=>
          /\ NameHere(q, i) /\ BlockHere(q, params, i) /\ CallHere(p, c)
          /\ c.k # "frem"
          /\ c.k = "constint" => ConstBits(c.ty, c.lit) # None
          /\ c.k = "constfloat" => c.ty = "f64" /\ c.lit # None
          /\ c.k = "dataaddr" => c.id \in Ids(p, "declaredata")
          /\ c.k = "switch" => CasesDistinct(c) /\ TypeAt(p, q, params, i, c.uses[1]) = ClifType(c.ty)
          /\ c.k \notin DataInits \cup {"finalize"}
    <3>. HIDE DEF c
    <3>. QED BY Zenon DEF BodyHere, ValueHere, c
  <2>. HIDE DEF c
  <2>11. Found(c, e, g) <=>
           /\ \A u \in DOMAIN c.uses : c.uses[u] \in DOMAIN e.values
           /\ \A d \in DOMAIN c.dests : c.dests[d] \in DOMAIN e.blocks
           /\ \A d \in DOMAIN c.cases : c.cases[d].dest \in DOMAIN e.blocks
           /\ c.k = "stackaddr" => c.id \in e.slots
           /\ c.k = "dataaddr" => c.id \in DOMAIN g.datas
           /\ c.k = "constint" => ConstBits(c.ty, c.lit) # None
           /\ c.k = "constfloat" => c.ty = "f64" /\ c.lit # None
           /\ c.k \in Calls => Callable(c, g)
           /\ c.k = "switch" => e.values[c.uses[1]] = ClifType(c.ty) /\ CasesDistinct(c)
    BY Zenon DEF Found
  <2>. QED BY <2>1, <2>2, <2>5, <2>6, <2>7, <2>8, <2>9, <2>10, <2>11 DEF c
<1>. QED BY <1>4, <1>5

(* The type the lowerer gives a name is the one the rules say. *)
LEMMA TypesExact ==
  ASSUME NEW p, WellShaped(p), NEW g, TablesAre(p, g), NEW q, BodyIn(p, q),
         NEW params, List(params), NEW i \in 1..Len(q), NEW e, LowerHold(p, q, params, i - 1, e),
         Allowed(q[i], e, g, params), BodyHere(p, q, params, i), NEW d \in DOMAIN q[i].dsts
  PROVE  NewType(q[i], e, g, params, d) = GivenTypes(p, q, params)[i][q[i].dsts[d]]
<1>. DEFINE c == q[i]
            G == GivenTypes(p, q, params)
            name == c.dsts[d]
            of(x) == G[Binder(q, i, x)][x]
<1>0. Len(q) \in Nat /\ DOMAIN q = 1..Len(q) /\ i \in DOMAIN q /\ i \in Nat /\ i > 0 /\ (i - 1) + 1 = i
  BY ListFacts DEF BodyIn
<1>1. Shaped(c)
  BY <1>0 DEF BodyIn, WellShaped
<1>2. ~Declares(c)
  <2>1. SUFFICES ASSUME Declares(c) PROVE FALSE
    OBVIOUS
  <2>2. c.dsts = <<>>
    BY <1>1, <2>1, DeclaresNothing
  <2>. QED BY <2>2
<1>3. Found(c, e, g) /\ (c.k # "alias" => Fresh(c, e)) /\ ~Outside(c)
  BY <1>2 DEF Allowed
<1>4. \A x \in DOMAIN e.values : e.values[x] = of(x)
  BY <1>0 DEF LowerHold, NamesAre, TypeAt
<1>5. \A u \in DOMAIN c.uses : e.values[c.uses[u]] = of(c.uses[u])
  BY <1>3, <1>4 DEF Found
<1>6. G[i][name] =
        CASE c.k \in {"compare", "constbool"} -> "I8"
          [] c.k \in {"constint", "constfloat", "convert", "blockparam"} -> ClifType(c.ty)
          [] c.k \in {"compute", "alias"} -> of(c.uses[1])
          [] c.k = "select" -> of(c.uses[2])
          [] c.k = "callvalue" -> ClifType(The(p, "createsig", c.sig).results[1])
          [] c.k = "bindentry" -> ParamTypes(q, params, c.dests[1])[i][CHOOSE d2 \in DOMAIN c.dsts : c.dsts[d2] = name]
          [] OTHER -> "I64"
  <2>1. G[i] = GivenHere(G, p, q, params, i)
    BY <1>0, GivenDef
  <2>2. name \in {c.dsts[d2] : d2 \in DOMAIN c.dsts}
    OBVIOUS
  <2>. HIDE DEF G, name
  <2>. QED BY <2>1, <2>2 DEF GivenHere
<1>7. ASSUME List(c.uses), c.uses # <<>> PROVE 1 \in DOMAIN c.uses
  <2>1. c.uses \in Seq({c.uses[u] : u \in DOMAIN c.uses}) /\ DOMAIN c.uses = 1..Len(c.uses) /\ Len(c.uses) \in Nat
    BY <1>7, ListFacts
  <2>. QED BY <1>7, <2>1
<1>8. List(c.uses)
  BY <1>1 DEF Shaped
<1>. HIDE DEF G, name, of
<1>9. CASE c.k = "bindentry"
  <2>1. Len(c.dests) = 1 /\ List(c.dests)
    BY <1>1, <1>9 DEF Shaped
  <2>2. c.dests \in Seq({c.dests[x] : x \in DOMAIN c.dests}) /\ DOMAIN c.dests = 1..1
    BY <2>1, ListFacts
  <2>3. c.dests = <<c.dests[1]>> /\ 1 \in DOMAIN c.dests
    BY <2>1, <2>2
  <2>4. c.dests[1] \in DOMAIN e.blocks
    BY <1>3, <2>3 DEF Found
  <2>5. e.blocks[c.dests[1]] = ParamTypes(q, params, c.dests[1])[i - 1]
    BY <2>4 DEF LowerHold, BlocksAre
  <2>6. ParamTypes(q, params, c.dests[1])[i] = ParamStep(ParamTypes(q, params, c.dests[1])[i - 1], c, params, c.dests[1])
    BY <1>0, ParamTypesDef
  <2>7. ParamsOf(c, params, c.dests[1]) = params
    BY <1>9, <2>3 DEF ParamsOf
  <2>8. e.blocks[c.dests[1]] \o params = ParamTypes(q, params, c.dests[1])[i]
    BY <2>5, <2>6, <2>7 DEF ParamStep
  <2>9. (CHOOSE d2 \in DOMAIN c.dsts : c.dsts[d2] = name) = d
    <3>1. \A d2 \in DOMAIN c.dsts : c.dsts[d2] = name <=> d2 = d
      BY <1>3, <1>9 DEF Fresh, name
    <3>2. \E d2 \in DOMAIN c.dsts : c.dsts[d2] = name
      BY DEF name
    <3>. QED BY <3>1, <3>2
  <2>10. G[i][name] = ParamTypes(q, params, c.dests[1])[i][d]
    BY <1>6, <1>9, <2>9
  <2>. QED BY <1>9, <2>8, <2>10 DEF NewType, G, name
<1>10. CASE c.k \in {"compute", "alias"}
  <2>1. c.uses # <<>>
    BY <1>1, <1>10 DEF Shaped
  <2>2. e.values[c.uses[1]] = of(c.uses[1])
    BY <1>5, <1>7, <1>8, <2>1
  <2>3. G[i][name] = of(c.uses[1])
    BY <1>6, <1>10
  <2>4. NewType(c, e, g, params, d) = e.values[c.uses[1]]
    BY <1>10 DEF NewType, ResultType
  <2>. QED BY <2>2, <2>3, <2>4 DEF G, name
<1>11. CASE c.k = "select"
  <2>1. Len(c.uses) = 3
    BY <1>1, <1>11 DEF Shaped
  <2>2. 2 \in DOMAIN c.uses
    BY <1>8, <2>1, ListFacts
  <2>3. e.values[c.uses[2]] = of(c.uses[2])
    BY <1>5, <2>2
  <2>4. G[i][name] = of(c.uses[2])
    BY <1>6, <1>11
  <2>5. NewType(c, e, g, params, d) = e.values[c.uses[2]]
    BY <1>11 DEF NewType, ResultType
  <2>. QED BY <2>3, <2>4, <2>5 DEF G, name
<1>12. CASE c.k = "callvalue"
  <2>1. c.sig \in Ids(p, "createsig") /\ Len(The(p, "createsig", c.sig).results) = 1
    BY <1>12 DEF BodyHere, CallHere, Calls
  <2>2. g.sigs[c.sig] = Signature(The(p, "createsig", c.sig))
    BY <2>1 DEF TablesAre
  <2>3. Shaped(The(p, "createsig", c.sig))
    BY <2>1, TheFacts DEF WellShaped
  <2>4. 1 \in DOMAIN The(p, "createsig", c.sig).results
    BY <2>1, <2>3, ListFacts DEF Shaped
  <2>5. g.sigs[c.sig].results[1] = ClifType(The(p, "createsig", c.sig).results[1])
    BY <2>2, <2>4 DEF Signature
  <2>6. G[i][name] = ClifType(The(p, "createsig", c.sig).results[1])
    BY <1>6, <1>12
  <2>7. NewType(c, e, g, params, d) = g.sigs[c.sig].results[1]
    BY <1>12 DEF NewType, ResultType
  <2>. QED BY <2>5, <2>6, <2>7 DEF G, name
<1>13. CASE c.k \notin {"bindentry", "compute", "alias", "select", "callvalue"}
  <2>1. NewType(c, e, g, params, d) =
          CASE c.k \in {"compare", "constbool"} -> "I8"
            [] c.k \in {"constint", "constfloat", "convert", "blockparam"} -> ClifType(c.ty)
            [] OTHER -> "I64"
    BY <1>13 DEF NewType, ResultType
  <2>2. G[i][name] =
          CASE c.k \in {"compare", "constbool"} -> "I8"
            [] c.k \in {"constint", "constfloat", "convert", "blockparam"} -> ClifType(c.ty)
            [] OTHER -> "I64"
    BY <1>6, <1>13
  <2>. QED BY <2>1, <2>2 DEF G, name
<1>. QED BY <1>9, <1>10, <1>11, <1>12, <1>13

(* The names and their types after one more command. *)
LEMMA NamesStep ==
  ASSUME NEW p, WellShaped(p), NEW g, TablesAre(p, g), NEW q, BodyIn(p, q),
         NEW params, List(params), NEW i \in 1..Len(q), NEW e, LowerHold(p, q, params, i - 1, e),
         Allowed(q[i], e, g, params), BodyHere(p, q, params, i), NEW h, Results(q[i], e, g, params, h)
  PROVE  NamesAre(p, q, params, i, h)
<1>. DEFINE c == q[i]
<1>0. Len(q) \in Nat /\ DOMAIN q = 1..Len(q) /\ i \in DOMAIN q /\ i \in Nat /\ i > 0 /\ (i - 1) + 1 = i
  BY ListFacts DEF BodyIn
<1>1. (\A j \in 1..i : j = i \/ j \in 1..(i - 1)) /\ (\A j \in 1..(i - 1) : j \in 1..i) /\ i \in 1..i
  BY <1>0
<1>2. \A name : BindsAt(q, i, name) <=> name \in {c.dsts[d] : d \in DOMAIN c.dsts}
  BY DEF BindsAt
<1>3. /\ \A name : name \in DOMAIN e.values <=> \E j \in 1..(i - 1) : BindsAt(q, j, name)
      /\ \A name \in DOMAIN e.values : e.values[name] = TypeAt(p, q, params, i, name)
  BY <1>0 DEF LowerHold, NamesAre
<1>4. \A name : name \in DOMAIN h.values <=> \E j \in 1..i : BindsAt(q, j, name)
  BY <1>1, <1>2, <1>3 DEF Results
<1>5. ASSUME NEW name \in DOMAIN h.values PROVE h.values[name] = TypeAt(p, q, params, i + 1, name)
  <2>1. Binder(q, i + 1, name) = IF BindsAt(q, i, name) THEN i ELSE Binder(q, i, name)
    BY <1>0, BinderStep
  <2>2. CASE BindsAt(q, i, name)
    <3>1. PICK d \in DOMAIN c.dsts : name = c.dsts[d]
      BY <1>2, <2>2
    <3>2. h.values[name] = NewType(c, e, g, params, d)
      BY <3>1 DEF Results
    <3>3. NewType(c, e, g, params, d) = GivenTypes(p, q, params)[i][name]
      BY <3>1, TypesExact
    <3>4. TypeAt(p, q, params, i + 1, name) = GivenTypes(p, q, params)[i][name]
      BY <2>1, <2>2 DEF TypeAt
    <3>. QED BY <3>2, <3>3, <3>4
  <2>3. CASE ~BindsAt(q, i, name)
    <3>1. name \notin {c.dsts[d] : d \in DOMAIN c.dsts} /\ name \in DOMAIN e.values
      BY <1>2, <2>3 DEF Results
    <3>2. h.values[name] = e.values[name]
      BY <3>1 DEF Results
    <3>3. TypeAt(p, q, params, i + 1, name) = TypeAt(p, q, params, i, name)
      BY <2>1, <2>3 DEF TypeAt
    <3>. QED BY <1>3, <3>1, <3>2, <3>3
  <2>. QED BY <2>2, <2>3
<1>. QED BY <1>4, <1>5 DEF NamesAre

(* The blocks and their parameters after one more command. *)
LEMMA BlocksStep ==
  ASSUME NEW p, WellShaped(p), NEW g, NEW q, BodyIn(p, q),
         NEW params, List(params), NEW i \in 1..Len(q), NEW e, BlocksAre(q, params, i - 1, e),
         Allowed(q[i], e, g, params), NEW h, Blocks(q[i], e, params, h)
  PROVE  BlocksAre(q, params, i, h)
<1>. DEFINE c == q[i]
            P(x) == ParamTypes(q, params, x)
<1>0. Len(q) \in Nat /\ DOMAIN q = 1..Len(q) /\ i \in DOMAIN q /\ i \in Nat /\ i > 0 /\ (i - 1) + 1 = i /\ (i + 1) - 1 = i
  BY ListFacts DEF BodyIn
<1>1. (\A j \in 1..i : j = i \/ j \in 1..(i - 1)) /\ (\A j \in 1..(i - 1) : j \in 1..i) /\ i \in 1..i
  BY <1>0
<1>2. Shaped(c)
  BY <1>0 DEF BodyIn, WellShaped
<1>3. \A x : x \in DOMAIN e.blocks <=> Before(q, i, "createblock", x)
  BY <1>0 DEF BlocksAre
<1>4. \A x : Before(q, i + 1, "createblock", x) <=> Before(q, i, "createblock", x) \/ (c.k = "createblock" /\ c.id = x)
  BY <1>0, <1>1 DEF Before
<1>5. \A x : x \in DOMAIN h.blocks <=> Before(q, i + 1, "createblock", x)
  BY <1>3, <1>4 DEF Blocks
<1>6. \A x : P(x)[i] = ParamStep(P(x)[i - 1], c, params, x)
  BY <1>0, ParamTypesDef
<1>7. ASSUME NEW x, x \notin DOMAIN e.blocks PROVE P(x)[i] = <<>>
  <2>1. P(x)[i - 1] = <<>>
    BY <1>7 DEF BlocksAre
  <2>2. ParamsOf(c, params, x) = <<>>
    <3>1. CASE Declares(c)
      <4>1. c.k \notin {"bindentry", "blockparam"}
        BY <1>2, <3>1, DeclaresNothing
      <4>. QED BY <4>1 DEF ParamsOf
    <3>2. CASE ~Declares(c)
      <4>1. c.dests # <<x>>
        <5>1. SUFFICES ASSUME c.dests = <<x>> PROVE FALSE
          OBVIOUS
        <5>2. 1 \in DOMAIN c.dests /\ c.dests[1] = x
          BY <5>1
        <5>3. Found(c, e, g)
          BY <3>2 DEF Allowed
        <5>. QED BY <1>7, <5>2, <5>3 DEF Found
      <4>. QED BY <4>1 DEF ParamsOf
    <3>. QED BY <3>1, <3>2
  <2>3. <<>> \o <<>> = <<>>
    OBVIOUS
  <2>. QED BY <1>6, <2>1, <2>2, <2>3 DEF ParamStep
<1>8. ASSUME NEW x, x \in DOMAIN e.blocks PROVE h.blocks[x] = P(x)[i]
  <2>1. e.blocks[x] = P(x)[i - 1]
    BY <1>8 DEF BlocksAre
  <2>2. h.blocks[x] = ParamStep(e.blocks[x], c, params, x)
    BY <1>8 DEF Blocks
  <2>. QED BY <1>6, <2>1, <2>2
<1>. HIDE DEF P
<1>9. ASSUME NEW x PROVE IF x \in DOMAIN h.blocks THEN h.blocks[x] = P(x)[i] ELSE P(x)[i] = <<>>
  <2>1. CASE x \in DOMAIN e.blocks
    <3>1. x \in DOMAIN h.blocks
      BY <2>1 DEF Blocks
    <3>. QED BY <1>8, <2>1, <3>1
  <2>2. CASE x \notin DOMAIN e.blocks
    <3>1. x \in DOMAIN h.blocks => c.k = "createblock" /\ x = c.id
      BY <2>2 DEF Blocks
    <3>2. x \in DOMAIN h.blocks => h.blocks[x] = <<>>
      BY <3>1 DEF Blocks
    <3>. QED BY <1>7, <2>2, <3>2
  <2>. QED BY <2>1, <2>2
<1>. QED BY <1>5, <1>9 DEF BlocksAre, P

(* Slots, the block instructions go to, externs and tables after one more   *)
(* command.                                                                 *)
LEMMA RestStep ==
  ASSUME NEW q, NEW i \in Nat, i > 0, NEW e, RestAre(q, i - 1, e), NEW h, Rest(q[i], e, h)
  PROVE  RestAre(q, i, h)
<1>0. (i - 1) + 1 = i /\ (i + 1) - 1 = i
  OBVIOUS
<1>1. (\A j \in 1..i : j = i \/ j \in 1..(i - 1)) /\ (\A j \in 1..(i - 1) : j \in 1..i) /\ i \in 1..i
  OBVIOUS
<1>2. \A x : x \in h.slots <=> Before(q, i + 1, "slot", x)
  <2>1. \A x : x \in e.slots <=> Before(q, i, "slot", x)
    BY <1>0 DEF RestAre
  <2>2. \A x : Before(q, i + 1, "slot", x) <=> Before(q, i, "slot", x) \/ (q[i].k = "slot" /\ q[i].id = x)
    BY <1>0, <1>1 DEF Before
  <2>. QED BY <2>1, <2>2 DEF Rest
<1>3. h.placed \in BOOLEAN /\ (h.placed <=> \E j \in 1..i : q[j].k = "switchto")
  BY <1>1 DEF Rest, RestAre
<1>4. h.externs = {q[j].id : j \in {j \in 1..i : q[j].k \in Calls /\ q[j].how = "extern"}}
  BY <1>1 DEF Rest, RestAre
<1>5. h.tables = {TableOf(q[j]) : j \in {j \in 1..i : q[j].k = "switch"}}
  BY <1>1 DEF Rest, RestAre
<1>. QED BY <1>2, <1>3, <1>4, <1>5 DEF RestAre

-----------------------------------------------------------------------------
(* A body after i commands: all of them kept the rules, or it stopped at one that did not. *)
Prefix(p, q, params, i, e) ==
  /\ LowererFields(e) /\ e.st \in {"ok", "error", "abort"}
  /\ e.st = "ok" <=> \A j \in 1..i : BodyHere(p, q, params, j)
  /\ e.st = "ok" => LowerHold(p, q, params, i, e)
  /\ e.st = "abort" => \E j \in 1..i : q[j].k \in Inserting /\ \A l \in 1..(j - 1) : q[l].k # "switchto"

(* A body after i commands (lib.rs 856-950): lowered when all of them kept  *)
(* the rules, and the lowerer knows then the names, types, blocks, slots,   *)
(* externs and tables they make; otherwise stopped at one that did not.     *)
THEOREM PrefixHolds ==
  ASSUME NEW p, WellShaped(p), DeclarationRules(p), NEW g, TablesAre(p, g), NEW q, BodyIn(p, q), NEW params, List(params)
  PROVE  \A i \in 0..Len(q) : Prefix(p, q, params, i, Lowered(q, g, params)[i])
<1>. DEFINE L == Lowered(q, g, params)
            S == {i \in Nat : i <= Len(q) => Prefix(p, q, params, i, L[i])}
<1>0. Len(q) \in Nat /\ DOMAIN q = 1..Len(q) /\ List(q)
  BY ListFacts DEF BodyIn
<1>1. L[0] = Lowerer /\ \A i \in 1..Len(q) : L[i] = LowerCmd(q[i], L[i - 1], g, params)
  BY <1>0, LoweredDef
<1>. HIDE DEF L
<1>2. 0 \in S
  <2>. DEFINE e == Lowerer
  <2>1. /\ LowererFields(e) /\ e.st = "ok" /\ DOMAIN e.values = {} /\ DOMAIN e.blocks = {} /\ e.slots = {}
        /\ e.placed = FALSE /\ e.externs = {} /\ e.tables = {}
    BY DEF Lowerer, LowererFields
  <2>. HIDE DEF e
  <2>2. \A j \in 1..0 : FALSE
    OBVIOUS
  <2>3. NamesAre(p, q, params, 0, e)
    BY <2>1, <2>2 DEF NamesAre
  <2>4. \A k, x : ~Before(q, 0 + 1, k, x)
    BY DEF Before
  <2>5. \A x : ParamTypes(q, params, x)[0] = <<>>
    BY <1>0, ParamTypesDef
  <2>6. BlocksAre(q, params, 0, e)
    BY <2>1, <2>4, <2>5 DEF BlocksAre
  <2>7. RestAre(q, 0, e)
    BY <2>1, <2>2, <2>4 DEF RestAre
  <2>8. Prefix(p, q, params, 0, e)
    BY <2>1, <2>2, <2>3, <2>6, <2>7 DEF Prefix, LowerHold
  <2>. QED BY <1>1, <2>8 DEF e
<1>3. ASSUME NEW m \in Nat, m \in S PROVE m + 1 \in S
  <2>0. SUFFICES ASSUME m + 1 <= Len(q) PROVE Prefix(p, q, params, m + 1, L[m + 1])
    OBVIOUS
  <2>. DEFINE i == m + 1
              e == L[m]
              h == L[i]
  <2>1. i \in 1..Len(q) /\ i - 1 = m /\ m <= Len(q) /\ i \in Nat /\ i > 0 /\ m \in 0..Len(q)
    BY <1>0, <2>0
  <2>2. Prefix(p, q, params, i - 1, e) /\ h = LowerCmd(q[i], e, g, params)
    BY <1>1, <1>3, <2>1
  <2>3. Shaped(q[i])
    BY <1>0, <2>1 DEF BodyIn, WellShaped
  <2>. HIDE DEF e, h, i
  <2>4. (\A j \in 1..i : j = i \/ j \in 1..(i - 1)) /\ (\A j \in 1..(i - 1) : j \in 1..i) /\ i \in 1..i
    BY <2>1
  <2>5. CASE e.st # "ok"
    <3>1. h = e
      BY <2>2, <2>5 DEF LowerCmd
    <3>2. ~(\A j \in 1..(i - 1) : BodyHere(p, q, params, j))
      BY <2>2, <2>5 DEF Prefix
    <3>3. ~(\A j \in 1..i : BodyHere(p, q, params, j))
      BY <2>4, <3>2
    <3>4. Prefix(p, q, params, i, e)
      BY <2>2, <2>4, <2>5, <3>3 DEF Prefix
    <3>. QED BY <3>1, <3>4 DEF h, i
  <2>6. CASE e.st = "ok"
    <3>1. LowerHold(p, q, params, i - 1, e) /\ \A j \in 1..(i - 1) : BodyHere(p, q, params, j)
      BY <2>2, <2>6 DEF Prefix
    <3>2. Sound(e)
      <4>1. \A x \in DOMAIN e.blocks : e.blocks[x] = ParamTypes(q, params, x)[i - 1]
        BY <3>1 DEF LowerHold, BlocksAre
      <4>2. i - 1 \in 0..Len(q)
        BY <2>1
      <4>3. \A x : List(ParamTypes(q, params, x)[i - 1])
        BY <1>0, <4>2, ParamTypesList
      <4>. QED BY <3>1, <4>1, <4>3 DEF Sound, LowerHold, RestAre
    <3>3. LowerStep(q[i], e, g, params, h)
      BY <2>2, <2>3, <2>6, <3>2, LowerCmdFacts
    <3>4. Allowed(q[i], e, g, params) <=> BodyHere(p, q, params, i)
      BY <2>1, <3>1, AllowedExact
    <3>5. h.st = "ok" <=> \A j \in 1..i : BodyHere(p, q, params, j)
      BY <2>4, <3>1, <3>3, <3>4 DEF LowerStep
    <3>6. ASSUME h.st = "ok" PROVE LowerHold(p, q, params, i, h)
      <4>1. Allowed(q[i], e, g, params) /\ BodyHere(p, q, params, i) /\ LowererFields(h)
            /\ Results(q[i], e, g, params, h) /\ Blocks(q[i], e, params, h) /\ Rest(q[i], e, h)
        BY <3>3, <3>4, <3>6 DEF LowerStep, LowerDone
      <4>2. NamesAre(p, q, params, i, h)
        BY <2>1, <3>1, <4>1, NamesStep
      <4>3. BlocksAre(q, params, i, h)
        BY <2>1, <3>1, <4>1, BlocksStep DEF LowerHold
      <4>4. RestAre(q, i, h)
        BY <2>1, <3>1, <4>1, RestStep DEF LowerHold
      <4>. QED BY <4>1, <4>2, <4>3, <4>4 DEF LowerHold
    <3>7. ASSUME h.st = "abort" PROVE \E j \in 1..i : q[j].k \in Inserting /\ \A l \in 1..(j - 1) : q[l].k # "switchto"
      <4>1. q[i].k \in Inserting /\ ~e.placed
        BY <3>3, <3>7 DEF LowerStep
      <4>2. e.placed <=> \E j \in 1..(i - 1) : q[j].k = "switchto"
        BY <3>1 DEF LowerHold, RestAre
      <4>. QED BY <2>4, <4>1, <4>2
    <3>8. Prefix(p, q, params, i, h)
      BY <3>3, <3>5, <3>6, <3>7 DEF Prefix, LowerStep
    <3>. QED BY <3>8 DEF h, i
  <2>. QED BY <2>5, <2>6
<1>4. Nat \subseteq S
  <2>. HIDE DEF S
  <2>. QED BY <1>2, <1>3, SetInduction
<1>. QED BY <1>0, <1>4 DEF L

-----------------------------------------------------------------------------
(* Bodies in their program *)

(* The parameters of a function, by the program. *)
ParamsFor(p, id) == Signature(The(p, "createsig", The(p, "declarefunc", id).sig)).params

(* The commands of a body, by their place in the program. *)
LEMMA BodyFacts ==
  ASSUME NEW p, List(p), Nested(p), NEW b \in Begins(p)
  PROVE  /\ BodyIn(p, BodyOf(p, b)) /\ b \in 1..Len(p) /\ EndOf(p, b) \in (b + 1)..Len(p)
         /\ Len(BodyOf(p, b)) = EndOf(p, b) - 1 - b
         /\ \A i \in 1..(EndOf(p, b) - 1 - b) : BodyOf(p, b)[i] = p[b + i]
<1>. DEFINE e == EndOf(p, b)
            q == BodyOf(p, b)
<1>1. Len(p) \in Nat /\ DOMAIN p = 1..Len(p) /\ b \in 1..Len(p) /\ b \in DOMAIN p
  BY ListFacts, BeginFacts
<1>2. e \in DOMAIN p
  BY DEF Nested
<1>3. e \in (b + 1)..(Len(p) + 1) /\ \A j \in (b + 1)..(e - 1) : p[j].k \notin {"begin", "finish"}
  BY <1>1, EndFacts
<1>4. q = SubSeq(p, b + 1, e - 1)
  BY DEF BodyOf
<1>. HIDE DEF e, q
<1>5. e \in (b + 1)..Len(p) /\ b + 1 \in Nat /\ e - 1 \in Nat /\ b + 1 >= 1 /\ e - 1 <= Len(p) /\ b + 1 <= (e - 1) + 1
  BY <1>1, <1>2, <1>3
<1>6. List(q) /\ Len(q) = (e - 1) + 1 - (b + 1) /\ \A i \in 1..((e - 1) + 1 - (b + 1)) : q[i] = p[i + ((b + 1) - 1)]
  BY <1>4, <1>5, PartFacts
<1>7. Len(q) = e - 1 - b /\ \A i \in 1..(e - 1 - b) : q[i] = p[b + i] /\ b + i \in (b + 1)..(e - 1) /\ b + i \in 1..Len(p)
  <2>1. (e - 1) + 1 - (b + 1) = e - 1 - b
    BY <1>1, <1>5
  <2>2. Len(q) = e - 1 - b /\ \A i \in 1..(e - 1 - b) : q[i] = p[i + ((b + 1) - 1)]
    BY <1>6, <2>1
  <2>3. \A i \in 1..(e - 1 - b) : i + ((b + 1) - 1) = b + i /\ b + i \in (b + 1)..(e - 1) /\ b + i \in 1..Len(p)
    BY <1>1, <1>5
  <2>. QED BY <2>2, <2>3
<1>8. DOMAIN q = 1..(e - 1 - b)
  BY <1>6, <1>7, ListFacts
<1>9. BodyIn(p, q)
  BY <1>1, <1>3, <1>6, <1>7, <1>8 DEF BodyIn
<1>. QED BY <1>1, <1>5, <1>7, <1>9 DEF e, q

(* The parameters of a signature are a list. *)
LEMMA SignatureFacts ==
  ASSUME NEW c, Shaped(c)
  PROVE  List(Signature(c).params)
<1>. DEFINE f == [i \in DOMAIN c.params |-> ClifType(c.params[i])]
<1>1. List(c.params)
  BY DEF Shaped
<1>2. Len(c.params) \in Nat /\ DOMAIN c.params = 1..Len(c.params)
  BY <1>1, ListFacts
<1>3. f = [i \in 1..Len(c.params) |-> f[i]]
  BY <1>2
<1>4. Signature(c).params = f
  BY DEF Signature
<1>. HIDE DEF f
<1>5. List(f)
  BY <1>2, <1>3, ListOfFunction
<1>. QED BY <1>4, <1>5

(* The parameters a function is lowered with are those of its signature. *)
LEMMA ParamsFacts ==
  ASSUME NEW p, WellShaped(p), DeclarationRules(p), NEW g, TablesAre(p, g), NEW id \in Ids(p, "declarefunc")
  PROVE  id \in DOMAIN g.funcs /\ g.sigs[g.funcs[id].sig].params = ParamsFor(p, id) /\ List(ParamsFor(p, id))
<1>. DEFINE c == The(p, "declarefunc", id)
            s == The(p, "createsig", c.sig)
<1>1. PICK i \in DOMAIN p : p[i].k = "declarefunc" /\ p[i].id = id /\ c = p[i]
  BY TheFacts
<1>2. id \in DOMAIN g.funcs /\ g.funcs[id] = FuncDecl(c) /\ c.sig \in DOMAIN g.sigs
  BY <1>1, DeclaredFacts
<1>3. c.sig \in Ids(p, "createsig") /\ g.sigs[c.sig] = Signature(s)
  BY <1>2 DEF TablesAre
<1>4. g.funcs[id].sig = c.sig
  BY <1>2 DEF FuncDecl
<1>5. PICK j \in DOMAIN p : s = p[j]
  BY <1>3, TheFacts
<1>6. List(Signature(s).params)
  BY <1>5, SignatureFacts DEF WellShaped
<1>7. ParamsFor(p, id) = Signature(s).params
  BY DEF ParamsFor
<1>. QED BY <1>2, <1>3, <1>4, <1>6, <1>7

(* A body keeps the rules. *)
BodyFits(p, b) == p[b].id \in Ids(p, "declarefunc") /\ BodyRules(p, BodyOf(p, b), ParamsFor(p, p[b].id))

(* An instruction with no block to go to. *)
Unplaced(q, i) == q[i].k \in Inserting /\ \A j \in 1..(i - 1) : q[j].k # "switchto"

(* The externs a body calls and the jump tables it makes. *)
ExternsOf(q) == {q[i].id : i \in {i \in DOMAIN q : q[i].k \in Calls /\ q[i].how = "extern"}}
TablesOf(q) == {TableOf(q[i]) : i \in {i \in DOMAIN q : q[i].k = "switch"}}

(* A body is lowered exactly when its function is declared and it keeps the *)
(* rules; only an instruction without a block to go to is a panic.          *)
LEMMA DefineExact ==
  ASSUME NEW p, WellShaped(p), DeclarationRules(p), Nested(p), NEW g, TablesAre(p, g), NEW b \in Begins(p),
         NEW e, e = DefineBody(Body(p, b), g)
  PROVE  /\ e.st \in {"ok", "error", "abort"}
         /\ e.st = "ok" <=> BodyFits(p, b)
         /\ e.st = "abort" => \E i \in DOMAIN BodyOf(p, b) : Unplaced(BodyOf(p, b), i)
         /\ e.st = "ok" => e.externs = ExternsOf(BodyOf(p, b)) /\ e.tables = TablesOf(BodyOf(p, b))
<1>. DEFINE q == BodyOf(p, b)
            id == p[b].id
            params == ParamsFor(p, id)
<1>1. List(p) /\ Body(p, b).id = id /\ Body(p, b).cmds = q
  BY DEF WellShaped, Body
<1>2. BodyIn(p, q) /\ List(q)
  BY <1>1, BodyFacts DEF BodyIn
<1>3. DOMAIN g.funcs = Ids(p, "declarefunc")
  BY DEF TablesAre
<1>4. e = IF id \notin Ids(p, "declarefunc") THEN Ends(Lowerer, "error")
          ELSE Lowered(q, g, g.sigs[g.funcs[id].sig].params)[Len(q)]
  BY <1>1, <1>3 DEF DefineBody
<1>. HIDE DEF q, id
<1>5. CASE id \notin Ids(p, "declarefunc")
  <2>1. e.st = "error"
    BY <1>4, <1>5, EndsFacts DEF LowererFields
  <2>. QED BY <1>5, <2>1 DEF BodyFits, id
<1>6. CASE id \in Ids(p, "declarefunc")
  <2>1. List(params) /\ g.sigs[g.funcs[id].sig].params = params
    BY <1>6, ParamsFacts
  <2>. HIDE DEF params
  <2>2. Len(q) \in Nat /\ DOMAIN q = 1..Len(q)
    BY <1>2, ListFacts
  <2>3. e = Lowered(q, g, params)[Len(q)] /\ Len(q) \in 0..Len(q)
    BY <1>4, <1>6, <2>1, <2>2
  <2>4. Prefix(p, q, params, Len(q), e)
    BY <1>2, <2>1, <2>3, PrefixHolds
  <2>5. e.st = "ok" <=> BodyRules(p, q, params)
    BY <2>2, <2>4, BodyRulesHere DEF Prefix
  <2>6. e.st = "abort" => \E i \in DOMAIN q : Unplaced(q, i)
    BY <2>2, <2>4 DEF Prefix, Unplaced
  <2>7. e.st = "ok" => e.externs = ExternsOf(q) /\ e.tables = TablesOf(q)
    BY <2>2, <2>4 DEF Prefix, LowerHold, RestAre, ExternsOf, TablesOf
  <2>8. BodyFits(p, b) <=> BodyRules(p, q, params)
    BY <1>6 DEF BodyFits, params, id, q
  <2>. QED BY <2>4, <2>5, <2>6, <2>7, <2>8 DEF q, Prefix
<1>. QED BY <1>5, <1>6

(* The rules of nesting: those of collect, and two that the lowering        *)
(* establishes.                                                             *)
LEMMA NestingExact ==
  ASSUME NEW p, WellShaped(p)
  PROVE  NestingRules(p) <=>
           /\ Nested(p) /\ Ids(p, "declarefunc") = {p[b].id : b \in Begins(p)}
           /\ \A b \in Begins(p) : \A i \in DOMAIN BodyOf(p, b) : BodyOf(p, b)[i].k \notin DataInits \cup {"finalize"}
<1>. DEFINE Out == \A i \in DOMAIN p : p[i].k \in DataInits \cup {"finalize"} => ~Inside(p, i)
            Clean == \A b \in Begins(p) : \A i \in DOMAIN BodyOf(p, b) : BodyOf(p, b)[i].k \notin DataInits \cup {"finalize"}
            Same == Ids(p, "declarefunc") = {p[b].id : b \in Begins(p)}
<1>0. List(p) /\ Len(p) \in Nat /\ DOMAIN p = 1..Len(p)
  BY ListFacts DEF WellShaped
<1>1. NestingRules(p) <=> Nested(p) /\ Out /\ Same
  <2>. HIDE DEF Same
  <2>1. NestingRules(p) <=>
         /\ \A b \in Begins(p) :
             /\ EndOf(p, b) \in DOMAIN p
             /\ p[EndOf(p, b)].k = "finish" /\ p[EndOf(p, b)].id = p[b].id
             /\ \A c \in Begins(p) : p[b].id = p[c].id => b = c
         /\ \A i \in DOMAIN p : p[i].k = "finish" => \E b \in Begins(p) : EndOf(p, b) = i
         /\ \A i \in DOMAIN p : p[i].k \notin TopLevel \cup {"begin", "finish"} => Inside(p, i)
         /\ Out /\ Same
    BY Zenon DEF NestingRules, Same
  <2>. HIDE DEF Out
  <2>. QED BY <2>1, Zenon DEF Nested
<1>2. ASSUME Nested(p) PROVE Out <=> Clean
  <2>1. ASSUME NEW b \in Begins(p)
        PROVE  /\ b \in Nat /\ EndOf(p, b) \in Nat /\ EndOf(p, b) <= Len(p) /\ b >= 1
               /\ DOMAIN BodyOf(p, b) = 1..(EndOf(p, b) - 1 - b)
               /\ \A i \in 1..(EndOf(p, b) - 1 - b) : BodyOf(p, b)[i] = p[b + i]
    <3>1. /\ BodyIn(p, BodyOf(p, b)) /\ b \in 1..Len(p) /\ EndOf(p, b) \in (b + 1)..Len(p)
          /\ Len(BodyOf(p, b)) = EndOf(p, b) - 1 - b
          /\ \A i \in 1..(EndOf(p, b) - 1 - b) : BodyOf(p, b)[i] = p[b + i]
      BY <1>0, <1>2, BodyFacts
    <3>2. DOMAIN BodyOf(p, b) = 1..Len(BodyOf(p, b))
      BY <3>1, ListFacts DEF BodyIn
    <3>. QED BY <1>0, <3>1, <3>2
  <2>2. ASSUME Out PROVE Clean
    <3>. SUFFICES ASSUME NEW b \in Begins(p), NEW i \in DOMAIN BodyOf(p, b)
                  PROVE  BodyOf(p, b)[i].k \notin DataInits \cup {"finalize"}
      OBVIOUS
    <3>1. i \in 1..(EndOf(p, b) - 1 - b) /\ BodyOf(p, b)[i] = p[b + i]
      BY <2>1
    <3>2. b + i \in 1..Len(p) /\ b < b + i /\ b + i < EndOf(p, b)
      BY <1>0, <2>1, <3>1
    <3>3. Inside(p, b + i)
      BY <3>2 DEF Inside
    <3>. QED BY <1>0, <2>2, <3>1, <3>2, <3>3
  <2>3. ASSUME Clean PROVE Out
    <3>. SUFFICES ASSUME NEW i \in DOMAIN p, p[i].k \in DataInits \cup {"finalize"}, Inside(p, i)
                  PROVE  FALSE
      OBVIOUS
    <3>1. PICK b \in Begins(p) : b < i /\ i < EndOf(p, b)
      BY DEF Inside
    <3>2. i - b \in 1..(EndOf(p, b) - 1 - b) /\ b + (i - b) = i
      BY <1>0, <2>1, <3>1
    <3>3. i - b \in DOMAIN BodyOf(p, b) /\ BodyOf(p, b)[i - b] = p[i]
      BY <2>1, <3>2
    <3>. QED BY <2>3, <3>3
  <2>. HIDE DEF Out, Clean
  <2>. QED BY <2>2, <2>3
<1>. HIDE DEF Out, Clean, Same
<1>3. NestingRules(p) <=> Nested(p) /\ Clean /\ Same
  BY <1>1, <1>2
<1>. QED BY <1>3 DEF Clean, Same

-----------------------------------------------------------------------------
(* The passes of compile *)

(* The passes over the whole program. *)
Front(p) == DefineData(DeclareAll(Collect(p)))

(* When they let it through. *)
FrontFits(p) == CollectFits(p) /\ SymbolDecls(p) /\ DataRules(p)

(* What they have then. *)
FrontHold(p, g) ==
  /\ Fields(g) /\ TablesAre(p, g) /\ DataHold(p, Len(p), g.inits)
  /\ Len(g.bodies) \in Nat /\ DOMAIN g.bodies = 1..Len(g.bodies)
  /\ \A b \in Begins(p) : Count(p, b) \in DOMAIN g.bodies /\ g.bodies[Count(p, b)] = Body(p, b)
  /\ \A m \in DOMAIN g.bodies : \E b \in Begins(p) : m = Count(p, b)
  /\ HasBody(g) = {p[b].id : b \in Begins(p)}

(* The passes over the whole program let through exactly what keeps the     *)
(* rules of declarations, nesting, symbols and data.                        *)
LEMMA FrontExact ==
  ASSUME NEW p, WellShaped(p), NEW g, g = Front(p)
  PROVE  /\ g.st \in {"ok", "error"}
         /\ g.st = "ok" <=> FrontFits(p)
         /\ g.st = "ok" => FrontHold(p, g)
<1>. DEFINE c == Collect(p)
            d == DeclareAll(c)
<1>0. List(p) /\ Len(p) \in Nat /\ Len(p) \in 0..Len(p) /\ DOMAIN p = 1..Len(p)
  BY ListFacts DEF WellShaped
<1>1. /\ Fields(c) /\ c.st \in {"ok", "error"} /\ (c.st = "ok" <=> CollectFits(p))
      /\ c.st = "ok" => /\ c = Collected(p)[Len(p)] /\ TablesHold(p, Len(p), c) /\ BodiesHold(p, Len(p), c)
                        /\ OpenAt(p, Len(p)) = {} /\ HasBody(c) = {p[b].id : b \in Begins(p)}
  BY CollectExact
<1>2. g = DefineData(d)
  BY DEF Front
<1>3. d \in {c, Refuse(c)}
  BY Zenon DEF DeclareAll
<1>4. g \in {d, Refuse(d)}
  BY <1>2, Zenon DEF DefineData
<1>. HIDE DEF c
<1>5. Refuse(c).st = "error" /\ Fields(Refuse(c)) /\ c.st \in {"ok", "error"}
  BY <1>1, RefuseFacts
<1>6. d.st \in {"ok", "error"} /\ Fields(d) /\ (d = Refuse(c) => d.st = "error") /\ (d.st = "ok" => d = c /\ c.st = "ok")
  BY <1>1, <1>3, <1>5
<1>7. Refuse(d).st = "error"
  BY <1>6, RefuseFacts
<1>8. g.st \in {"ok", "error"} /\ (g.st = "ok" => g = d /\ d = c /\ c.st = "ok")
  BY <1>4, <1>6, <1>7
<1>9. CASE c.st # "ok"
  <2>1. ~FrontFits(p) /\ g.st # "ok"
    BY <1>1, <1>8, <1>9 DEF FrontFits
  <2>. QED BY <1>8, <2>1
<1>10. CASE c.st = "ok"
  <2>1. CollectFits(p) /\ DeclarationRules(p) /\ TablesAre(p, c)
    BY <1>0, <1>1, <1>10, TablesFinal DEF CollectFits
  <2>2. DataHold(p, Len(p), c.inits)
    BY <1>0, <1>1, <1>10, DataHolds
  <2>3. (d = c \/ d = Refuse(c)) /\ (d = c <=> SymbolDecls(p))
    BY <1>1, <1>10, <2>1, DeclareExact
  <2>4. d = c => (g = c \/ g = Refuse(c)) /\ (g = c <=> DataRules(p))
    BY <1>1, <1>2, <1>10, <2>1, <2>2, DataFits
  <2>. HIDE DEF d
  <2>5. g.st = "ok" <=> FrontFits(p)
    BY <1>5, <1>8, <1>10, <2>1, <2>3, <2>4 DEF FrontFits
  <2>6. FrontHold(p, c)
    <3>1. List(c.bodies)
      BY <1>1, <1>10 DEF BodiesHold
    <3>2. Len(c.bodies) \in Nat /\ DOMAIN c.bodies = 1..Len(c.bodies)
      BY <3>1, ListFacts
    <3>3. \A b \in Begins(p) : EndOf(p, b) <= Len(p)
      BY <1>0, <2>1 DEF CollectFits, Nested
    <3>4. \A b \in Begins(p) : Count(p, b) \in DOMAIN c.bodies /\ c.bodies[Count(p, b)] = Body(p, b)
      BY <1>1, <1>10, <3>3 DEF BodiesHold
    <3>5. \A m \in DOMAIN c.bodies : \E b \in Begins(p) : m = Count(p, b)
      BY <1>1, <1>10 DEF BodiesHold
    <3>. QED BY <1>1, <1>10, <2>1, <2>2, <3>2, <3>4, <3>5 DEF FrontHold
  <2>. QED BY <1>8, <2>5, <2>6
<1>. QED BY <1>9, <1>10

(* A command stands in a body. *)
ThePlace(p, n) == \E b \in Begins(p) : \E i \in DOMAIN BodyOf(p, b) : BodyOf(p, b)[i] = p[n]

(* Instructions stand in bodies, and a body has no commands but the         *)
(* program's.                                                               *)
LEMMA InstructionsAreInside ==
  ASSUME NEW p, List(p), Nested(p)
  PROVE  /\ \A n \in DOMAIN p : p[n].k \in Inserting => ThePlace(p, n)
         /\ \A b \in Begins(p) : \A i \in DOMAIN BodyOf(p, b) : \E n \in DOMAIN p : BodyOf(p, b)[i] = p[n]
<1>1. \A b \in Begins(p) : \A i \in DOMAIN BodyOf(p, b) : \E n \in DOMAIN p : BodyOf(p, b)[i] = p[n]
  BY BodyFacts DEF BodyIn
<1>2. ASSUME NEW n \in DOMAIN p, p[n].k \in Inserting PROVE ThePlace(p, n)
  <2>1. p[n].k \notin TopLevel \cup {"begin", "finish"}
    BY <1>2 DEF Inserting, Constants, Computing, Calls, TopLevel, Declarations, DataInits
  <2>2. Inside(p, n)
    BY <2>1 DEF Nested
  <2>3. PICK b \in Begins(p) : b < n /\ n < EndOf(p, b)
    BY <2>2 DEF Inside
  <2>4. /\ BodyIn(p, BodyOf(p, b)) /\ b \in 1..Len(p) /\ EndOf(p, b) \in (b + 1)..Len(p)
        /\ Len(BodyOf(p, b)) = EndOf(p, b) - 1 - b
        /\ \A i \in 1..(EndOf(p, b) - 1 - b) : BodyOf(p, b)[i] = p[b + i]
    BY BodyFacts
  <2>5. DOMAIN BodyOf(p, b) = 1..(EndOf(p, b) - 1 - b) /\ n \in 1..Len(p) /\ Len(p) \in Nat
    BY <2>4, ListFacts DEF BodyIn
  <2>6. n - b \in 1..(EndOf(p, b) - 1 - b) /\ b + (n - b) = n
    BY <2>3, <2>4, <2>5
  <2>7. n - b \in DOMAIN BodyOf(p, b) /\ BodyOf(p, b)[n - b] = p[n]
    BY <2>4, <2>5, <2>6
  <2>. QED BY <2>7 DEF ThePlace
<1>. QED BY <1>1, <1>2

(* The externs the bodies call. *)
CalledBy(g) == UNION {DefineBody(g.bodies[i], g).externs : i \in DOMAIN g.bodies}

(* The externs the bodies call are those that a call of the program names. *)
LEMMA CalledExact ==
  ASSUME NEW p, WellShaped(p), FrontFits(p), NEW g, FrontHold(p, g), \A b \in Begins(p) : BodyFits(p, b)
  PROVE  CalledBy(g) = {p[n].id : n \in {n \in DOMAIN p : p[n].k \in Calls /\ p[n].how = "extern"}}
<1>0. List(p) /\ DeclarationRules(p) /\ Nested(p) /\ TablesAre(p, g)
  BY DEF WellShaped, FrontFits, CollectFits, FrontHold
<1>1. \A b \in Begins(p) : DefineBody(Body(p, b), g).externs = ExternsOf(BodyOf(p, b))
  BY <1>0, DefineExact
<1>2. ASSUME NEW x \in CalledBy(g)
      PROVE  \E n \in DOMAIN p : p[n].k \in Calls /\ p[n].how = "extern" /\ p[n].id = x
  <2>1. PICK m \in DOMAIN g.bodies : x \in DefineBody(g.bodies[m], g).externs
    BY <1>2 DEF CalledBy
  <2>2. PICK b \in Begins(p) : g.bodies[m] = Body(p, b)
    BY DEF FrontHold
  <2>3. x \in ExternsOf(BodyOf(p, b))
    BY <1>1, <2>1, <2>2
  <2>4. PICK i \in DOMAIN BodyOf(p, b) : BodyOf(p, b)[i].k \in Calls /\ BodyOf(p, b)[i].how = "extern" /\ BodyOf(p, b)[i].id = x
    BY <2>3 DEF ExternsOf
  <2>. QED BY <1>0, <2>4, InstructionsAreInside
<1>3. ASSUME NEW n \in DOMAIN p, p[n].k \in Calls, p[n].how = "extern"
      PROVE  p[n].id \in CalledBy(g)
  <2>1. p[n].k \in Inserting
    BY <1>3 DEF Inserting
  <2>2. PICK b \in Begins(p) : \E i \in DOMAIN BodyOf(p, b) : BodyOf(p, b)[i] = p[n]
    BY <1>0, <2>1, InstructionsAreInside DEF ThePlace
  <2>3. p[n].id \in ExternsOf(BodyOf(p, b))
    BY <1>3, <2>2 DEF ExternsOf
  <2>4. Count(p, b) \in DOMAIN g.bodies /\ g.bodies[Count(p, b)] = Body(p, b)
    BY DEF FrontHold
  <2>5. p[n].id \in DefineBody(g.bodies[Count(p, b)], g).externs
    BY <1>1, <2>3, <2>4
  <2>. QED BY <2>4, <2>5 DEF CalledBy
<1>. QED BY <1>2, <1>3

(* The module links exactly when every extern called has an address;        *)
(* otherwise some extern is declared that nobody defined.                   *)
LEMMA LinkExact ==
  ASSUME NEW p, WellShaped(p), FrontFits(p), NEW g, FrontHold(p, g), \A b \in Begins(p) : BodyFits(p, b), NEW symbols
  PROVE  /\ Linked(g, CalledBy(g), symbols) <=> SymbolCalls(p, symbols)
         /\ ~Linked(g, CalledBy(g), symbols) =>
              \E i \in DOMAIN p : p[i].k = "declareextern" /\ p[i].symbol \notin symbols \cup HostSymbols
<1>. DEFINE own == {SymbolOf(f) : f \in Ids(p, "declarefunc")}
<1>0. List(p) /\ DeclarationRules(p) /\ Nested(p) /\ TablesAre(p, g) /\ Ids(p, "declarefunc") \subseteq HasBody(g)
  BY DEF WellShaped, FrontFits, CollectFits, FrontHold
<1>1. DOMAIN g.funcs = Ids(p, "declarefunc")
  BY <1>0 DEF TablesAre
<1>2. Linked(g, CalledBy(g), symbols) <=> \A x \in CalledBy(g) : g.externs[x].symbol \in symbols \cup HostSymbols \cup own
  BY <1>0, <1>1 DEF Linked
<1>. HIDE DEF own
<1>3. ASSUME NEW n \in DOMAIN p, p[n].k \in Calls, p[n].how = "extern"
      PROVE  /\ p[n].id \in Ids(p, "declareextern") /\ g.externs[p[n].id].symbol = The(p, "declareextern", p[n].id).symbol
             /\ \E i \in DOMAIN p : p[i].k = "declareextern" /\ p[i].symbol = The(p, "declareextern", p[n].id).symbol
  <2>1. p[n].k \in Inserting
    BY <1>3 DEF Inserting
  <2>2. PICK b \in Begins(p) : \E i \in DOMAIN BodyOf(p, b) : BodyOf(p, b)[i] = p[n]
    BY <1>0, <2>1, InstructionsAreInside DEF ThePlace
  <2>3. CallRules(p, BodyOf(p, b))
    BY DEF BodyFits, BodyRules
  <2>4. p[n].id \in Ids(p, "declareextern")
    BY <1>3, <2>2, <2>3 DEF CallRules
  <2>5. g.externs[p[n].id] = ExternDecl(The(p, "declareextern", p[n].id))
    BY <1>0, <2>4 DEF TablesAre
  <2>6. \E i \in DOMAIN p : p[i].k = "declareextern" /\ The(p, "declareextern", p[n].id) = p[i]
    BY <2>4, TheFacts
  <2>. QED BY <2>4, <2>5, <2>6 DEF ExternDecl
<1>4. \A x : x \in CalledBy(g) <=> \E n \in DOMAIN p : p[n].k \in Calls /\ p[n].how = "extern" /\ p[n].id = x
  <2>1. CalledBy(g) = {p[n].id : n \in {n \in DOMAIN p : p[n].k \in Calls /\ p[n].how = "extern"}}
    BY CalledExact
  <2>. QED BY <2>1
<1>5. SymbolCalls(p, symbols) <=> \A i \in DOMAIN p : p[i].k \in Calls /\ p[i].how = "extern" =>
        The(p, "declareextern", p[i].id).symbol \in symbols \cup HostSymbols \cup own
  BY DEF SymbolCalls, own
<1>6. Linked(g, CalledBy(g), symbols) <=> SymbolCalls(p, symbols)
  BY <1>2, <1>3, <1>4, <1>5
<1>7. ASSUME ~Linked(g, CalledBy(g), symbols)
      PROVE  \E i \in DOMAIN p : p[i].k = "declareextern" /\ p[i].symbol \notin symbols \cup HostSymbols
  <2>1. PICK n \in DOMAIN p : /\ p[n].k \in Calls /\ p[n].how = "extern"
                              /\ The(p, "declareextern", p[n].id).symbol \notin symbols \cup HostSymbols \cup own
    BY <1>5, <1>6, <1>7
  <2>. QED BY <1>3, <2>1
<1>. QED BY <1>6, <1>7

-----------------------------------------------------------------------------
(* compile *)

(* The bodies lowered. *)
Outcomes(g) == [i \in DOMAIN g.bodies |-> DefineBody(g.bodies[i], g)]

(* How a compile ends. *)
States == {"ok", "error", "abort"}

(* The outcomes of compile, when the passes over the whole program let it   *)
(* through.                                                                 *)
LEMMA CompileCases ==
  ASSUME NEW p, NEW symbols, NEW refuses \in BOOLEAN, NEW g, g = Front(p), g.st = "ok",
         NEW n \in Nat, DOMAIN g.bodies = 1..n, \A i \in 1..n : DefineBody(g.bodies[i], g).st \in States,
         NEW code, code = Compile(p, symbols, refuses)
  PROVE  /\ code.st \in States
         /\ code.st = "ok" => /\ \A i \in 1..n : DefineBody(g.bodies[i], g).st = "ok"
                              /\ Linked(g, CalledBy(g), symbols)
         /\ (\A i \in 1..n : DefineBody(g.bodies[i], g).st = "ok") /\ Linked(g, CalledBy(g), symbols) /\ ~refuses
              => code.st = "ok"
         /\ code.st = "abort" => \/ \E i \in 1..n : DefineBody(g.bodies[i], g).st = "abort"
                                 \/ (\A i \in 1..n : DefineBody(g.bodies[i], g).st = "ok") /\ ~Linked(g, CalledBy(g), symbols)
         /\ code.funcs = DOMAIN g.funcs
         /\ code.data = [d \in DOMAIN g.datas |-> Contents(g, d)]
         /\ code.tables = [i \in 1..n |-> DefineBody(g.bodies[i], g).tables]
<1>. DEFINE lowered == Outcomes(g)
            bad == {i \in 1..n : lowered[i].st # "ok"}
            first == CHOOSE i \in bad : \A j \in bad : i <= j
            verified == IF bad = {} THEN 1..n ELSE 1..(first - 1)
            called == UNION {lowered[i].externs : i \in 1..n}
<1>1. \A i \in 1..n : lowered[i] = DefineBody(g.bodies[i], g)
  BY DEF Outcomes
<1>. DEFINE st == CASE g.st # "ok" -> g.st
                    [] g.st = "ok" /\ refuses /\ verified # {} -> "error"
                    [] g.st = "ok" /\ ~(refuses /\ verified # {}) /\ bad # {} -> lowered[first].st
                    [] OTHER -> IF Linked(g, called, symbols) THEN "ok" ELSE "abort"
<1>2. code = [st |-> st,
              funcs |-> DOMAIN g.funcs,
              data |-> [d \in DOMAIN g.datas |-> Contents(g, d)],
              tables |-> [i \in 1..n |-> lowered[i].tables]]
  BY Zenon DEF Compile, CompileBodies, Front, Outcomes
<1>. HIDE DEF lowered
<1>3. called = CalledBy(g)
  BY <1>1 DEF CalledBy
<1>4. bad # {} => first \in bad
  <2>1. bad \subseteq Nat
    OBVIOUS
  <2>. HIDE DEF bad
  <2>2. bad # {} => \E i \in bad : \A j \in bad : i <= j
    BY <2>1, LeastNatural
  <2>. QED BY <2>2
<1>5. bad = {} <=> \A i \in 1..n : DefineBody(g.bodies[i], g).st = "ok"
  BY <1>1
<1>6. ASSUME bad # {}
      PROVE  first \in 1..n /\ lowered[first].st = DefineBody(g.bodies[first], g).st /\ lowered[first].st # "ok"
  BY <1>1, <1>4, <1>6
<1>7. /\ code.funcs = DOMAIN g.funcs /\ code.data = [d \in DOMAIN g.datas |-> Contents(g, d)]
      /\ code.tables = [i \in 1..n |-> DefineBody(g.bodies[i], g).tables]
  <2>1. [i \in 1..n |-> lowered[i].tables] = [i \in 1..n |-> DefineBody(g.bodies[i], g).tables]
    BY <1>1
  <2>. HIDE DEF st
  <2>. QED BY <1>2, <2>1
<1>8. code.st = st
  <2>. HIDE DEF st
  <2>. QED BY <1>2
<1>. HIDE DEF bad, first, verified
<1>10. CASE refuses /\ verified # {}
  <2>1. code.st = "error"
    BY <1>8, <1>10
  <2>. QED BY <1>7, <1>10, <2>1 DEF States
<1>11. CASE ~(refuses /\ verified # {}) /\ bad # {}
  <2>1. code.st = lowered[first].st
    BY <1>8, <1>11
  <2>. QED BY <1>5, <1>6, <1>7, <1>11, <2>1 DEF States
<1>12. CASE ~(refuses /\ verified # {}) /\ bad = {}
  <2>1. code.st = IF Linked(g, CalledBy(g), symbols) THEN "ok" ELSE "abort"
    BY <1>3, <1>8, <1>12
  <2>. QED BY <1>5, <1>7, <1>12, <2>1 DEF States
<1>. QED BY <1>10, <1>11, <1>12

(* What these passes refuse is refused. *)
LEMMA CompileRefused ==
  ASSUME NEW p, NEW symbols, NEW refuses, Front(p).st # "ok"
  PROVE  Compile(p, symbols, refuses).st = Front(p).st
<1>. DEFINE g == Front(p)
            lowered == Outcomes(g)
            bad == {i \in DOMAIN g.bodies : lowered[i].st # "ok"}
            first == CHOOSE i \in bad : \A j \in bad : i <= j
            verified == IF bad = {} THEN DOMAIN g.bodies ELSE 1..(first - 1)
            called == UNION {lowered[i].externs : i \in DOMAIN g.bodies}
            st == CASE g.st # "ok" -> g.st
                    [] g.st = "ok" /\ refuses /\ verified # {} -> "error"
                    [] g.st = "ok" /\ ~(refuses /\ verified # {}) /\ bad # {} -> lowered[first].st
                    [] OTHER -> IF Linked(g, called, symbols) THEN "ok" ELSE "abort"
<1>1. Compile(p, symbols, refuses) =
        [st |-> st,
         funcs |-> DOMAIN g.funcs,
         data |-> [d \in DOMAIN g.datas |-> Contents(g, d)],
         tables |-> [i \in DOMAIN g.bodies |-> lowered[i].tables]]
  BY Zenon DEF Compile, CompileBodies, Front, Outcomes
<1>2. st = g.st
  <2>. HIDE DEF bad, first, verified, called, lowered, g
  <2>1. g.st # "ok"
    BY DEF g
  <2>. QED BY <2>1
<1>. HIDE DEF st
<1>3. Compile(p, symbols, refuses).st = st
  BY <1>1
<1>. QED BY <1>2, <1>3

(* The rules, pass by pass. *)
Accepted(p, symbols) == FrontFits(p) /\ (\A b \in Begins(p) : BodyFits(p, b)) /\ SymbolCalls(p, symbols)

(* The rules as a whole are what the passes establish, one after the other. *)
LEMMA WellFormedExact ==
  ASSUME NEW p, WellShaped(p), NEW symbols
  PROVE  WellFormed(p, symbols) <=> Accepted(p, symbols)
<1>. DEFINE Clean == \A b \in Begins(p) : \A i \in DOMAIN BodyOf(p, b) : BodyOf(p, b)[i].k \notin DataInits \cup {"finalize"}
            Same == Ids(p, "declarefunc") = {p[b].id : b \in Begins(p)}
            Rules == \A b \in Begins(p) :
                       /\ NameRules(BodyOf(p, b)) /\ BlockRules(BodyOf(p, b), ParamsFor(p, p[b].id))
                       /\ CallRules(p, BodyOf(p, b)) /\ ValueRules(p, BodyOf(p, b), ParamsFor(p, p[b].id))
<1>1. NestingRules(p) <=> Nested(p) /\ Same /\ Clean
  BY NestingExact
<1>2. SymbolRules(p, symbols) <=> SymbolDecls(p) /\ SymbolCalls(p, symbols)
  BY SymbolHalves
<1>3. WellFormed(p, symbols) <=> DeclarationRules(p) /\ DataRules(p) /\ NestingRules(p) /\ Rules /\ SymbolRules(p, symbols)
  BY Zenon DEF WellFormed, ParamsFor
<1>4. (\A b \in Begins(p) : BodyFits(p, b)) <=> (\A b \in Begins(p) : p[b].id \in Ids(p, "declarefunc")) /\ Rules /\ Clean
  BY Zenon DEF BodyFits, BodyRules
<1>5. Same <=> Ids(p, "declarefunc") \subseteq {p[b].id : b \in Begins(p)} /\ \A b \in Begins(p) : p[b].id \in Ids(p, "declarefunc")
  <2>. DEFINE I == Ids(p, "declarefunc")
  <2>. HIDE DEF I
  <2>1. I = {p[b].id : b \in Begins(p)} <=> I \subseteq {p[b].id : b \in Begins(p)} /\ \A b \in Begins(p) : p[b].id \in I
    OBVIOUS
  <2>. QED BY <2>1 DEF I
<1>. HIDE DEF Clean, Same, Rules
<1>6. CollectFits(p) <=> DeclarationRules(p) /\ Nested(p) /\ Ids(p, "declarefunc") \subseteq {p[b].id : b \in Begins(p)}
  BY Zenon DEF CollectFits
<1>. QED BY <1>1, <1>2, <1>3, <1>4, <1>5, <1>6, Zenon DEF Accepted, FrontFits

(* What takes the process down. *)
Mistake(p, symbols) ==
  \/ \E b \in Begins(p) : \E i \in DOMAIN BodyOf(p, b) : Unplaced(BodyOf(p, b), i)
  \/ \E i \in DOMAIN p : p[i].k = "declareextern" /\ p[i].symbol \notin symbols \cup HostSymbols

(* Compiler::compile (lib.rs 419-440): a program compiles only if it keeps  *)
(* the rules, and if it does only Cranelift's verifier can refuse it; a     *)
(* panic is an instruction without a block or an extern nobody defined; the *)
(* tables of what compiled are those of its switches, its data that of its  *)
(* initializers.                                                            *)
THEOREM CompileExact ==
  ASSUME NEW p, WellShaped(p), NEW symbols, NEW refuses \in BOOLEAN, NEW code, code = Compile(p, symbols, refuses)
  PROVE  /\ code.st \in States
         /\ code.st = "ok" => WellFormed(p, symbols)
         /\ WellFormed(p, symbols) /\ ~refuses => code.st = "ok"
         /\ code.st = "abort" => Mistake(p, symbols)
         /\ code.st = "ok" =>
              /\ FrontFits(p)
              /\ \A b \in Begins(p) : code.tables[Count(p, b)] = TablesOf(BodyOf(p, b))
              /\ \E g : g = Front(p) /\ FrontHold(p, g) /\ code.data = [d \in DOMAIN g.datas |-> Contents(g, d)]
<1>. DEFINE g == Front(p)
            n == Len(g.bodies)
<1>1. g.st \in {"ok", "error"} /\ (g.st = "ok" <=> FrontFits(p)) /\ (g.st = "ok" => FrontHold(p, g))
  BY FrontExact
<1>2. WellFormed(p, symbols) <=> Accepted(p, symbols)
  BY WellFormedExact
<1>3. CASE g.st # "ok"
  <2>1. code.st = "error"
    BY <1>1, <1>3, CompileRefused
  <2>2. ~WellFormed(p, symbols)
    BY <1>1, <1>2, <1>3 DEF Accepted
  <2>. QED BY <2>1, <2>2 DEF States
<1>4. CASE g.st = "ok"
  <2>. HIDE DEF g
  <2>1. FrontFits(p) /\ FrontHold(p, g) /\ g = Front(p) /\ n \in Nat /\ DOMAIN g.bodies = 1..n
    BY <1>1, <1>4 DEF FrontHold, g
  <2>2. List(p) /\ DeclarationRules(p) /\ Nested(p) /\ TablesAre(p, g)
    BY <2>1 DEF WellShaped, FrontFits, CollectFits, FrontHold
  <2>. HIDE DEF n
  <2>3. ASSUME NEW b \in Begins(p), NEW e, e = DefineBody(Body(p, b), g)
        PROVE  /\ e.st \in States
               /\ e.st = "ok" <=> BodyFits(p, b)
               /\ e.st = "abort" => \E i \in DOMAIN BodyOf(p, b) : Unplaced(BodyOf(p, b), i)
               /\ e.st = "ok" => e.tables = TablesOf(BodyOf(p, b))
    BY <2>2, <2>3, DefineExact DEF States
  <2>4. /\ \A m \in 1..n : \E b \in Begins(p) : g.bodies[m] = Body(p, b)
        /\ \A b \in Begins(p) : Count(p, b) \in 1..n /\ g.bodies[Count(p, b)] = Body(p, b)
    <3>1. /\ \A b \in Begins(p) : Count(p, b) \in 1..n /\ g.bodies[Count(p, b)] = Body(p, b)
          /\ \A m \in 1..n : \E b \in Begins(p) : m = Count(p, b)
      BY <2>1 DEF FrontHold
    <3>. QED BY <3>1
  <2>5. \A m \in 1..n : DefineBody(g.bodies[m], g).st \in States
    BY <2>3, <2>4
  <2>6. (\A m \in 1..n : DefineBody(g.bodies[m], g).st = "ok") <=> \A b \in Begins(p) : BodyFits(p, b)
    BY <2>3, <2>4
  <2>7. (\E m \in 1..n : DefineBody(g.bodies[m], g).st = "abort") =>
          \E b \in Begins(p) : \E i \in DOMAIN BodyOf(p, b) : Unplaced(BodyOf(p, b), i)
    BY <2>3, <2>4
  <2>8. (\A b \in Begins(p) : BodyFits(p, b)) =>
          /\ Linked(g, CalledBy(g), symbols) <=> SymbolCalls(p, symbols)
          /\ ~Linked(g, CalledBy(g), symbols) =>
               \E i \in DOMAIN p : p[i].k = "declareextern" /\ p[i].symbol \notin symbols \cup HostSymbols
    BY <2>1, LinkExact
  <2>9. /\ code.st \in States
        /\ code.st = "ok" => /\ \A i \in 1..n : DefineBody(g.bodies[i], g).st = "ok"
                             /\ Linked(g, CalledBy(g), symbols)
        /\ (\A i \in 1..n : DefineBody(g.bodies[i], g).st = "ok") /\ Linked(g, CalledBy(g), symbols) /\ ~refuses
             => code.st = "ok"
        /\ code.st = "abort" => \/ \E i \in 1..n : DefineBody(g.bodies[i], g).st = "abort"
                                \/ (\A i \in 1..n : DefineBody(g.bodies[i], g).st = "ok") /\ ~Linked(g, CalledBy(g), symbols)
        /\ code.data = [d \in DOMAIN g.datas |-> Contents(g, d)]
        /\ code.tables = [i \in 1..n |-> DefineBody(g.bodies[i], g).tables]
    BY <1>4, <2>1, <2>5, CompileCases
  <2>10. code.st = "ok" => WellFormed(p, symbols)
    BY <1>2, <2>1, <2>6, <2>8, <2>9 DEF Accepted
  <2>11. WellFormed(p, symbols) /\ ~refuses => code.st = "ok"
    BY <1>2, <2>6, <2>8, <2>9 DEF Accepted
  <2>12. code.st = "abort" => Mistake(p, symbols)
    BY <2>6, <2>7, <2>8, <2>9 DEF Mistake
  <2>13. ASSUME code.st = "ok", NEW b \in Begins(p) PROVE code.tables[Count(p, b)] = TablesOf(BodyOf(p, b))
    <3>1. BodyFits(p, b) /\ Count(p, b) \in 1..n /\ g.bodies[Count(p, b)] = Body(p, b)
      BY <2>4, <2>6, <2>9, <2>13
    <3>2. code.tables[Count(p, b)] = DefineBody(Body(p, b), g).tables
      BY <2>9, <3>1
    <3>. QED BY <2>3, <3>1, <3>2
  <2>. QED BY <2>1, <2>9, <2>10, <2>11, <2>12, <2>13
<1>. QED BY <1>3, <1>4

-----------------------------------------------------------------------------
(* Switches and data of what was compiled *)

(* A case stands for its literal modulo the width of the type               *)
(* (parse_switch_int_case, mask_to_bits).                                   *)
LEMMA SwitchBitsWrap ==
  ASSUME NEW ty, NEW lit, SwitchBits(ty, lit) # None
  PROVE  SwitchBits(ty, lit) = Some(lit[1] % 2^Bits(ty))
<1>1. CASE ty = "bool"
  <2>1. Bits(ty) = Byte /\ SwitchBits(ty, lit) = lit /\ lit \in {Some(0), Some(1)}
    <3>1. Bits(ty) = Byte
      BY <1>1 DEF Bits, ClifType
    <3>2. SwitchBits(ty, lit) = IF lit \in {Some(0), Some(1)} THEN lit ELSE None
      BY <1>1 DEF SwitchBits, Signed
    <3>. QED BY <3>1, <3>2
  <2>2. 2^Byte \in Nat /\ 2^Byte >= 2
    <3>1. Byte \in 1..8
      BY WidthAssumption
    <3>2. 2^1 = 2 /\ 2^2 = 4 /\ 2^3 = 8 /\ 2^4 = 16 /\ 2^5 = 32 /\ 2^6 = 64 /\ 2^7 = 128 /\ 2^8 = 256
      OBVIOUS
    <3>3. Byte = 1 \/ Byte = 2 \/ Byte = 3 \/ Byte = 4 \/ Byte = 5 \/ Byte = 6 \/ Byte = 7 \/ Byte = 8
      BY <3>1
    <3>4. CASE Byte = 1 BY <3>2, <3>4
    <3>5. CASE Byte = 2 BY <3>2, <3>5
    <3>6. CASE Byte = 3 BY <3>2, <3>6
    <3>7. CASE Byte = 4 BY <3>2, <3>7
    <3>8. CASE Byte = 5 BY <3>2, <3>8
    <3>9. CASE Byte = 6 BY <3>2, <3>9
    <3>10. CASE Byte = 7 BY <3>2, <3>10
    <3>11. CASE Byte = 8 BY <3>2, <3>11
    <3>. QED BY <3>3, <3>4, <3>5, <3>6, <3>7, <3>8, <3>9, <3>10, <3>11
  <2>. DEFINE m == 2^Byte
  <2>3. m \in Nat /\ m >= 2
    BY <2>2
  <2>. HIDE DEF m
  <2>4. 0 % m = 0 /\ 1 % m = 1
    BY <2>3
  <2>5. lit[1] \in {0, 1} /\ lit = Some(lit[1])
    BY <2>1 DEF Some
  <2>6. lit[1] % m = lit[1]
    BY <2>4, <2>5
  <2>. QED BY <2>1, <2>5, <2>6 DEF m
<1>2. CASE ty \in {"ptr", "f64"}
  BY <1>2 DEF SwitchBits, Signed
<1>3. CASE ty \in Signed
  <2>1. SwitchBits(ty, lit) = Masked(lit, ty)
    <3>1. ty # "bool" /\ ty \notin {"ptr", "f64"}
      BY <1>3 DEF Signed
    <3>. QED BY <1>3, <3>1 DEF SwitchBits
  <2>. QED BY <2>1 DEF Masked
<1>4. CASE ty # "bool" /\ ty \notin {"ptr", "f64"} /\ ty \notin Signed
  <2>1. SwitchBits(ty, lit) = IF lit # None /\ lit[1] >= 0 THEN Masked(lit, ty) ELSE None
    BY <1>4 DEF SwitchBits
  <2>. QED BY <2>1 DEF Masked
<1>. QED BY <1>1, <1>2, <1>3, <1>4

(* As in SwitchesDispatch. *)
Wraps(c, i, v) == c.cases[i].lit[1] % 2^Bits(c.ty) = v
Dispatches(c, table) ==
  /\ table.default = c.dests[1]
  /\ \A v \in 0..(2^Bits(c.ty) - 1) :
       {x[2] : x \in {x \in table.entries : x[1] = v}} = {c.cases[i].dest : i \in {i \in DOMAIN c.cases : Wraps(c, i, v)}}
  /\ \A i, j \in DOMAIN c.cases : \A v \in 0..(2^Bits(c.ty) - 1) : Wraps(c, i, v) /\ Wraps(c, j, v) => i = j

(* Cases that are told apart by their bits are told apart by their values. *)
LEMMA TableDispatches ==
  ASSUME NEW c, CasesDistinct(c)
  PROVE  Dispatches(c, TableOf(c))
<1>. DEFINE bits(i) == SwitchBits(c.ty, c.cases[i].lit)
            to(i) == c.cases[i].dest
            wrapped(i) == c.cases[i].lit[1] % 2^Bits(c.ty)
            entries == {<<bits(i)[1], to(i)>> : i \in DOMAIN c.cases}
            C == DOMAIN c.cases
<1>1. \A i \in C : bits(i) = Some(wrapped(i))
  BY SwitchBitsWrap DEF CasesDistinct
<1>2. \A i, j \in C : bits(i) = bits(j) => i = j
  BY DEF CasesDistinct
<1>3. TableOf(c).default = c.dests[1] /\ TableOf(c).entries = entries
  BY DEF TableOf
<1>4. \A i \in C : bits(i)[1] = wrapped(i)
  BY <1>1, SomeFacts
<1>. HIDE DEF bits, to, C
<1>5. \A i, j \in C : \A v : wrapped(i) = v /\ wrapped(j) = v => i = j
  BY <1>1, <1>2
<1>. HIDE DEF wrapped
<1>6. ASSUME NEW v
      PROVE  {x[2] : x \in {x \in entries : x[1] = v}} = {to(i) : i \in {i \in C : wrapped(i) = v}}
  <2>1. entries = {<<wrapped(i), to(i)>> : i \in C}
    BY <1>4 DEF C
  <2>. HIDE DEF entries
  <2>2. ASSUME NEW x \in entries, x[1] = v PROVE \E i \in C : wrapped(i) = v /\ x[2] = to(i)
    BY <2>1, <2>2
  <2>3. ASSUME NEW i \in C, wrapped(i) = v PROVE \E x \in entries : x[1] = v /\ x[2] = to(i)
    <3>1. <<wrapped(i), to(i)>> \in entries
      BY <2>1
    <3>. QED BY <2>3, <3>1
  <2>. QED BY <2>2, <2>3
<1>7. \A v : {x[2] : x \in {x \in TableOf(c).entries : x[1] = v}} = {c.cases[i].dest : i \in {i \in DOMAIN c.cases : Wraps(c, i, v)}}
  BY <1>3, <1>6 DEF Wraps, wrapped, to, C
<1>8. \A i, j \in DOMAIN c.cases : \A v : Wraps(c, i, v) /\ Wraps(c, j, v) => i = j
  BY <1>5 DEF Wraps, wrapped, C
<1>. QED BY <1>3, <1>7, <1>8 DEF Dispatches

(* Every switch of a compiled program has its table among those of its      *)
(* body.                                                                    *)
LEMMA SwitchesOf ==
  ASSUME NEW p, WellShaped(p), NEW symbols, NEW refuses \in BOOLEAN, NEW code, code = Compile(p, symbols, refuses), code.st = "ok",
         NEW b \in Begins(p), NEW i \in DOMAIN BodyOf(p, b), BodyOf(p, b)[i].k = "switch"
  PROVE  \E table \in code.tables[Count(p, b)] : Dispatches(BodyOf(p, b)[i], table)
<1>. DEFINE c == BodyOf(p, b)[i]
<1>1. WellFormed(p, symbols) /\ code.tables[Count(p, b)] = TablesOf(BodyOf(p, b))
  BY CompileExact
<1>2. BodyFits(p, b)
  BY <1>1, WellFormedExact DEF Accepted
<1>3. CasesDistinct(c)
  BY <1>2 DEF BodyFits, BodyRules, ValueRules
<1>4. TableOf(c) \in TablesOf(BodyOf(p, b))
  BY DEF TablesOf
<1>. QED BY <1>1, <1>3, <1>4, TableDispatches

(* The commands that write byte i of object d. *)
Covering(p, d, i) == {j \in DOMAIN p : Covers(p[j], d, i)}

(* Every byte of a compiled object is what the last initializer that covers *)
(* it wrote.                                                                *)
LEMMA BytesOf ==
  ASSUME NEW p, WellShaped(p), NEW symbols, NEW refuses \in BOOLEAN, NEW code, code = Compile(p, symbols, refuses), code.st = "ok",
         NEW d \in DOMAIN code.data, NEW i \in DOMAIN code.data[d][1], NEW js, js = Covering(p, d, i)
  PROVE  code.data[d][1][i] = IF js = {} THEN 0
           ELSE LET last == CHOOSE j \in js : \A j2 \in js : j2 <= j
                IN  InitBytes(p[last])[1][i - p[last].at]
<1>1. List(p) /\ Len(p) \in Nat /\ DOMAIN p = 1..Len(p)
  BY ListFacts DEF WellShaped
<1>2. PICK g : g = Front(p) /\ FrontHold(p, g) /\ code.data = [x \in DOMAIN g.datas |-> Contents(g, x)]
  BY CompileExact
<1>3. FrontFits(p)
  BY CompileExact
<1>. DEFINE size == g.datas[d].size
            after == After(g.inits, size, d)
            bytes == after[1]
<1>4. d \in DOMAIN g.datas /\ code.data[d] = after
  BY <1>2 DEF Contents, After
<1>5. d \in Ids(p, "declaredata") /\ g.datas[d] = DataDecl(The(p, "declaredata", d))
  BY <1>2, <1>4 DEF FrontHold, TablesAre
<1>6. PICK n \in DOMAIN p : p[n].k = "declaredata" /\ p[n].id = d /\ The(p, "declaredata", d) = p[n]
  BY <1>5, TheFacts
<1>7. size = The(p, "declaredata", d).size /\ size \in Nat
  BY <1>5, <1>6 DEF DataDecl, WellShaped, Shaped
<1>8. ObjectHold(p, Len(p), after, size, d)
  BY <1>2, <1>7 DEF FrontHold, DataHold
<1>9. \A j \in 1..Len(p) : ~Misfits(p[j], d, size)
  <2>1. ASSUME NEW j \in 1..Len(p), Misfits(p[j], d, size) PROVE FALSE
    <3>1. p[j].k \in DataInits /\ p[j].id = d /\ (InitBytes(p[j]) = None \/ p[j].at + Len(InitBytes(p[j])[1]) > size)
      BY <2>1 DEF Misfits
    <3>2. InitBytes(p[j]) # None /\ p[j].at + Len(InitBytes(p[j])[1]) <= size
      BY <1>1, <1>3, <1>7, <3>1 DEF FrontFits, DataRules
    <3>3. p[j].at \in Nat /\ Len(InitBytes(p[j])[1]) \in Nat
      <4>1. Shaped(p[j])
        BY <1>1 DEF WellShaped
      <4>2. List(InitBytes(p[j])[1])
        BY <3>2, <4>1, InitBytesFacts
      <4>. QED BY <4>1, <4>2, ListFacts DEF Shaped
    <3>. QED BY <1>7, <3>1, <3>2, <3>3
  <2>. QED BY <2>1
<1>. HIDE DEF size, after
<1>10. BytesHold(p, Len(p), bytes, size, d)
  BY <1>8, <1>9 DEF ObjectHold
<1>. HIDE DEF bytes
<1>11. i \in 1..size /\ code.data[d][1][i] = bytes[i]
  <2>1. i \in DOMAIN bytes /\ code.data[d][1] = bytes
    BY <1>4 DEF bytes
  <2>2. DOMAIN bytes = 1..size
    BY <1>10, ListFacts DEF BytesHold
  <2>. QED BY <2>1, <2>2
<1>12. CASE js = {}
  <2>1. \A j \in 1..Len(p) : ~Covers(p[j], d, i)
    BY <1>1, <1>12 DEF Covering
  <2>2. bytes[i] = 0
    BY <1>10, <1>11, <2>1 DEF BytesHold
  <2>. QED BY <1>11, <1>12, <2>2
<1>13. CASE js # {}
  <2>. DEFINE last == CHOOSE j \in js : \A j2 \in js : j2 <= j
  <2>1. js \subseteq 0..Len(p)
    BY <1>1 DEF Covering
  <2>2. \E j \in js : \A j2 \in js : j2 <= j
    BY <1>1, <1>13, <2>1, GreatestNatural
  <2>3. last \in js /\ \A j2 \in js : j2 <= last
    BY <2>2
  <2>. HIDE DEF last
  <2>4. last \in 1..Len(p) /\ Covers(p[last], d, i) /\ \A l \in 1..Len(p) : Covers(p[l], d, i) => l <= last
    BY <1>1, <2>3 DEF Covering
  <2>5. bytes[i] = InitBytes(p[last])[1][i - p[last].at]
    BY <1>10, <1>11, <2>4 DEF BytesHold
  <2>. QED BY <1>11, <1>13, <2>5 DEF last
<1>. QED BY <1>12, <1>13

=============================================================================
