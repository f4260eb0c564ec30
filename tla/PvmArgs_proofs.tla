----------------------------- MODULE PvmArgs_proofs -----------------------------
(***************************************************************************)
(* What holds of PvmArgs for any nodes, arguments, modes and bounds, when  *)
(* all calls pass the same number of arguments.                            *)
(***************************************************************************)
EXTENDS PvmArgs, DataInduction, SequenceTheorems

(* All calls pass the same number of arguments: otherwise a walk ends at a *)
(* level that is not the last of another call's, and takes it for an entry.*)
Uniform == \A s, t \in Tuples : Len(s) = Len(t)
Depth == CHOOSE l \in Nat \ {0} : \A s \in Tuples : Len(s) = l

Object == [kind : {"dir", "entry", "buf"}, kids : [Arg -> Nat]]
HeapOK(h) == h \in Seq(Object) /\ \A o \in 1..Len(h), a \in Arg : h[o].kids[a] <= Len(h)
Dir == [kind |-> "dir", kids |-> Bare]

LEMMA DepthFacts ==
  ASSUME Uniform
  PROVE  Depth \in Nat \ {0} /\ \A s \in Tuples : Len(s) = Depth /\ s \in Seq(Arg)
<1>1. \A s \in Tuples : s \in Seq(Arg) /\ s # <<>>
  BY ArgsAssumption
<1>2. \A s \in Tuples : Len(s) \in Nat \ {0}
  BY <1>1, EmptySeq
<1>3. \E l \in Nat \ {0} : \A s \in Tuples : Len(s) = l
  <2>1. CASE Tuples = {}
    BY <2>1
  <2>2. CASE Tuples # {}
    BY <2>2, <1>2 DEF Uniform
  <2>. QED BY <2>1, <2>2
<1>. QED BY <1>1, <1>3 DEF Depth

-----------------------------------------------------------------------------
(* Sequences of arguments *)

Prefix(p, i) == SubSeq(p, 1, i)
Slot(p) == p[Len(p)]
Levels(p) == Prefix(p, Len(p) - 1)

LEMMA PrefixFacts ==
  ASSUME NEW p \in Seq(Arg), NEW i \in 0..Len(p)
  PROVE  /\ Prefix(p, i) \in Seq(Arg) /\ Len(Prefix(p, i)) = i
         /\ \A j \in 1..i : Prefix(p, i)[j] = p[j]
<1>1. \A j \in 1..i : p[j] \in Arg
  OBVIOUS
<1>2. /\ SubSeq(p, 1, i) \in Seq(Arg)
      /\ Len(SubSeq(p, 1, i)) = IF 1 <= i THEN i - 1 + 1 ELSE 0
      /\ \A j \in 1..(i - 1 + 1) : SubSeq(p, 1, i)[j] = p[1 + j - 1]
  BY <1>1, SubSeqProperties
<1>. QED BY <1>2 DEF Prefix

LEMMA PrefixNext ==
  ASSUME NEW p \in Seq(Arg), NEW i \in 1..Len(p)
  PROVE  Prefix(p, i) = Append(Prefix(p, i - 1), p[i])
<1>1. i - 1 \in 0..Len(p) /\ i \in 0..Len(p) /\ p[i] \in Arg
  OBVIOUS
<1>2. PICK q, r, x : q = Prefix(p, i - 1) /\ r = Prefix(p, i) /\ x = p[i]
  BY Zenon
<1>3. /\ q \in Seq(Arg) /\ Len(q) = i - 1 /\ \A j \in 1..i - 1 : q[j] = p[j]
      /\ r \in Seq(Arg) /\ Len(r) = i /\ \A j \in 1..i : r[j] = p[j]
  BY <1>1, <1>2, PrefixFacts
<1>4. /\ Append(q, x) \in Seq(Arg) /\ Len(Append(q, x)) = Len(q) + 1
      /\ \A j \in 1..Len(q) : Append(q, x)[j] = q[j]
      /\ Append(q, x)[Len(q) + 1] = x
  BY <1>1, <1>2, <1>3, AppendProperties
<1>5. \A j \in 1..Len(r) : r[j] = Append(q, x)[j]
  <2>1. \A j \in 1..Len(r) : j \in 1..i - 1 \/ j = i
    BY <1>3
  <2>. QED BY <1>2, <1>3, <1>4, <2>1
<1>6. Len(r) = Len(Append(q, x))
  BY <1>3, <1>4
<1>7. r = Append(q, x)
  BY <1>3, <1>4, <1>5, <1>6, SeqEqual
<1>. QED BY <1>2, <1>7

LEMMA LevelsFacts ==
  ASSUME NEW p \in Seq(Arg), Len(p) # 0
  PROVE  /\ Levels(p) \in Seq(Arg) /\ Len(Levels(p)) = Len(p) - 1 /\ Len(Levels(p)) + 1 = Len(p)
         /\ Slot(p) \in Arg /\ p = Append(Levels(p), Slot(p)) /\ Prefix(p, 0) = <<>>
<1>1. Len(p) \in Nat /\ Len(p) - 1 \in 0..Len(p) /\ Len(p) \in 1..Len(p) /\ 0 \in 0..Len(p)
  OBVIOUS
<1>2. Levels(p) \in Seq(Arg) /\ Len(Levels(p)) = Len(p) - 1
  BY <1>1, PrefixFacts DEF Levels
<1>3. Prefix(p, Len(p)) = Append(Prefix(p, Len(p) - 1), p[Len(p)])
  BY <1>1, PrefixNext
<1>4. Prefix(p, Len(p)) = p
  BY SubSeqFull DEF Prefix
<1>5. Prefix(p, 0) \in Seq(Arg) /\ Len(Prefix(p, 0)) = 0
  BY <1>1, PrefixFacts
<1>6. Prefix(p, 0) = <<>>
  BY <1>5, EmptySeq
<1>. QED BY <1>1, <1>2, <1>3, <1>4, <1>6 DEF Levels, Slot

LEMMA Appended ==
  ASSUME NEW S, NEW q \in Seq(S), NEW x \in S
  PROVE  /\ Append(q, x) \in Seq(S) /\ Len(Append(q, x)) = Len(q) + 1
         /\ \A i \in 1..Len(q) : Append(q, x)[i] = q[i]
         /\ Append(q, x)[Len(q) + 1] = x /\ Append(q, x) # <<>> /\ Len(q) \in Nat
BY AppendProperties, LenProperties

(* The last argument and the ones before it are found again.               *)
LEMMA LevelsOfAppend ==
  ASSUME NEW q \in Seq(Arg), NEW a \in Arg
  PROVE  Levels(Append(q, a)) = q /\ Slot(Append(q, a)) = a
<1>1. PICK p : p = Append(q, a)
  OBVIOUS
<1>2. /\ p \in Seq(Arg) /\ Len(p) = Len(q) + 1 /\ \A i \in 1..Len(q) : p[i] = q[i]
      /\ Len(q) \in Nat
  BY <1>1, AppendProperties, LenProperties
<1>3. p[Len(q) + 1] = a
  BY <1>1, AppendProperties, LenProperties
<1>4. PICK r : r = Levels(p)
  OBVIOUS
<1>5. r \in Seq(Arg) /\ Len(r) = Len(q) /\ \A i \in 1..Len(q) : r[i] = p[i]
  <2>1. Len(p) - 1 \in 0..Len(p) /\ Len(p) - 1 = Len(q)
    BY <1>2
  <2>. QED BY <1>2, <1>4, <2>1, PrefixFacts DEF Levels
<1>6. r = q
  BY <1>2, <1>5, SeqEqual
<1>. QED BY <1>1, <1>2, <1>3, <1>4, <1>6 DEF Slot

-----------------------------------------------------------------------------
(* Walking from a table by the arguments, in any heap *)

Walk(h, t, args) ==
  LET at[i \in 0..Len(args)] ==
        IF i = 0 THEN t
        ELSE IF at[i - 1] = Nil THEN Nil ELSE h[at[i - 1]].kids[args[i]]
  IN at[Len(args)]

LEMMA LookupIsWalk == \A t, args : LookupPhaseArgs(t, args) = Walk(heap, t, args)
BY DEF LookupPhaseArgs, Walk

Goes(f, h, t, args) ==
  /\ f[0] = t
  /\ \A i \in 0..Len(args) : f[i] \in 0..Len(h)
  /\ \A i \in 1..Len(args) : f[i] = IF f[i - 1] = Nil THEN Nil ELSE h[f[i - 1]].kids[args[i]]

LEMMA WalkGoes ==
  ASSUME NEW h, HeapOK(h), NEW t \in 0..Len(h), NEW args \in Seq(Arg)
  PROVE  \E f : Goes(f, h, t, args) /\ Walk(h, t, args) = f[Len(args)]
<1>. DEFINE n == Len(args)
            X == 0..Len(h)
            Turn(i, x) == IF x = Nil THEN Nil ELSE h[x].kids[args[i]]
            G == [i \in Nat |-> [x \in X |-> IF i \in 1..n THEN Turn(i, x) ELSE Nil]]
            Def(c) == [i \in 0..n |-> IF i = 0 THEN t ELSE IF c[i - 1] = Nil THEN Nil ELSE h[c[i - 1]].kids[args[i]]]
            C == CHOOSE c : c = Def(c)
<1>1. n \in Nat /\ Nil \in X /\ \A i \in 1..n : args[i] \in Arg
  BY DEF Nil, HeapOK
<1>2. \A i \in 1..n, x \in X : Turn(i, x) \in X
  <2>1. ASSUME NEW i \in 1..n, NEW x \in X, x # Nil PROVE h[x].kids[args[i]] \in X
    <3>1. x \in 1..Len(h) /\ Len(h) \in Nat
      BY <2>1 DEF Nil, HeapOK
    <3>2. h[x] \in Object
      BY <3>1 DEF HeapOK
    <3>3. h[x].kids[args[i]] \in Nat /\ h[x].kids[args[i]] <= Len(h)
      BY <1>1, <3>1, <3>2 DEF HeapOK, Object
    <3>. QED BY <3>1, <3>3
  <2>. QED BY <1>1, <2>1
<1>3. Walk(h, t, args) = C[n]
  BY DEF Walk
<1>. HIDE DEF n, C, X, Turn
<1>4. IsStep(G, X) /\ \A i \in 1..n, x \in X : G[i][x] = Turn(i, x)
  <2>1. \A i \in Nat, x \in X : G[i][x] = IF i \in 1..n THEN Turn(i, x) ELSE Nil
    OBVIOUS
  <2>. HIDE DEF G
  <2>2. \A i \in 1..n : i \in Nat
    BY <1>1
  <2>3. \A i \in 1..n, x \in X : G[i][x] = Turn(i, x)
    BY <2>1, <2>2
  <2>4. ASSUME NEW i \in Nat, NEW x \in X PROVE G[i][x] \in X
    BY <1>1, <1>2, <2>1
  <2>. QED BY <2>3, <2>4 DEF IsStep
<1>. HIDE DEF G
<1>5. t \in X
  BY DEF X
<1>6. PICK f : Iterates(f, X, t, G, n)
  BY <1>1, <1>4, <1>5, IterationExists
<1>7. /\ f = [i \in 0..n |-> f[i]]
      /\ f[0] = t
      /\ \A i \in 0..n : f[i] \in X
      /\ \A i \in 1..n : f[i] = G[i][f[i - 1]]
  BY <1>6 DEF Iterates
<1>8. \A i \in 1..n : i \in 0..n /\ i - 1 \in 0..n /\ i # 0
  BY <1>1
<1>9. \A i \in 1..n : f[i] = IF f[i - 1] = Nil THEN Nil ELSE h[f[i - 1]].kids[args[i]]
  BY <1>4, <1>7, <1>8, ZenonT(60) DEF Turn
<1>10. f = Def(f)
  <2>1. \A i \in 0..n : i = 0 \/ i \in 1..n
    BY <1>1
  <2>2. \A i \in 0..n : f[i] = IF i = 0 THEN t ELSE IF f[i - 1] = Nil THEN Nil ELSE h[f[i - 1]].kids[args[i]]
    BY <1>7, <1>9, <2>1
  <2>3. [i \in 0..n |-> f[i]] = Def(f)
    BY <2>2
  <2>. QED BY <2>3, <1>7
<1>11. C = Def(C)
  <2>. HIDE DEF Def
  <2>. QED BY <1>10 DEF C
<1>12. C[0] = t /\ \A i \in 1..n : C[i] = IF C[i - 1] = Nil THEN Nil ELSE h[C[i - 1]].kids[args[i]]
  <2>1. \A i \in 0..n : C[i] = IF i = 0 THEN t ELSE IF C[i - 1] = Nil THEN Nil ELSE h[C[i - 1]].kids[args[i]]
    BY <1>11, Zenon
  <2>2. 0 \in 0..n
    BY <1>1
  <2>. HIDE DEF Def
  <2>. QED BY <2>1, <2>2, <1>8
<1>13. \A i \in 0..n : C[i] \in X
  <2>. DEFINE T == {i \in Nat : C[i] \in X}
  <2>1. 0 \in T
    BY <1>5, <1>12
  <2>2. ASSUME NEW i \in 1..n, i - 1 \in T PROVE i \in T
    <3>1. C[i - 1] \in X /\ i \in Nat
      BY <1>1, <2>2
    <3>2. C[i] = Turn(i, C[i - 1])
      BY <1>12 DEF Turn
    <3>. QED BY <1>2, <3>1, <3>2
  <2>3. 0..n \subseteq T
    <3>. HIDE DEF T
    <3>. QED BY <2>1, <2>2, <1>1, IntervalInduction
  <2>. QED BY <2>3
<1>14. Goes(C, h, t, args)
  BY <1>12, <1>13 DEF Goes, n, X
<1>. QED BY <1>3, <1>14 DEF n


LEMMA WalkEmpty ==
  ASSUME NEW h, HeapOK(h), NEW t \in 0..Len(h)
  PROVE  Walk(h, t, <<>>) = t
<1>1. <<>> \in Seq(Arg) /\ Len(<<>>) = 0
  OBVIOUS
<1>2. PICK f : Goes(f, h, t, <<>>) /\ Walk(h, t, <<>>) = f[Len(<<>>)]
  BY <1>1, WalkGoes
<1>. QED BY <1>1, <1>2 DEF Goes

(* One argument more is one step more.                                     *)
LEMMA WalkAppend ==
  ASSUME NEW h, HeapOK(h), NEW t \in 0..Len(h), NEW p \in Seq(Arg), NEW a \in Arg
  PROVE  /\ Walk(h, t, p) \in 0..Len(h)
         /\ Walk(h, t, Append(p, a)) = IF Walk(h, t, p) = Nil THEN Nil ELSE h[Walk(h, t, p)].kids[a]
<1>. DEFINE n == Len(p)
<1>1. PICK q : q = Append(p, a)
  OBVIOUS
<1>2. /\ q \in Seq(Arg) /\ Len(q) = n + 1 /\ n \in Nat
      /\ \A i \in 1..n : q[i] = p[i]
      /\ q[n + 1] = a
  BY <1>1, Appended
<1>3. PICK f : Goes(f, h, t, p) /\ Walk(h, t, p) = f[n]
  BY WalkGoes
<1>4. PICK g : Goes(g, h, t, q) /\ Walk(h, t, q) = g[n + 1]
  BY <1>2, WalkGoes
<1>5. f[n] = g[n]
  <2>. DEFINE S == {i \in Nat : f[i] = g[i]}
  <2>1. 0 \in S
    BY <1>3, <1>4 DEF Goes
  <2>2. ASSUME NEW i \in 1..n, i - 1 \in S PROVE i \in S
    <3>1. i \in 1..Len(p) /\ i \in 1..Len(q) /\ q[i] = p[i] /\ f[i - 1] = g[i - 1]
      BY <1>2, <2>2
    <3>2. f[i] = IF f[i - 1] = Nil THEN Nil ELSE h[f[i - 1]].kids[p[i]]
      BY <1>3, <3>1 DEF Goes
    <3>3. g[i] = IF g[i - 1] = Nil THEN Nil ELSE h[g[i - 1]].kids[q[i]]
      BY <1>4, <3>1 DEF Goes
    <3>. QED BY <3>1, <3>2, <3>3
  <2>3. 0..n \subseteq S
    <3>. HIDE DEF S, n
    <3>. QED BY <1>2, <2>1, <2>2, IntervalInduction
  <2>4. n \in 0..n
    BY <1>2
  <2>. QED BY <2>3, <2>4
<1>6. g[n + 1] = IF g[n] = Nil THEN Nil ELSE h[g[n]].kids[a]
  <2>1. n + 1 \in 1..Len(q) /\ (n + 1) - 1 = n
    BY <1>2
  <2>2. g[n + 1] = IF g[(n + 1) - 1] = Nil THEN Nil ELSE h[g[(n + 1) - 1]].kids[q[n + 1]]
    BY <1>4, <2>1 DEF Goes
  <2>. QED BY <1>2, <2>1, <2>2
<1>7. f[n] \in 0..Len(h)
  BY <1>2, <1>3 DEF Goes
<1>. QED BY <1>1, <1>3, <1>4, <1>5, <1>6, <1>7

-----------------------------------------------------------------------------
(* The heap as trees: every level has a label, the tree it belongs to and  *)
(* the arguments that lead to it.                                          *)

Labels == [w : Tables, node : Node, epoch : Nat, top : Nat, path : Seq(Arg)]
Child(l, a) == [l EXCEPT !.path = Append(@, a)]
At(l, p) == [l EXCEPT !.path = p]

DirOK(h, lab, o) ==
  /\ lab[o].top \in 1..Len(h)
  /\ Len(lab[o].path) < Depth
  /\ lab[o].path = <<>> => lab[o].top = o
  /\ lab[o].path # <<>> =>
       \E q \in 1..Len(h) : /\ h[q].kind = "dir"
                            /\ lab[o] = Child(lab[q], Slot(lab[o].path))
                            /\ h[q].kids[Slot(lab[o].path)] = o
  /\ Len(lab[o].path) + 1 < Depth =>
       \A a \in Arg : h[o].kids[a] # Nil =>
         h[h[o].kids[a]].kind = "dir" /\ lab[h[o].kids[a]] = Child(lab[o], a)

Tree(h, lab) ==
  /\ HeapOK(h) /\ lab \in Seq(Labels) /\ Len(lab) = Len(h)
  /\ \A o \in 1..Len(h) : h[o].kind = "dir" => DirOK(h, lab, o)

LEMMA ChildLabel ==
  ASSUME NEW l \in Labels, NEW a \in Arg
  PROVE  /\ Child(l, a) \in Labels
         /\ Child(l, a).w = l.w /\ Child(l, a).node = l.node /\ Child(l, a).epoch = l.epoch
         /\ Child(l, a).top = l.top /\ Child(l, a).path = Append(l.path, a)
<1>1. l.path \in Seq(Arg)
  BY DEF Labels
<1>2. Append(l.path, a) \in Seq(Arg)
  BY <1>1
<1>3. PICK p : p = Append(l.path, a)
  OBVIOUS
<1>4. Child(l, a) = [l EXCEPT !.path = p]
  BY <1>3 DEF Child
<1>5. [l EXCEPT !.path = p] = [w |-> l.w, node |-> l.node, epoch |-> l.epoch, top |-> l.top, path |-> p]
  BY DEF Labels
<1>. QED BY <1>2, <1>3, <1>4, <1>5 DEF Labels

LEMMA AtLabel ==
  ASSUME NEW l \in Labels, NEW p \in Seq(Arg)
  PROVE  /\ At(l, p) \in Labels
         /\ At(l, p).w = l.w /\ At(l, p).node = l.node /\ At(l, p).epoch = l.epoch
         /\ At(l, p).top = l.top /\ At(l, p).path = p
         /\ At(l, l.path) = l
         /\ \A a \in Arg : Child(At(l, p), a) = At(l, Append(p, a))
<1>1. At(l, p) = [w |-> l.w, node |-> l.node, epoch |-> l.epoch, top |-> l.top, path |-> p]
  BY DEF Labels, At
<1>2. At(l, l.path) = l
  BY DEF Labels, At
<1>3. ASSUME NEW a \in Arg PROVE Child(At(l, p), a) = At(l, Append(p, a))
  BY <1>1 DEF Child, At, Labels
<1>. QED BY <1>1, <1>2, <1>3 DEF Labels

LEMMA TreeFacts ==
  ASSUME NEW h, NEW lab, Tree(h, lab)
  PROVE  /\ Len(h) \in Nat /\ HeapOK(h)
         /\ \A o \in 1..Len(h) : /\ lab[o] \in Labels /\ h[o] \in Object
                                 /\ \A a \in Arg : h[o].kids[a] \in 0..Len(h)
<1>1. h \in Seq(Object) /\ lab \in Seq(Labels) /\ Len(lab) = Len(h) /\ HeapOK(h)
  BY DEF Tree, HeapOK
<1>2. \A o \in 1..Len(h) : lab[o] \in Labels /\ h[o] \in Object
  BY <1>1
<1>3. ASSUME NEW o \in 1..Len(h), NEW a \in Arg PROVE h[o].kids[a] \in 0..Len(h)
  <2>1. h[o].kids[a] \in Nat /\ h[o].kids[a] <= Len(h)
    BY <1>1, <1>2 DEF HeapOK, Object
  <2>. QED BY <1>1, <2>1
<1>. QED BY <1>1, <1>2, <1>3

(* What can be reached from a top within the levels is labelled so.         *)
LEMMA WalkLabelled ==
  ASSUME NEW h, NEW lab, Tree(h, lab), NEW t \in 1..Len(h), h[t].kind = "dir", lab[t].path = <<>>,
         NEW p \in Seq(Arg), Len(p) < Depth, Walk(h, t, p) # Nil, Depth \in Nat
  PROVE  /\ Walk(h, t, p) \in 1..Len(h) /\ h[Walk(h, t, p)].kind = "dir"
         /\ lab[Walk(h, t, p)] = At(lab[t], p)
<1>. DEFINE Fine(q) == Walk(h, t, q) # Nil =>
              /\ Walk(h, t, q) \in 1..Len(h) /\ h[Walk(h, t, q)].kind = "dir"
              /\ lab[Walk(h, t, q)] = At(lab[t], q)
            S == {k \in Nat : k < Depth => \A q \in Seq(Arg) : Len(q) = k => Fine(q)}
<1>1. HeapOK(h) /\ t \in 0..Len(h) /\ lab[t] \in Labels
  BY TreeFacts
<1>2. 0 \in S
  <2>1. ASSUME NEW q \in Seq(Arg), Len(q) = 0 PROVE Fine(q)
    <3>1. q = <<>>
      BY <2>1, EmptySeq
    <3>2. Walk(h, t, q) = t
      BY <1>1, <3>1, WalkEmpty
    <3>3. At(lab[t], q) = lab[t]
      BY <1>1, <3>1, AtLabel
    <3>. QED BY <3>2, <3>3
  <2>. QED BY <2>1
<1>3. ASSUME NEW k \in Nat, k \in S PROVE k + 1 \in S
  <2>1. ASSUME k + 1 < Depth, NEW q \in Seq(Arg), Len(q) = k + 1, Walk(h, t, q) # Nil
        PROVE  Fine(q)
    <3>1. PICK r, a : r = Levels(q) /\ a = Slot(q)
      BY Zenon
    <3>2. r \in Seq(Arg) /\ Len(r) = k /\ a \in Arg /\ q = Append(r, a)
      BY <2>1, <3>1, LevelsFacts
    <3>3. PICK o : o = Walk(h, t, r)
      OBVIOUS
    <3>4. o \in 0..Len(h) /\ Walk(h, t, q) = IF o = Nil THEN Nil ELSE h[o].kids[a]
      BY <1>1, <3>2, <3>3, WalkAppend
    <3>5. o # Nil /\ Walk(h, t, q) = h[o].kids[a]
      BY <2>1, <3>4
    <3>6. k < Depth
      BY <2>1
    <3>7. o \in 1..Len(h) /\ h[o].kind = "dir" /\ lab[o] = At(lab[t], r)
      BY <1>3, <3>2, <3>3, <3>5, <3>6
    <3>8. lab[o].path = r
      BY <1>1, <3>2, <3>7, AtLabel
    <3>9. h[o].kids[a] # Nil => h[h[o].kids[a]].kind = "dir" /\ lab[h[o].kids[a]] = Child(lab[o], a)
      BY <2>1, <3>2, <3>7, <3>8 DEF Tree, DirOK
    <3>10. h[o].kids[a] \in 0..Len(h)
      BY <3>2, <3>7, TreeFacts
    <3>11. Child(At(lab[t], r), a) = At(lab[t], q)
      BY <1>1, <3>2, AtLabel
    <3>. QED BY <2>1, <3>5, <3>7, <3>9, <3>10, <3>11 DEF Nil
  <2>. HIDE DEF Fine
  <2>2. ASSUME NEW q \in Seq(Arg), k + 1 < Depth, Len(q) = k + 1 PROVE Fine(q)
    <3>1. CASE Walk(h, t, q) # Nil
      BY <2>1, <2>2, <3>1
    <3>2. CASE Walk(h, t, q) = Nil
      BY <3>2 DEF Fine
    <3>. QED BY <3>1, <3>2
  <2>. QED BY <2>2
<1>4. Nat \subseteq S
  <2>. HIDE DEF S
  <2>. QED BY <1>2, <1>3, SetInduction
<1>5. Len(p) \in S
  BY <1>4, LenProperties
<1>. QED BY <1>5

(* Every level can be reached from the top of its tree.                     *)
LEMMA LevelReached ==
  ASSUME NEW h, NEW lab, Tree(h, lab), NEW o \in 1..Len(h), h[o].kind = "dir"
  PROVE  Walk(h, lab[o].top, lab[o].path) = o
<1>. DEFINE Fine(c) == Walk(h, lab[c].top, lab[c].path) = c
            S == {k \in Nat : \A c \in 1..Len(h) : h[c].kind = "dir" /\ Len(lab[c].path) = k => Fine(c)}
<1>1. HeapOK(h)
  BY DEF Tree
<1>2. ASSUME NEW c \in 1..Len(h), h[c].kind = "dir"
      PROVE  DirOK(h, lab, c) /\ lab[c] \in Labels /\ lab[c].path \in Seq(Arg) /\ lab[c].top \in 0..Len(h)
  <2>1. DirOK(h, lab, c) /\ lab[c] \in Labels
    BY <1>2, TreeFacts DEF Tree
  <2>. QED BY <2>1 DEF DirOK, Labels
<1>3. 0 \in S
  <2>1. ASSUME NEW c \in 1..Len(h), h[c].kind = "dir", Len(lab[c].path) = 0 PROVE Fine(c)
    <3>1. lab[c].path = <<>>
      BY <1>2, <2>1, EmptySeq
    <3>2. lab[c].top = c
      BY <1>2, <2>1, <3>1 DEF DirOK
    <3>. QED BY <1>1, <1>2, <2>1, <3>1, <3>2, WalkEmpty
  <2>. QED BY <2>1
<1>4. ASSUME NEW k \in Nat, k \in S PROVE k + 1 \in S
  <2>1. ASSUME NEW c \in 1..Len(h), h[c].kind = "dir", Len(lab[c].path) = k + 1 PROVE Fine(c)
    <3>1. lab[c].path # <<>> /\ lab[c].path \in Seq(Arg)
      BY <1>2, <2>1, EmptySeq
    <3>2. PICK a : a = Slot(lab[c].path)
      OBVIOUS
    <3>3. PICK q \in 1..Len(h) : h[q].kind = "dir" /\ lab[c] = Child(lab[q], a) /\ h[q].kids[a] = c
      BY <1>2, <2>1, <3>1, <3>2 DEF DirOK
    <3>4. a \in Arg
      BY <2>1, <3>1, <3>2, LevelsFacts
    <3>5. lab[q] \in Labels /\ lab[q].path \in Seq(Arg) /\ lab[q].top \in 0..Len(h)
      BY <1>2, <3>3
    <3>6. lab[c].top = lab[q].top /\ lab[c].path = Append(lab[q].path, a)
      <4>1. PICK l : l = lab[q]
        OBVIOUS
      <4>2. l \in Labels /\ lab[c] = Child(l, a)
        BY <3>3, <3>5, <4>1
      <4>3. Child(l, a).top = l.top /\ Child(l, a).path = Append(l.path, a)
        BY <3>4, <4>2, ChildLabel
      <4>. QED BY <4>1, <4>2, <4>3
    <3>7. Len(lab[q].path) = k
      <4>1. Len(lab[c].path) = Len(lab[q].path) + 1 /\ Len(lab[q].path) \in Nat
        BY <3>4, <3>5, <3>6, Appended
      <4>. QED BY <2>1, <4>1
    <3>8. Walk(h, lab[q].top, lab[q].path) = q
      BY <1>4, <3>3, <3>7
    <3>9. Walk(h, lab[q].top, Append(lab[q].path, a)) = IF q = Nil THEN Nil ELSE h[q].kids[a]
      BY <1>1, <3>4, <3>5, <3>8, WalkAppend, SMTT(60)
    <3>. QED BY <3>3, <3>6, <3>9 DEF Nil
  <2>. QED BY <2>1
<1>5. Nat \subseteq S
  <2>. HIDE DEF S
  <2>. QED BY <1>3, <1>4, SetInduction
<1>6. Len(lab[o].path) \in S
  BY <1>2, <1>5, LenProperties
<1>. QED BY <1>6


-----------------------------------------------------------------------------
(* Making levels *)

(* h2 has all of h, under the same labels; what is new is levels, and the  *)
(* slots are left alone.                                                   *)
Grown(h, lab, h2, lab2) ==
  /\ Len(h) <= Len(h2)
  /\ \A o \in 1..Len(h) :
       /\ h2[o].kind = h[o].kind /\ lab2[o] = lab[o]
       /\ \A a \in Arg : h[o].kids[a] # Nil => h2[o].kids[a] = h[o].kids[a]
       /\ Len(lab[o].path) + 1 = Depth => h2[o].kids = h[o].kids
  /\ \A o \in 1..Len(h2) : o > Len(h) =>
       h2[o].kind = "dir" /\ (Len(lab2[o].path) + 1 = Depth => h2[o].kids = Bare)

LEMMA GrownSame == ASSUME NEW h, NEW lab, Len(h) \in Nat PROVE Grown(h, lab, h, lab)
BY DEF Grown

LEMMA GrownFurther ==
  ASSUME NEW h, NEW lab, NEW h2, NEW lab2, NEW h3, NEW lab3,
         Len(h) \in Nat, Len(h2) \in Nat, Len(h3) \in Nat,
         Grown(h, lab, h2, lab2), Grown(h2, lab2, h3, lab3)
  PROVE  Grown(h, lab, h3, lab3)
<1>1. Len(h) <= Len(h2) /\ Len(h2) <= Len(h3)
  BY DEF Grown
<1>2. ASSUME NEW o \in 1..Len(h)
      PROVE  /\ h3[o].kind = h[o].kind /\ lab3[o] = lab[o]
             /\ \A a \in Arg : h[o].kids[a] # Nil => h3[o].kids[a] = h[o].kids[a]
             /\ Len(lab[o].path) + 1 = Depth => h3[o].kids = h[o].kids
  <2>1. o \in 1..Len(h2)
    BY <1>1
  <2>2. /\ h2[o].kind = h[o].kind /\ lab2[o] = lab[o]
        /\ \A a \in Arg : h[o].kids[a] # Nil => h2[o].kids[a] = h[o].kids[a]
        /\ Len(lab[o].path) + 1 = Depth => h2[o].kids = h[o].kids
    BY DEF Grown
  <2>3. /\ h3[o].kind = h2[o].kind /\ lab3[o] = lab2[o]
        /\ \A a \in Arg : h2[o].kids[a] # Nil => h3[o].kids[a] = h2[o].kids[a]
        /\ Len(lab2[o].path) + 1 = Depth => h3[o].kids = h2[o].kids
    BY <2>1 DEF Grown
  <2>. QED BY <2>2, <2>3
<1>3. ASSUME NEW o \in 1..Len(h3), o > Len(h)
      PROVE  h3[o].kind = "dir" /\ (Len(lab3[o].path) + 1 = Depth => h3[o].kids = Bare)
  <2>1. CASE o > Len(h2)
    BY <2>1 DEF Grown
  <2>2. CASE ~(o > Len(h2))
    <3>1. o \in 1..Len(h2)
      BY <2>2
    <3>2. h2[o].kind = "dir" /\ (Len(lab2[o].path) + 1 = Depth => h2[o].kids = Bare)
      BY <1>3, <3>1 DEF Grown
    <3>3. h3[o].kind = h2[o].kind /\ lab3[o] = lab2[o] /\ (Len(lab2[o].path) + 1 = Depth => h3[o].kids = h2[o].kids)
      BY <3>1 DEF Grown
    <3>. QED BY <3>2, <3>3
  <2>. QED BY <2>1, <2>2
<1>4. Len(h) <= Len(h3)
  BY <1>1
<1>. QED BY <1>2, <1>3, <1>4 DEF Grown

(* A heap with one more level, in the slot a of t, or of nothing.          *)
Linked(h, t, a) == Append([h EXCEPT ![t].kids[a] = Len(h) + 1], Dir)

LEMMA DirObject == Dir \in Object /\ Dir.kind = "dir" /\ \A a \in Arg : Dir.kids[a] = Nil
BY DEF Dir, Object, Bare, Nil

LEMMA LinkedFacts ==
  ASSUME NEW h, HeapOK(h), NEW t \in 1..Len(h), NEW a \in Arg
  PROVE  /\ HeapOK(Linked(h, t, a)) /\ Len(Linked(h, t, a)) = Len(h) + 1 /\ Len(h) \in Nat
         /\ Linked(h, t, a)[Len(h) + 1] = Dir
         /\ \A o \in 1..Len(h) :
              /\ Linked(h, t, a)[o].kind = h[o].kind
              /\ o # t => Linked(h, t, a)[o] = h[o]
              /\ \A b \in Arg : Linked(h, t, a)[o].kids[b]
                                  = IF o = t /\ b = a THEN Len(h) + 1 ELSE h[o].kids[b]
<1>1. h \in Seq(Object) /\ Len(h) \in Nat /\ \A o \in 1..Len(h) : h[o] \in Object
  BY DEF HeapOK
<1>2. PICK n, ks : n = Len(h) + 1 /\ ks = [h[t].kids EXCEPT ![a] = n]
  BY Zenon
<1>3. h[t].kids \in [Arg -> Nat]
  BY <1>1 DEF Object
<1>4. ks \in [Arg -> Nat] /\ ks[a] = n /\ \A b \in Arg : b # a => ks[b] = h[t].kids[b]
  BY <1>1, <1>2, <1>3
<1>5. PICK ob : ob = [kind |-> h[t].kind, kids |-> ks]
  OBVIOUS
<1>6. ob \in Object /\ ob.kind = h[t].kind /\ ob.kids = ks
  BY <1>1, <1>4, <1>5 DEF Object
<1>7. PICK g : g = [h EXCEPT ![t] = ob]
  OBVIOUS
<1>8. g = [h EXCEPT ![t].kids[a] = n]
  <2>1. PICK x : x = h[t]
    OBVIOUS
  <2>2. x = [kind |-> x.kind, kids |-> x.kids]
    BY <1>1, <2>1 DEF Object
  <2>3. [x EXCEPT !.kids[a] = n] = [kind |-> x.kind, kids |-> [x.kids EXCEPT ![a] = n]]
    BY <2>2
  <2>4. [h EXCEPT ![t].kids[a] = n] = [h EXCEPT ![t] = [x EXCEPT !.kids[a] = n]]
    BY <2>1
  <2>. QED BY <1>2, <1>5, <1>7, <2>1, <2>3, <2>4
<1>9. g \in Seq(Object) /\ Len(g) = Len(h) /\ g[t] = ob /\ \A o \in 1..Len(h) : o # t => g[o] = h[o]
  BY <1>1, <1>6, <1>7
<1>10. PICK k : k = Append(g, Dir)
  OBVIOUS
<1>11. k = Linked(h, t, a)
  BY <1>2, <1>8, <1>10 DEF Linked
<1>12. k \in Seq(Object) /\ Len(k) = n /\ k[n] = Dir /\ \A o \in 1..Len(h) : k[o] = g[o]
  BY <1>2, <1>9, <1>10, DirObject, Appended
<1>13. \A o \in 1..Len(h) : k[o].kind = h[o].kind /\ (o # t => k[o] = h[o])
  BY <1>6, <1>9, <1>12
<1>14. ASSUME NEW o \in 1..Len(h), NEW b \in Arg
       PROVE  k[o].kids[b] = IF o = t /\ b = a THEN n ELSE h[o].kids[b]
  BY <1>4, <1>6, <1>9, <1>12
<1>15. HeapOK(k)
  <2>1. ASSUME NEW o \in 1..Len(k), NEW b \in Arg PROVE k[o].kids[b] <= Len(k)
    <3>1. CASE o = n
      BY <3>1, <1>1, <1>2, <1>12, DirObject DEF Nil
    <3>2. CASE o # n
      <4>1. o \in 1..Len(h)
        BY <1>1, <1>2, <1>12, <3>2
      <4>2. h[o].kids[b] \in Nat /\ h[o].kids[b] <= Len(h)
        BY <1>1, <4>1 DEF HeapOK, Object
      <4>. QED BY <1>1, <1>2, <1>12, <1>14, <4>1, <4>2
    <3>. QED BY <3>1, <3>2
  <2>. QED BY <1>12, <2>1 DEF HeapOK
<1>. QED BY <1>1, <1>2, <1>11, <1>12, <1>13, <1>14, <1>15


(* s is a heap grown from h, and in it a level with the label l.            *)
Stands(h, lab, s, lab2, l) ==
  /\ Tree(s.heap, lab2) /\ Grown(h, lab, s.heap, lab2)
  /\ s.at \in 1..Len(s.heap) /\ s.heap[s.at].kind = "dir" /\ lab2[s.at] = l

(* One turn of the loop of ensure_phase_args_parent.                       *)
Level(h, t, a) ==
  IF h[t].kids[a] # Nil THEN [heap |-> h, at |-> h[t].kids[a]]
  ELSE [heap |-> Linked(h, t, a), at |-> Len(h) + 1]

LEMMA LabelsAppend ==
  ASSUME NEW lab \in Seq(Labels), NEW l \in Labels
  PROVE  /\ Append(lab, l) \in Seq(Labels) /\ Len(Append(lab, l)) = Len(lab) + 1
         /\ Append(lab, l)[Len(lab) + 1] = l
         /\ \A o \in 1..Len(lab) : Append(lab, l)[o] = lab[o]
BY Appended

LEMMA LinkedStands ==
  ASSUME NEW h, NEW lab, Tree(h, lab), NEW t \in 1..Len(h), h[t].kind = "dir",
         NEW a \in Arg, h[t].kids[a] = Nil, Len(lab[t].path) + 1 < Depth, Depth \in Nat
  PROVE  \E lab2 : Stands(h, lab, [heap |-> Linked(h, t, a), at |-> Len(h) + 1], lab2, Child(lab[t], a))
<1>1. PICK l, k, n, c : l = lab[t] /\ k = Linked(h, t, a) /\ n = Len(h) + 1 /\ c = Child(l, a)
  BY Zenon
<1>2. /\ HeapOK(h) /\ l \in Labels /\ DirOK(h, lab, t) /\ lab \in Seq(Labels) /\ Len(lab) = Len(h)
      /\ Len(h) \in Nat
  BY <1>1, TreeFacts DEF Tree
<1>3. /\ HeapOK(k) /\ Len(k) = n /\ k[n] = Dir
      /\ \A o \in 1..Len(h) :
           /\ k[o].kind = h[o].kind /\ (o # t => k[o] = h[o])
           /\ \A b \in Arg : k[o].kids[b] = IF o = t /\ b = a THEN n ELSE h[o].kids[b]
  BY <1>1, <1>2, LinkedFacts
<1>4. c \in Labels /\ c.top = l.top /\ c.path = Append(l.path, a) /\ l.path \in Seq(Arg)
  BY <1>1, <1>2, ChildLabel DEF Labels
<1>5. PICK lb : lb = Append(lab, c)
  OBVIOUS
<1>6. lb \in Seq(Labels) /\ Len(lb) = n /\ lb[n] = c /\ \A o \in 1..Len(h) : lb[o] = lab[o]
  BY <1>1, <1>2, <1>4, <1>5, LabelsAppend
<1>7. n \in 1..Len(k) /\ n \in 1..n /\ \A o \in 1..n : o = n \/ o \in 1..Len(h)
  BY <1>1, <1>2, <1>3
<1>8. \A o \in 1..Len(h) : o # n /\ o \in 1..Len(k)
  BY <1>1, <1>2, <1>3
<1>9. ASSUME NEW o \in 1..Len(h), k[o].kind = "dir" PROVE DirOK(k, lb, o)
  <2>1. h[o].kind = "dir" /\ DirOK(h, lab, o) /\ lb[o] = lab[o] /\ lab[o] \in Labels
    BY <1>2, <1>3, <1>6, <1>9, TreeFacts DEF Tree
  <2>2. /\ lab[o].top \in 1..Len(h) /\ Len(lab[o].path) < Depth
        /\ (lab[o].path = <<>> => lab[o].top = o)
    BY <2>1 DEF DirOK
  <2>3. ASSUME lab[o].path # <<>>
        PROVE  \E q \in 1..Len(k) : /\ k[q].kind = "dir"
                                    /\ lb[o] = Child(lb[q], Slot(lb[o].path))
                                    /\ k[q].kids[Slot(lb[o].path)] = o
    <3>1. PICK b : b = Slot(lab[o].path)
      OBVIOUS
    <3>2. PICK q \in 1..Len(h) : h[q].kind = "dir" /\ lab[o] = Child(lab[q], b) /\ h[q].kids[b] = o
      BY <2>1, <2>3, <3>1 DEF DirOK
    <3>3. b \in Arg
      <4>1. lab[o].path \in Seq(Arg) /\ Len(lab[o].path) # 0
        BY <2>1, <2>3, EmptySeq DEF Labels
      <4>. QED BY <3>1, <4>1, LevelsFacts
    <3>4. ~(q = t /\ b = a)
      BY <3>2 DEF Nil
    <3>5. k[q].kids[b] = o
      BY <1>3, <3>2, <3>3, <3>4
    <3>. QED BY <1>3, <1>6, <1>8, <2>1, <3>1, <3>2, <3>5
  <2>4. ASSUME Len(lab[o].path) + 1 < Depth, NEW b \in Arg, k[o].kids[b] # Nil
        PROVE  k[k[o].kids[b]].kind = "dir" /\ lb[k[o].kids[b]] = Child(lb[o], b)
    <3>1. CASE o = t /\ b = a
      BY <1>1, <1>3, <1>6, <2>1, <3>1, DirObject
    <3>2. CASE ~(o = t /\ b = a)
      <4>1. PICK d : d = h[o].kids[b]
        OBVIOUS
      <4>2. k[o].kids[b] = d
        BY <1>3, <3>2, <4>1
      <4>3. d \in 1..Len(h)
        <5>1. d \in 0..Len(h) /\ d # Nil
          BY <2>4, <4>1, <4>2, TreeFacts
        <5>. QED BY <5>1 DEF Nil
      <4>4. h[d].kind = "dir" /\ lab[d] = Child(lab[o], b)
        BY <2>1, <2>4, <4>1, <4>2 DEF DirOK
      <4>. QED BY <1>3, <1>6, <2>1, <4>2, <4>3, <4>4
    <3>. QED BY <3>1, <3>2
  <2>5. lb[o].top \in 1..Len(k)
    BY <1>8, <2>1, <2>2
  <2>. QED BY <2>1, <2>2, <2>3, <2>4, <2>5 DEF DirOK
<1>10. DirOK(k, lb, n)
  <2>1. Len(c.path) = Len(l.path) + 1 /\ c.path # <<>> /\ Slot(c.path) = a
    BY <1>4, Appended, LevelsOfAppend
  <2>2. Len(c.path) < Depth
    BY <1>1, <2>1
  <2>3. c.top \in 1..Len(k)
    BY <1>1, <1>2, <1>4, <1>8 DEF DirOK
  <2>4. t \in 1..Len(k) /\ k[t].kind = "dir" /\ c = Child(lb[t], a) /\ k[t].kids[a] = n
    BY <1>1, <1>3, <1>6, <1>8
  <2>5. \A b \in Arg : k[n].kids[b] = Nil
    BY <1>3, DirObject
  <2>. QED BY <1>6, <2>1, <2>2, <2>3, <2>4, <2>5 DEF DirOK
<1>11. Tree(k, lb)
  <2>1. \A o \in 1..Len(k) : o = n \/ o \in 1..Len(h)
    BY <1>3, <1>7
  <2>2. \A o \in 1..Len(k) : k[o].kind = "dir" => DirOK(k, lb, o)
    BY <1>9, <1>10, <2>1
  <2>. QED BY <1>3, <1>6, <2>2 DEF Tree
<1>12. Grown(h, lab, k, lb)
  <2>1. ASSUME NEW o \in 1..Len(h)
        PROVE  /\ k[o].kind = h[o].kind /\ lb[o] = lab[o]
               /\ \A b \in Arg : h[o].kids[b] # Nil => k[o].kids[b] = h[o].kids[b]
               /\ Len(lab[o].path) + 1 = Depth => k[o].kids = h[o].kids
    <3>1. \A b \in Arg : h[o].kids[b] # Nil => k[o].kids[b] = h[o].kids[b]
      BY <1>3
    <3>2. Len(lab[o].path) + 1 = Depth => o # t
      OBVIOUS
    <3>. QED BY <1>3, <1>6, <3>1, <3>2
  <2>2. ASSUME NEW o \in 1..Len(k), o > Len(h)
        PROVE  k[o].kind = "dir" /\ (Len(lb[o].path) + 1 = Depth => k[o].kids = Bare)
    <3>1. o = n
      BY <1>1, <1>2, <1>3, <2>2
    <3>. QED BY <1>3, <3>1, DirObject DEF Dir
  <2>3. Len(h) <= Len(k)
    BY <1>1, <1>2, <1>3
  <2>. QED BY <2>1, <2>2, <2>3 DEF Grown
<1>13. k[n].kind = "dir"
  BY <1>3, DirObject
<1>14. PICK s : s = [heap |-> k, at |-> n]
  OBVIOUS
<1>15. s.heap = k /\ s.at = n
  BY <1>14
<1>16. Stands(h, lab, s, lb, c)
  BY <1>6, <1>7, <1>11, <1>12, <1>13, <1>15 DEF Stands
<1>. QED BY <1>1, <1>14, <1>16

LEMMA LevelStands ==
  ASSUME NEW h, NEW lab, Tree(h, lab), NEW t \in 1..Len(h), h[t].kind = "dir",
         NEW a \in Arg, Len(lab[t].path) + 1 < Depth, Depth \in Nat
  PROVE  \E lab2 : Stands(h, lab, Level(h, t, a), lab2, Child(lab[t], a))
<1>1. CASE h[t].kids[a] = Nil
  BY <1>1, LinkedStands DEF Level
<1>2. CASE h[t].kids[a] # Nil
  <2>1. PICK s : s = Level(h, t, a)
    OBVIOUS
  <2>2. s.heap = h /\ s.at = h[t].kids[a]
    BY <1>2, <2>1 DEF Level
  <2>3. h[s.at].kind = "dir" /\ lab[s.at] = Child(lab[t], a)
    BY <1>2, <2>2 DEF Tree, DirOK
  <2>4. s.at \in 1..Len(h)
    <3>1. s.at \in 0..Len(h) /\ s.at # Nil
      BY <1>2, <2>2, TreeFacts
    <3>. QED BY <3>1 DEF Nil
  <2>5. Grown(h, lab, h, lab)
    BY TreeFacts, GrownSame
  <2>6. Stands(h, lab, s, lab, Child(lab[t], a))
    BY <2>2, <2>3, <2>4, <2>5 DEF Stands
  <2>. QED BY <2>1, <2>6
<1>. QED BY <1>1, <1>2


Places == {s \in [heap : Seq(Object), at : Nat] : HeapOK(s.heap) /\ s.at \in 1..Len(s.heap)}

LEMMA LevelPlace ==
  ASSUME NEW s \in Places, NEW a \in Arg
  PROVE  Level(s.heap, s.at, a) \in Places
<1>1. PICK h, t : h = s.heap /\ t = s.at
  BY Zenon
<1>2. HeapOK(h) /\ t \in 1..Len(h) /\ h \in Seq(Object) /\ Len(h) \in Nat
  BY <1>1 DEF Places
<1>3. CASE h[t].kids[a] # Nil
  <2>1. PICK d : d = h[t].kids[a]
    OBVIOUS
  <2>2. d \in Nat /\ d <= Len(h)
    <3>1. h[t] \in Object
      BY <1>2
    <3>2. h[t].kids[a] \in Nat
      BY <3>1 DEF Object
    <3>. QED BY <1>2, <2>1, <3>2 DEF HeapOK
  <2>3. d \in 1..Len(h)
    BY <1>2, <1>3, <2>1, <2>2 DEF Nil
  <2>4. Level(h, t, a) = [heap |-> h, at |-> d]
    BY <1>3, <2>1 DEF Level
  <2>. QED BY <1>1, <1>2, <2>2, <2>3, <2>4 DEF Places
<1>4. CASE h[t].kids[a] = Nil
  <2>1. PICK k : k = Linked(h, t, a)
    OBVIOUS
  <2>2. HeapOK(k) /\ Len(k) = Len(h) + 1
    BY <1>2, <2>1, LinkedFacts
  <2>3. k \in Seq(Object) /\ Len(h) + 1 \in Nat /\ Len(h) + 1 \in 1..Len(k)
    BY <1>2, <2>2 DEF HeapOK
  <2>4. Level(h, t, a) = [heap |-> k, at |-> Len(h) + 1]
    BY <1>4, <2>1 DEF Level
  <2>. QED BY <1>1, <2>2, <2>3, <2>4 DEF Places
<1>. QED BY <1>3, <1>4

Climbs(f, h, t, args) ==
  /\ f[0] = [heap |-> h, at |-> t]
  /\ \A i \in 1..Len(args) - 1 : f[i] = Level(f[i - 1].heap, f[i - 1].at, args[i])

(* The levels made, one after the other.                                   *)
LEMMA EnsureClimbs ==
  ASSUME NEW h, HeapOK(h), NEW t \in 1..Len(h), NEW args \in Seq(Arg), Len(args) # 0
  PROVE  \E f : Climbs(f, h, t, args) /\ EnsurePhaseArgsParent(h, t, args) = f[Len(args) - 1]
<1>. DEFINE n == Len(args) - 1
            start == [heap |-> h, at |-> t]
            G == [i \in Nat |-> [s \in Places |-> IF i \in 1..n THEN Level(s.heap, s.at, args[i]) ELSE s]]
            Def(c) == [i \in 0..n |-> IF i = 0 THEN start ELSE Level(c[i - 1].heap, c[i - 1].at, args[i])]
            C == CHOOSE c : c = Def(c)
<1>1. n \in Nat /\ \A i \in 1..n : args[i] \in Arg
  OBVIOUS
<1>2. EnsurePhaseArgsParent(h, t, args) = C[n]
  BY DEF EnsurePhaseArgsParent, Level, Linked, Dir
<1>3. start \in Places
  BY DEF Places, HeapOK
<1>. HIDE DEF n, C, start
<1>4. IsStep(G, Places) /\ \A i \in 1..n, s \in Places : G[i][s] = Level(s.heap, s.at, args[i])
  <2>1. \A i \in Nat, s \in Places : G[i][s] = IF i \in 1..n THEN Level(s.heap, s.at, args[i]) ELSE s
    OBVIOUS
  <2>. HIDE DEF G
  <2>2. \A i \in 1..n : i \in Nat
    BY <1>1
  <2>3. \A i \in 1..n, s \in Places : G[i][s] = Level(s.heap, s.at, args[i])
    BY <2>1, <2>2
  <2>4. ASSUME NEW i \in Nat, NEW s \in Places PROVE G[i][s] \in Places
    BY <1>1, <2>1, LevelPlace, SMTT(60)
  <2>. QED BY <2>3, <2>4 DEF IsStep
<1>. HIDE DEF G
<1>5. PICK f : Iterates(f, Places, start, G, n)
  BY <1>1, <1>3, <1>4, IterationExists
<1>6. /\ f = [i \in 0..n |-> f[i]]
      /\ f[0] = start
      /\ \A i \in 0..n : f[i] \in Places
      /\ \A i \in 1..n : f[i] = G[i][f[i - 1]]
  BY <1>5 DEF Iterates
<1>7. \A i \in 1..n : i \in 0..n /\ i - 1 \in 0..n /\ i # 0
  BY <1>1
<1>8. \A i \in 1..n : f[i] = Level(f[i - 1].heap, f[i - 1].at, args[i])
  BY <1>4, <1>6, <1>7
<1>9. f = Def(f)
  <2>1. \A i \in 0..n : i = 0 \/ i \in 1..n
    BY <1>1
  <2>2. \A i \in 0..n : f[i] = IF i = 0 THEN start ELSE Level(f[i - 1].heap, f[i - 1].at, args[i])
    BY <1>6, <1>8, <2>1
  <2>3. [i \in 0..n |-> f[i]] = Def(f)
    BY <2>2
  <2>. QED BY <2>3, <1>6
<1>10. C = Def(C)
  <2>. HIDE DEF Def
  <2>. QED BY <1>9 DEF C
<1>11. C[0] = start /\ \A i \in 1..n : C[i] = Level(C[i - 1].heap, C[i - 1].at, args[i])
  <2>1. \A i \in 0..n : C[i] = IF i = 0 THEN start ELSE Level(C[i - 1].heap, C[i - 1].at, args[i])
    BY <1>10
  <2>2. 0 \in 0..n
    BY <1>1
  <2>. HIDE DEF Def
  <2>. QED BY <2>1, <2>2, <1>7
<1>12. Climbs(C, h, t, args)
  BY <1>11 DEF Climbs, n, start
<1>. QED BY <1>2, <1>12 DEF n

(* What ensure_phase_args_parent returns is the level of the arguments     *)
(* before the last; all it did to the heap is to add levels.               *)
LEMMA EnsureStands ==
  ASSUME NEW h, NEW lab, Tree(h, lab), NEW t \in 1..Len(h), h[t].kind = "dir", lab[t].path = <<>>,
         NEW args \in Seq(Arg), Len(args) = Depth, Depth \in Nat \ {0}
  PROVE  \E lab2 : Stands(h, lab, EnsurePhaseArgsParent(h, t, args), lab2, At(lab[t], Levels(args)))
<1>. DEFINE n == Len(args) - 1
<1>1. HeapOK(h) /\ lab[t] \in Labels /\ Len(args) # 0 /\ n \in Nat
  BY TreeFacts
<1>2. PICK f : Climbs(f, h, t, args) /\ EnsurePhaseArgsParent(h, t, args) = f[n]
  BY <1>1, EnsureClimbs
<1>3. PICK l : l = lab[t]
  OBVIOUS
<1>4. l \in Labels /\ l.path = <<>>
  BY <1>1, <1>3
<1>. DEFINE Fine(i) == \E lab2 : Stands(h, lab, f[i], lab2, At(l, Prefix(args, i)))
            S == {i \in Nat : Fine(i)}
<1>5. 0 \in S
  <2>1. f[0] = [heap |-> h, at |-> t]
    BY <1>2 DEF Climbs
  <2>2. PICK s : s = f[0]
    OBVIOUS
  <2>3. s.heap = h /\ s.at = t
    BY <2>1, <2>2
  <2>4. At(l, Prefix(args, 0)) = lab[t]
    <3>1. Prefix(args, 0) = <<>>
      BY <1>1, LevelsFacts
    <3>2. At(l, l.path) = l
      BY <1>4, AtLabel DEF Labels
    <3>. QED BY <1>3, <1>4, <3>1, <3>2
  <2>5. Grown(h, lab, h, lab)
    BY TreeFacts, GrownSame
  <2>6. Stands(h, lab, s, lab, At(l, Prefix(args, 0)))
    BY <2>3, <2>4, <2>5 DEF Stands
  <2>. QED BY <2>2, <2>6
<1>6. ASSUME NEW i \in 1..n, i - 1 \in S PROVE i \in S
  <2>1. i \in 1..Len(args) - 1 /\ i \in Nat /\ i \in 1..Len(args) /\ i - 1 \in 0..Len(args)
    BY <1>1
  <2>2. PICK lab1 : Stands(h, lab, f[i - 1], lab1, At(l, Prefix(args, i - 1)))
    BY <1>6
  <2>3. PICK s, p, a : s = f[i - 1] /\ p = Prefix(args, i - 1) /\ a = args[i]
    BY Zenon
  <2>4. /\ Tree(s.heap, lab1) /\ Grown(h, lab, s.heap, lab1)
        /\ s.at \in 1..Len(s.heap) /\ s.heap[s.at].kind = "dir" /\ lab1[s.at] = At(l, p)
    BY <2>2, <2>3 DEF Stands
  <2>5. p \in Seq(Arg) /\ Len(p) = i - 1 /\ a \in Arg /\ Prefix(args, i) = Append(p, a)
    <3>1. args[i] \in Arg
      BY <2>1
    <3>2. p \in Seq(Arg) /\ Len(p) = i - 1
      BY <2>1, <2>3, PrefixFacts
    <3>3. Prefix(args, i) = Append(Prefix(args, i - 1), args[i])
      BY <2>1, PrefixNext
    <3>. QED BY <2>3, <3>1, <3>2, <3>3
  <2>6. Len(lab1[s.at].path) + 1 < Depth
    <3>1. lab1[s.at].path = p
      BY <1>4, <2>4, <2>5, AtLabel
    <3>. QED BY <2>1, <2>5, <3>1
  <2>7. f[i] = Level(s.heap, s.at, a)
    BY <1>2, <2>1, <2>3 DEF Climbs
  <2>8. PICK lab2 : Stands(s.heap, lab1, Level(s.heap, s.at, a), lab2, Child(lab1[s.at], a))
    <3>1. PICK g, u : g = s.heap /\ u = s.at
      BY Zenon
    <3>2. Tree(g, lab1) /\ u \in 1..Len(g) /\ g[u].kind = "dir" /\ Len(lab1[u].path) + 1 < Depth
      BY <2>4, <2>6, <3>1
    <3>3. \E lab2 : Stands(g, lab1, Level(g, u, a), lab2, Child(lab1[u], a))
      BY <2>5, <3>2, LevelStands
    <3>. QED BY <3>1, <3>3
  <2>9. Child(lab1[s.at], a) = At(l, Prefix(args, i))
    BY <1>4, <2>4, <2>5, AtLabel
  <2>10. PICK r : r = f[i]
    OBVIOUS
  <2>11. Stands(s.heap, lab1, r, lab2, At(l, Prefix(args, i)))
    BY <2>7, <2>8, <2>9, <2>10
  <2>12. Len(h) \in Nat /\ Len(s.heap) \in Nat /\ Len(r.heap) \in Nat
    <3>1. Tree(r.heap, lab2)
      BY <2>11 DEF Stands
    <3>. QED BY <2>4, <3>1, TreeFacts
  <2>13. Grown(h, lab, r.heap, lab2)
    <3>1. PICK g, k : g = s.heap /\ k = r.heap
      BY Zenon
    <3>2. Grown(h, lab, g, lab1) /\ Grown(g, lab1, k, lab2)
      BY <2>4, <2>11, <3>1 DEF Stands
    <3>3. Len(h) \in Nat /\ Len(g) \in Nat /\ Len(k) \in Nat
      BY <2>12, <3>1
    <3>4. Grown(h, lab, k, lab2)
      BY <3>2, <3>3, GrownFurther
    <3>. QED BY <3>1, <3>4
  <2>14. Stands(h, lab, r, lab2, At(l, Prefix(args, i)))
    BY <2>11, <2>13 DEF Stands
  <2>. QED BY <2>1, <2>10, <2>14
<1>7. 0..n \subseteq S
  <2>. HIDE DEF S, n
  <2>. QED BY <1>1, <1>5, <1>6, IntervalInduction
<1>8. n \in 0..n
  BY <1>1
<1>9. Fine(n)
  BY <1>7, <1>8
<1>. QED BY <1>2, <1>3, <1>9 DEF Levels


(* k has all of h under the same labels, and above the slots it is as it   *)
(* was there.                                                              *)
KeepsLevels(h, lab, k, lb) ==
  /\ Len(h) <= Len(k)
  /\ \A q \in 1..Len(h) :
       /\ k[q].kind = h[q].kind /\ lb[q] = lab[q]
       /\ Len(lab[q].path) + 1 # Depth => \A b \in Arg : k[q].kids[b] = h[q].kids[b]

LEMMA SameLevels ==
  ASSUME NEW h, NEW lab, Tree(h, lab), NEW k, NEW lb, HeapOK(k), lb \in Seq(Labels), Len(lb) = Len(k),
         KeepsLevels(h, lab, k, lb), Depth \in Nat,
         \A q \in 1..Len(k) : q > Len(h) /\ k[q].kind = "dir" => DirOK(k, lb, q)
  PROVE  Tree(k, lb)
<1>1. Len(h) \in Nat /\ Len(k) \in Nat /\ Len(h) <= Len(k)
  BY TreeFacts DEF HeapOK, KeepsLevels
<1>2. ASSUME NEW o \in 1..Len(h), k[o].kind = "dir" PROVE DirOK(k, lb, o)
  <2>1. k[o].kind = h[o].kind /\ lb[o] = lab[o] /\ lab[o] \in Labels /\ DirOK(h, lab, o)
    BY <1>2, TreeFacts DEF Tree, KeepsLevels
  <2>2. PICK p : p = lab[o].path
    OBVIOUS
  <2>3. p \in Seq(Arg)
    BY <2>1, <2>2 DEF Labels
  <2>4. ASSUME p # <<>>
        PROVE  \E q \in 1..Len(k) : /\ k[q].kind = "dir" /\ lb[o] = Child(lb[q], Slot(p))
                                    /\ k[q].kids[Slot(p)] = o
    <3>1. PICK b : b = Slot(p)
      OBVIOUS
    <3>2. b \in Arg
      <4>1. Len(p) # 0
        BY <2>3, <2>4, EmptySeq
      <4>. QED BY <2>3, <3>1, <4>1, LevelsFacts
    <3>3. PICK q \in 1..Len(h) : h[q].kind = "dir" /\ lab[o] = Child(lab[q], b) /\ h[q].kids[b] = o
      BY <2>1, <2>2, <2>4, <3>1 DEF DirOK
    <3>4. PICK l : l = lab[q]
      OBVIOUS
    <3>5. l \in Labels /\ l.path \in Seq(Arg)
      BY <3>3, <3>4, TreeFacts DEF Labels
    <3>6. Len(p) = Len(l.path) + 1 /\ Len(l.path) \in Nat
      <4>1. Child(l, b).path = Append(l.path, b)
        BY <3>2, <3>5, ChildLabel
      <4>2. p = Append(l.path, b)
        BY <2>2, <3>3, <3>4, <4>1
      <4>. QED BY <3>2, <3>5, <4>2, Appended
    <3>7. Len(l.path) + 1 # Depth
      <4>1. Len(p) < Depth
        BY <2>1, <2>2 DEF DirOK
      <4>. QED BY <3>6, <4>1
    <3>8. k[q].kind = "dir" /\ lb[q] = l /\ k[q].kids[b] = o
      BY <3>2, <3>3, <3>4, <3>7 DEF KeepsLevels
    <3>9. q \in 1..Len(k)
      BY <1>1
    <3>. QED BY <2>1, <3>1, <3>3, <3>4, <3>8, <3>9
  <2>5. ASSUME Len(p) + 1 < Depth, NEW b \in Arg, k[o].kids[b] # Nil
        PROVE  k[k[o].kids[b]].kind = "dir" /\ lb[k[o].kids[b]] = Child(lb[o], b)
    <3>1. Len(p) + 1 # Depth
      BY <2>3, <2>5
    <3>2. PICK d : d = h[o].kids[b]
      OBVIOUS
    <3>3. k[o].kids[b] = d
      BY <2>2, <3>1, <3>2 DEF KeepsLevels
    <3>4. h[d].kind = "dir" /\ lab[d] = Child(lab[o], b)
      BY <2>1, <2>2, <2>5, <3>2, <3>3 DEF DirOK
    <3>5. d \in 1..Len(h)
      <4>1. d \in 0..Len(h) /\ d # Nil
        BY <2>5, <3>2, <3>3, TreeFacts
      <4>. QED BY <4>1 DEF Nil
    <3>6. k[d].kind = h[d].kind /\ lb[d] = lab[d]
      BY <3>5 DEF KeepsLevels
    <3>. QED BY <2>1, <3>3, <3>4, <3>6
  <2>6. lab[o].top \in 1..Len(k) /\ Len(p) < Depth /\ (p = <<>> => lab[o].top = o)
    <3>1. lab[o].top \in 1..Len(h) /\ Len(p) < Depth /\ (p = <<>> => lab[o].top = o)
      BY <2>1, <2>2 DEF DirOK
    <3>. QED BY <1>1, <3>1
  <2>. QED BY <2>1, <2>2, <2>4, <2>5, <2>6 DEF DirOK
<1>3. \A o \in 1..Len(k) : o \in 1..Len(h) \/ o > Len(h)
  BY <1>1
<1>4. \A o \in 1..Len(k) : k[o].kind = "dir" => DirOK(k, lb, o)
  BY <1>2, <1>3
<1>. QED BY <1>4 DEF Tree

(* t is the top table of n among the tables w, made at epoch ep.            *)
TopLabel(w, n, ep, t) == [w |-> w, node |-> n, epoch |-> ep, top |-> t, path |-> <<>>]
IsTop(h, lab, t, w, n, ep) == t \in 1..Len(h) /\ h[t].kind = "dir" /\ lab[t] = TopLabel(w, n, ep, t)

Rooted(h, lab, t, r, lab2, w, n, ep) ==
  /\ Tree(r.heap, lab2) /\ Grown(h, lab, r.heap, lab2) /\ IsTop(r.heap, lab2, r.at, w, n, ep)
  /\ t # Nil => r.at = t

LEMMA RootStands ==
  ASSUME NEW h, NEW lab, Tree(h, lab), NEW w \in Tables, NEW n \in Node, NEW ep \in Nat, NEW t,
         t # Nil => IsTop(h, lab, t, w, n, ep), Depth \in Nat \ {0}
  PROVE  \E lab2 : Rooted(h, lab, t, EnsureRoot(h, t), lab2, w, n, ep)
<1>1. PICK r : r = EnsureRoot(h, t)
  OBVIOUS
<1>2. HeapOK(h) /\ Len(h) \in Nat /\ h \in Seq(Object) /\ lab \in Seq(Labels) /\ Len(lab) = Len(h)
  BY TreeFacts DEF Tree, HeapOK
<1>3. CASE t # Nil
  <2>1. r.heap = h /\ r.at = t
    BY <1>1, <1>3 DEF EnsureRoot
  <2>2. Rooted(h, lab, t, r, lab, w, n, ep)
    BY <1>2, <1>3, <2>1, GrownSame DEF Rooted
  <2>. QED BY <1>1, <2>2
<1>4. CASE t = Nil
  <2>1. PICK k, m, l : k = Append(h, Dir) /\ m = Len(h) + 1 /\ l = TopLabel(w, n, ep, m)
    BY Zenon
  <2>2. r.heap = k /\ r.at = m
    BY <1>1, <1>4, <2>1 DEF EnsureRoot, Dir
  <2>3. k \in Seq(Object) /\ Len(k) = m /\ k[m] = Dir /\ \A o \in 1..Len(h) : k[o] = h[o]
    BY <1>2, <2>1, DirObject, Appended
  <2>4. <<>> \in Seq(Arg) /\ m \in Nat /\ Len(<<>>) = 0
    BY <1>2, <2>1
  <2>5. l \in Labels /\ l.path = <<>> /\ l.top = m
    BY <2>1, <2>4 DEF TopLabel, Labels
  <2>6. PICK lb : lb = Append(lab, l)
    OBVIOUS
  <2>7. lb \in Seq(Labels) /\ Len(lb) = m /\ lb[m] = l /\ \A o \in 1..Len(h) : lb[o] = lab[o]
    BY <1>2, <2>1, <2>5, <2>6, LabelsAppend
  <2>8. m \in 1..Len(k) /\ Len(h) <= Len(k) /\ \A o \in 1..Len(k) : o = m \/ o \in 1..Len(h)
    BY <1>2, <2>1, <2>3
  <2>9. \A o \in 1..Len(k) : o > Len(h) => o = m
    BY <1>2, <2>8
  <2>10. HeapOK(k)
    <3>1. ASSUME NEW o \in 1..Len(k), NEW b \in Arg PROVE k[o].kids[b] <= Len(k)
      <4>1. CASE o = m
        BY <4>1, <1>2, <2>1, <2>3, DirObject DEF Nil
      <4>2. CASE o # m
        <5>1. o \in 1..Len(h)
          BY <4>2, <2>8
        <5>2. h[o] \in Object
          BY <1>2, <5>1
        <5>3. h[o].kids[b] \in Nat
          BY <5>2 DEF Object
        <5>4. h[o].kids[b] <= Len(h)
          BY <1>2, <5>1 DEF HeapOK
        <5>. QED BY <1>2, <2>1, <2>3, <5>1, <5>3, <5>4
      <4>. QED BY <4>1, <4>2
    <3>. QED BY <2>3, <3>1 DEF HeapOK
  <2>11. DirOK(k, lb, m)
    <3>1. \A b \in Arg : k[m].kids[b] = Nil
      BY <2>3, DirObject
    <3>. QED BY <2>4, <2>5, <2>7, <2>8, <3>1 DEF DirOK
  <2>12. KeepsLevels(h, lab, k, lb)
    BY <2>3, <2>7, <2>8 DEF KeepsLevels
  <2>13. Tree(k, lb)
    <3>1. \A q \in 1..Len(k) : q > Len(h) /\ k[q].kind = "dir" => DirOK(k, lb, q)
      BY <2>9, <2>11
    <3>. QED BY <2>3, <2>7, <2>10, <2>12, <3>1, SameLevels
  <2>14. k[m].kind = "dir" /\ k[m].kids = Bare
    BY <2>3 DEF Dir
  <2>15. Grown(h, lab, k, lb)
    <3>1. \A o \in 1..Len(k) : o > Len(h) =>
            k[o].kind = "dir" /\ (Len(lb[o].path) + 1 = Depth => k[o].kids = Bare)
      BY <2>9, <2>14
    <3>. QED BY <2>3, <2>7, <2>8, <3>1 DEF Grown
  <2>16. IsTop(k, lb, m, w, n, ep)
    BY <2>1, <2>7, <2>8, <2>14 DEF IsTop
  <2>17. Rooted(h, lab, t, r, lb, w, n, ep)
    BY <1>4, <2>2, <2>13, <2>15, <2>16 DEF Rooted
  <2>. QED BY <1>1, <2>17
<1>. QED BY <1>3, <1>4


(* One slot written *)
Put(h, o, a, v) == [h EXCEPT ![o].kids[a] = v]

PutIn(h, o, a, v, k) ==
  /\ k \in Seq(Object) /\ Len(k) = Len(h)
  /\ \A q \in 1..Len(h) :
       /\ k[q].kind = h[q].kind
       /\ q # o => k[q] = h[q]
       /\ \A b \in Arg : k[q].kids[b] = IF q = o /\ b = a THEN v ELSE h[q].kids[b]

LEMMA PutFacts ==
  ASSUME NEW h \in Seq(Object), NEW o \in 1..Len(h), NEW a \in Arg, NEW v \in Nat
  PROVE  PutIn(h, o, a, v, Put(h, o, a, v))
<1>1. \A q \in 1..Len(h) : h[q] \in Object
  OBVIOUS
<1>2. PICK ks : ks = [h[o].kids EXCEPT ![a] = v]
  OBVIOUS
<1>3. h[o].kids \in [Arg -> Nat]
  BY <1>1 DEF Object
<1>4. ks \in [Arg -> Nat] /\ ks[a] = v /\ \A b \in Arg : b # a => ks[b] = h[o].kids[b]
  BY <1>2, <1>3
<1>5. PICK ob : ob = [kind |-> h[o].kind, kids |-> ks]
  OBVIOUS
<1>6. ob \in Object /\ ob.kind = h[o].kind /\ ob.kids = ks
  BY <1>1, <1>4, <1>5 DEF Object
<1>7. PICK g : g = [h EXCEPT ![o] = ob]
  OBVIOUS
<1>8. g = Put(h, o, a, v)
  <2>1. PICK x : x = h[o]
    OBVIOUS
  <2>2. x = [kind |-> x.kind, kids |-> x.kids]
    BY <1>1, <2>1 DEF Object
  <2>3. [x EXCEPT !.kids[a] = v] = [kind |-> x.kind, kids |-> [x.kids EXCEPT ![a] = v]]
    BY <2>2
  <2>4. [h EXCEPT ![o].kids[a] = v] = [h EXCEPT ![o] = [x EXCEPT !.kids[a] = v]]
    BY <2>1
  <2>. QED BY <1>2, <1>5, <1>7, <2>1, <2>3, <2>4 DEF Put
<1>9. g \in Seq(Object) /\ Len(g) = Len(h) /\ g[o] = ob /\ \A q \in 1..Len(h) : q # o => g[q] = h[q]
  BY <1>1, <1>6, <1>7
<1>10. \A q \in 1..Len(h) : g[q].kind = h[q].kind
  BY <1>6, <1>9
<1>11. ASSUME NEW q \in 1..Len(h), NEW b \in Arg
       PROVE  g[q].kids[b] = IF q = o /\ b = a THEN v ELSE h[q].kids[b]
  BY <1>4, <1>6, <1>9
<1>. QED BY <1>8, <1>9, <1>10, <1>11 DEF PutIn

LEMMA KidsInHeap ==
  ASSUME NEW h, HeapOK(h), NEW o \in 1..Len(h), NEW a \in Arg
  PROVE  h[o].kids[a] \in Nat /\ h[o].kids[a] <= Len(h)
<1>1. h[o] \in Object
  BY DEF HeapOK
<1>2. h[o].kids[a] \in Nat
  BY <1>1 DEF Object
<1>. QED BY <1>2 DEF HeapOK

(* What HandlerReturnsFull does last: the slot a of o gets the recording,  *)
(* which is a new object, as its buffer is.                                *)
LEMMA RecordedFacts ==
  ASSUME NEW h, HeapOK(h), NEW o \in 1..Len(h), NEW a \in Arg, NEW k,
         k = WithRecording(Put(h, o, a, Len(h) + 1))
  PROVE  /\ HeapOK(k) /\ Len(k) = Len(h) + 2 /\ Len(h) \in Nat
         /\ \A q \in 1..Len(h) :
              /\ k[q].kind = h[q].kind
              /\ q # o => k[q] = h[q]
              /\ \A b \in Arg : k[q].kids[b] = IF q = o /\ b = a THEN Len(h) + 1 ELSE h[q].kids[b]
         /\ \A q \in 1..Len(k) : q > Len(h) => k[q].kind # "dir"
<1>1. h \in Seq(Object) /\ Len(h) \in Nat
  BY DEF HeapOK
<1>2. PICK n, x, y : /\ n = Len(h) + 1 /\ x = [kind |-> "entry", kids |-> Bare]
                     /\ y = [kind |-> "buf", kids |-> Bare]
  BY Zenon
<1>3. x \in Object /\ y \in Object /\ x.kind # "dir" /\ y.kind # "dir" /\ \A b \in Arg : x.kids[b] = Nil /\ y.kids[b] = Nil
  BY <1>2 DEF Object, Bare, Nil
<1>4. PICK g : g = Put(h, o, a, n)
  OBVIOUS
<1>5. /\ g \in Seq(Object) /\ Len(g) = Len(h)
      /\ \A q \in 1..Len(h) :
           /\ g[q].kind = h[q].kind
           /\ q # o => g[q] = h[q]
           /\ \A b \in Arg : g[q].kids[b] = IF q = o /\ b = a THEN n ELSE h[q].kids[b]
  <2>1. n \in Nat
    BY <1>1, <1>2
  <2>2. PutIn(h, o, a, n, g)
    BY <1>1, <1>4, <2>1, PutFacts
  <2>. QED BY <2>2 DEF PutIn
<1>6. k = Append(Append(g, x), y)
  <2>1. k = g \o <<x, y>>
    BY <1>2, <1>4 DEF WithRecording
  <2>2. PICK S : S = Object
    OBVIOUS
  <2>3. g \in Seq(S) /\ x \in S /\ y \in S
    BY <1>3, <1>5, <2>2
  <2>4. g \o <<x, y>> = Append(Append(g, x), y)
    BY <2>3
  <2>. QED BY <2>1, <2>4
<1>7. PICK i : i = Append(g, x)
  OBVIOUS
<1>8. i \in Seq(Object) /\ Len(i) = n /\ i[n] = x /\ \A q \in 1..Len(h) : i[q] = g[q]
  <2>1. /\ i \in Seq(Object) /\ Len(i) = Len(g) + 1 /\ i[Len(g) + 1] = x
        /\ \A q \in 1..Len(g) : i[q] = g[q]
    BY <1>3, <1>5, <1>7, Appended
  <2>. QED BY <1>2, <1>5, <2>1
<1>9. k \in Seq(Object) /\ Len(k) = n + 1 /\ k[n + 1] = y /\ \A q \in 1..n : k[q] = i[q]
  <2>1. k = Append(i, y)
    BY <1>6, <1>7
  <2>2. /\ k \in Seq(Object) /\ Len(k) = Len(i) + 1 /\ k[Len(i) + 1] = y
        /\ \A q \in 1..Len(i) : k[q] = i[q]
    <3>1. i \in Seq(Object) /\ y \in Object
      BY <1>3, <1>8
    <3>2. /\ Append(i, y) \in Seq(Object) /\ Len(Append(i, y)) = Len(i) + 1
          /\ \A q \in 1..Len(i) : Append(i, y)[q] = i[q]
          /\ Append(i, y)[Len(i) + 1] = y
      BY <3>1, Appended
    <3>. QED BY <2>1, <3>2
  <2>. QED BY <1>8, <2>2
<1>10. n \in 1..n /\ \A q \in 1..Len(h) : q \in 1..n
  BY <1>1, <1>2
<1>11. k[n] = x /\ \A q \in 1..Len(h) : k[q] = g[q]
  BY <1>8, <1>9, <1>10
<1>12. \A q \in 1..Len(k) : q > Len(h) => q = n \/ q = n + 1
  BY <1>1, <1>2, <1>9
<1>13. \A q \in 1..Len(k) : q > Len(h) => k[q].kind # "dir" /\ \A b \in Arg : k[q].kids[b] = Nil
  BY <1>3, <1>9, <1>11, <1>12
<1>14. HeapOK(k)
  <2>1. ASSUME NEW q \in 1..Len(k), NEW b \in Arg PROVE k[q].kids[b] <= Len(k)
    <3>1. CASE q > Len(h)
      BY <3>1, <1>1, <1>2, <1>9, <1>13 DEF Nil
    <3>2. CASE ~(q > Len(h))
      <4>1. q \in 1..Len(h)
        BY <1>1, <3>2
      <4>2. k[q].kids[b] = IF q = o /\ b = a THEN n ELSE h[q].kids[b]
        BY <1>5, <1>11, <4>1
      <4>3. h[q].kids[b] \in Nat /\ h[q].kids[b] <= Len(h)
        BY <4>1, KidsInHeap
      <4>. QED BY <1>1, <1>2, <1>9, <4>2, <4>3
    <3>. QED BY <3>1, <3>2
  <2>. QED BY <1>9, <2>1 DEF HeapOK
<1>15. Len(k) = Len(h) + 2
  BY <1>1, <1>2, <1>9
<1>16. ASSUME NEW q \in 1..Len(h)
       PROVE  /\ k[q].kind = h[q].kind
              /\ q # o => k[q] = h[q]
              /\ \A b \in Arg : k[q].kids[b] = IF q = o /\ b = a THEN Len(h) + 1 ELSE h[q].kids[b]
  BY <1>2, <1>5, <1>11
<1>. QED BY <1>1, <1>13, <1>14, <1>15, <1>16

(* What FinishFull does: the slot a of o gets the buffer v, that of p is   *)
(* emptied.                                                                *)
Swapped(h, o, p, a, v) == [h EXCEPT ![o].kids[a] = v, ![p].kids[a] = Nil]

LEMMA FinishedFacts ==
  ASSUME NEW h, HeapOK(h), NEW o \in 1..Len(h), NEW p \in 1..Len(h), o # p,
         NEW a \in Arg, NEW v \in 1..Len(h), NEW k,
         k = Swapped(h, o, p, a, v)
  PROVE  /\ HeapOK(k) /\ Len(k) = Len(h)
         /\ \A q \in 1..Len(h) :
              /\ k[q].kind = h[q].kind
              /\ q # o /\ q # p => k[q] = h[q]
              /\ \A b \in Arg : k[q].kids[b] = IF b = a /\ q = o THEN v
                                               ELSE IF b = a /\ q = p THEN Nil ELSE h[q].kids[b]
<1>1. h \in Seq(Object) /\ Len(h) \in Nat /\ v \in Nat /\ Nil \in Nat
  BY DEF HeapOK, Nil
<1>2. PICK g : g = Put(h, o, a, v)
  OBVIOUS
<1>3. PutIn(h, o, a, v, g)
  BY <1>1, <1>2, PutFacts
<1>4. k = Put(g, p, a, Nil)
  BY <1>2 DEF Put, Swapped
<1>5. PutIn(g, p, a, Nil, k) /\ Len(g) = Len(h)
  <2>1. g \in Seq(Object) /\ Len(g) = Len(h) /\ p \in 1..Len(g)
    BY <1>3 DEF PutIn
  <2>2. PICK z : z = Nil
    OBVIOUS
  <2>3. PutIn(g, p, a, z, Put(g, p, a, z))
    BY <1>1, <2>1, <2>2, PutFacts
  <2>. QED BY <1>4, <2>1, <2>2, <2>3
<1>6. ASSUME NEW q \in 1..Len(h), NEW b \in Arg
      PROVE  k[q].kids[b] = IF b = a /\ q = o THEN v ELSE IF b = a /\ q = p THEN Nil ELSE h[q].kids[b]
  <2>1. g[q].kids[b] = IF q = o /\ b = a THEN v ELSE h[q].kids[b]
    BY <1>3 DEF PutIn
  <2>2. k[q].kids[b] = IF q = p /\ b = a THEN Nil ELSE g[q].kids[b]
    BY <1>5 DEF PutIn
  <2>. QED BY <2>1, <2>2
<1>7. \A q \in 1..Len(h) : k[q].kind = h[q].kind /\ (q # o /\ q # p => k[q] = h[q])
  BY <1>3, <1>5 DEF PutIn
<1>8. HeapOK(k)
  <2>1. ASSUME NEW q \in 1..Len(k), NEW b \in Arg PROVE k[q].kids[b] <= Len(k)
    <3>1. q \in 1..Len(h) /\ Len(k) = Len(h)
      BY <1>5 DEF PutIn
    <3>2. h[q].kids[b] \in Nat /\ h[q].kids[b] <= Len(h)
      BY <3>1, KidsInHeap
    <3>3. k[q].kids[b] = v \/ k[q].kids[b] = Nil \/ k[q].kids[b] = h[q].kids[b]
      BY <1>6, <3>1
    <3>. QED BY <1>1, <3>1, <3>2, <3>3 DEF Nil
  <2>. QED BY <1>5, <2>1 DEF HeapOK, PutIn
<1>9. Len(k) = Len(h)
  BY <1>5 DEF PutIn
<1>. QED BY <1>6, <1>7, <1>8, <1>9


-----------------------------------------------------------------------------
(* The invariant of mode "full".  The labels are its witness: they are in  *)
(* nobody's state.                                                         *)

Handler == [node : Node, args : Tuples, epoch : Nat, roots : [Tables -> Nat]]
Record == [node : Node, args : Tuples, obj : Nat, buf : Nat, epoch : Nat,
           cacheParent : Nat, pendingParent : Nat, done : BOOLEAN]

(* A top table in use is the node's, since the last reset. *)
RootsOK(h, lab, rt, rs) ==
  \A w \in Tables, n \in Node : rt[w][n] # Nil => IsTop(h, lab, rt[w][n], w, n, rs)

(* What a call looked up before its handler ran is the node's, as of then.  *)
HandlersOK(h, lab, hs) ==
  \A k \in 1..Len(hs), w \in Tables :
    hs[k].roots[w] # Nil => IsTop(h, lab, hs[k].roots[w], w, hs[k].node, hs[k].epoch)

(* o is the level of the arguments of x before the last.                    *)
IsParent(h, lab, o, w, x) ==
  /\ o \in 1..Len(h) /\ h[o].kind = "dir"
  /\ lab[o].w = w /\ lab[o].node = x.node /\ lab[o].epoch = x.epoch /\ lab[o].path = Levels(x.args)

(* A recording will write where its own arguments lead.                     *)
EntryOK(h, lab, x) ==
  /\ IsParent(h, lab, x.cacheParent, "cache", x)
  /\ IsParent(h, lab, x.pendingParent, "pending", x)
  /\ x.obj \in 1..Len(h) /\ x.buf \in 1..Len(h)
EntriesOK(h, lab, es) == \A e \in 1..Len(es) : EntryOK(h, lab, es[e])

(* What is in a slot is of the recording whose arguments lead there.        *)
SlotOf(h, lab, o, a, x) ==
  /\ x.node = lab[o].node /\ x.epoch = lab[o].epoch /\ x.args = Append(lab[o].path, a)
  /\ lab[o].w = "cache" => x.done /\ h[o].kids[a] = x.buf
  /\ lab[o].w = "pending" => ~x.done /\ h[o].kids[a] = x.obj /\ x.pendingParent = o
SlotsOK(h, lab, es) ==
  \A o \in 1..Len(h), a \in Arg :
    h[o].kind = "dir" /\ Len(lab[o].path) + 1 = Depth /\ h[o].kids[a] # Nil =>
      \E e \in 1..Len(es) : SlotOf(h, lab, o, a, es[e])

FullOK(h, lab, es, rt, hs, rs) ==
  /\ Tree(h, lab)
  /\ RootsOK(h, lab, rt, rs)
  /\ HandlersOK(h, lab, hs)
  /\ EntriesOK(h, lab, es)
  /\ SlotsOK(h, lab, es)

-----------------------------------------------------------------------------
(* New levels disturb nothing. *)

LEMMA GrownTop ==
  ASSUME NEW h, NEW lab, NEW h2, NEW lab2, Len(h) \in Nat, Len(h2) \in Nat, Grown(h, lab, h2, lab2),
         NEW t, NEW w, NEW n, NEW ep, IsTop(h, lab, t, w, n, ep)
  PROVE  IsTop(h2, lab2, t, w, n, ep)
BY DEF Grown, IsTop

LEMMA GrownParent ==
  ASSUME NEW h, NEW lab, NEW h2, NEW lab2, Len(h) \in Nat, Len(h2) \in Nat, Grown(h, lab, h2, lab2),
         NEW o, NEW w, NEW x, IsParent(h, lab, o, w, x)
  PROVE  IsParent(h2, lab2, o, w, x)
BY DEF Grown, IsParent

LEMMA GrownFull ==
  ASSUME NEW h, NEW lab, NEW h2, NEW lab2, NEW es, NEW rt, NEW hs, NEW rs,
         FullOK(h, lab, es, rt, hs, rs), Tree(h2, lab2), Grown(h, lab, h2, lab2)
  PROVE  FullOK(h2, lab2, es, rt, hs, rs)
<1>1. Len(h) \in Nat /\ Len(h2) \in Nat /\ Tree(h, lab) /\ Len(h) <= Len(h2)
  BY TreeFacts DEF FullOK, Grown
<1>2. RootsOK(h2, lab2, rt, rs)
  BY <1>1, GrownTop DEF FullOK, RootsOK
<1>3. HandlersOK(h2, lab2, hs)
  BY <1>1, GrownTop DEF FullOK, HandlersOK
<1>4. EntriesOK(h2, lab2, es)
  <2>1. ASSUME NEW x, EntryOK(h, lab, x) PROVE EntryOK(h2, lab2, x)
    <3>1. IsParent(h2, lab2, x.cacheParent, "cache", x) /\ IsParent(h2, lab2, x.pendingParent, "pending", x)
      BY <1>1, <2>1, GrownParent DEF EntryOK
    <3>. QED BY <1>1, <2>1, <3>1 DEF EntryOK
  <2>. QED BY <2>1 DEF FullOK, EntriesOK
<1>5. SlotsOK(h2, lab2, es)
  <2>1. ASSUME NEW o \in 1..Len(h2), NEW a \in Arg,
               h2[o].kind = "dir", Len(lab2[o].path) + 1 = Depth, h2[o].kids[a] # Nil
        PROVE  \E e \in 1..Len(es) : SlotOf(h2, lab2, o, a, es[e])
    <3>1. o \in 1..Len(h)
      <4>1. CASE o > Len(h)
        <5>1. h2[o].kids = Bare
          BY <2>1, <4>1 DEF Grown
        <5>. QED BY <2>1, <5>1 DEF Bare
      <4>. QED BY <1>1, <4>1
    <3>2. lab2[o] = lab[o] /\ h2[o].kind = h[o].kind
      BY <3>1 DEF Grown
    <3>3. h2[o].kids = h[o].kids
      BY <2>1, <3>1, <3>2 DEF Grown
    <3>4. PICK e \in 1..Len(es) : SlotOf(h, lab, o, a, es[e])
      BY <2>1, <3>1, <3>2, <3>3 DEF FullOK, SlotsOK
    <3>5. SlotOf(h2, lab2, o, a, es[e])
      BY <3>2, <3>3, <3>4 DEF SlotOf
    <3>. QED BY <3>5
  <2>. QED BY <2>1 DEF SlotsOK
<1>. QED BY <1>2, <1>3, <1>4, <1>5 DEF FullOK

-----------------------------------------------------------------------------
(* What a lookup finds *)

(* e answers a lookup of args among the tables w. *)
Answers(x, w, obj) ==
  /\ w = "cache" => x.done /\ obj = x.buf
  /\ w = "pending" => ~x.done /\ obj = x.obj

LEMMA WalkNil ==
  ASSUME NEW h, HeapOK(h), NEW args \in Seq(Arg), Len(args) # 0
  PROVE  Walk(h, Nil, args) = Nil
<1>1. PICK f : Goes(f, h, Nil, args) /\ Walk(h, Nil, args) = f[Len(args)]
  <2>1. Nil \in 0..Len(h)
    BY DEF HeapOK, Nil
  <2>. QED BY <2>1, WalkGoes
<1>. DEFINE S == {i \in Nat : f[i] = Nil}
<1>2. 0 \in S
  BY <1>1 DEF Goes
<1>3. ASSUME NEW i \in 1..Len(args), i - 1 \in S PROVE i \in S
  BY <1>1, <1>3 DEF Goes
<1>4. 0..Len(args) \subseteq S
  <2>. HIDE DEF S
  <2>. QED BY <1>2, <1>3, LenProperties, IntervalInduction
<1>5. Len(args) \in 0..Len(args)
  BY LenProperties
<1>. QED BY <1>1, <1>4, <1>5

LEMMA LookupSound ==
  ASSUME Uniform, NEW h, NEW lab, NEW es, NEW rt, NEW hs, NEW rs, FullOK(h, lab, es, rt, hs, rs),
         NEW w \in Tables, NEW n \in Node, NEW args \in Tuples, Walk(h, rt[w][n], args) # Nil
  PROVE  \E e \in 1..Len(es) :
           /\ es[e].node = n /\ es[e].args = args /\ es[e].epoch = rs
           /\ Answers(es[e], w, Walk(h, rt[w][n], args))
<1>1. Depth \in Nat \ {0} /\ args \in Seq(Arg) /\ Len(args) = Depth
  BY DepthFacts
<1>2. Tree(h, lab) /\ HeapOK(h) /\ Len(h) \in Nat
  BY TreeFacts DEF FullOK
<1>3. PICK t : t = rt[w][n]
  OBVIOUS
<1>4. t # Nil
  BY <1>1, <1>2, <1>3, WalkNil
<1>5. t \in 1..Len(h) /\ h[t].kind = "dir" /\ lab[t] = TopLabel(w, n, rs, t)
  BY <1>3, <1>4 DEF FullOK, RootsOK, IsTop
<1>6. PICK p, a : p = Levels(args) /\ a = Slot(args)
  BY Zenon
<1>7. p \in Seq(Arg) /\ Len(p) + 1 = Depth /\ a \in Arg /\ args = Append(p, a)
  BY <1>1, <1>6, LevelsFacts
<1>8. PICK o : o = Walk(h, t, p)
  OBVIOUS
<1>9. t \in 0..Len(h)
  BY <1>2, <1>5
<1>10. o \in 0..Len(h) /\ Walk(h, t, args) = IF o = Nil THEN Nil ELSE h[o].kids[a]
  BY <1>2, <1>7, <1>8, <1>9, WalkAppend
<1>11. o # Nil /\ Walk(h, t, args) = h[o].kids[a] /\ h[o].kids[a] # Nil
  BY <1>3, <1>10
<1>12. lab[t].path = <<>> /\ Len(p) < Depth /\ lab[t] \in Labels
  <2>1. lab[t].path = <<>>
    BY <1>5 DEF TopLabel
  <2>2. Len(p) < Depth
    BY <1>1, <1>7
  <2>. QED BY <1>2, <1>5, <2>1, <2>2, TreeFacts
<1>13. o \in 1..Len(h) /\ h[o].kind = "dir" /\ lab[o] = At(lab[t], p)
  BY <1>1, <1>2, <1>5, <1>7, <1>8, <1>11, <1>12, WalkLabelled
<1>14. lab[o].w = w /\ lab[o].node = n /\ lab[o].epoch = rs /\ lab[o].path = p
  <2>1. PICK l : l = lab[t]
    OBVIOUS
  <2>2. /\ At(l, p).w = l.w /\ At(l, p).node = l.node /\ At(l, p).epoch = l.epoch
        /\ At(l, p).path = p
    BY <1>7, <1>12, <2>1, AtLabel
  <2>3. l.w = w /\ l.node = n /\ l.epoch = rs
    BY <1>5, <2>1 DEF TopLabel
  <2>. QED BY <1>13, <2>1, <2>2, <2>3
<1>15. PICK e \in 1..Len(es) : SlotOf(h, lab, o, a, es[e])
  BY <1>7, <1>11, <1>13, <1>14 DEF FullOK, SlotsOK
<1>16. /\ es[e].node = n /\ es[e].args = args /\ es[e].epoch = rs
       /\ Answers(es[e], w, h[o].kids[a])
  BY <1>7, <1>14, <1>15 DEF SlotOf, Answers
<1>. QED BY <1>3, <1>11, <1>16

(* x can be found: the tops in use lead to the levels it was made in.       *)
Found(h, lab, x, rt) ==
  /\ lab[x.cacheParent].top = rt["cache"][x.node]
  /\ lab[x.pendingParent].top = rt["pending"][x.node]
  /\ x.done => h[x.cacheParent].kids[Slot(x.args)] = x.buf
  /\ ~x.done => h[x.pendingParent].kids[Slot(x.args)] = x.obj

LEMMA LookupComplete ==
  ASSUME Uniform, NEW h, NEW lab, Tree(h, lab), NEW rt, NEW x \in Record, EntryOK(h, lab, x), Found(h, lab, x, rt)
  PROVE  /\ x.done => Walk(h, rt["cache"][x.node], x.args) # Nil
         /\ ~x.done => Walk(h, rt["pending"][x.node], x.args) # Nil
<1>1. PICK args : args = x.args
  OBVIOUS
<1>2. Depth \in Nat \ {0} /\ args \in Seq(Arg) /\ Len(args) = Depth
  BY <1>1, DepthFacts DEF Record
<1>3. HeapOK(h) /\ Len(h) \in Nat
  BY TreeFacts
<1>4. PICK p, a : p = Levels(args) /\ a = Slot(args)
  BY Zenon
<1>5. p \in Seq(Arg) /\ Len(p) + 1 = Depth /\ a \in Arg /\ args = Append(p, a)
  BY <1>2, <1>4, LevelsFacts
<1>6. ASSUME NEW w, NEW o, IsParent(h, lab, o, w, x), lab[o].top = rt[w][x.node]
      PROVE  Walk(h, rt[w][x.node], args) = h[o].kids[a]
  <2>1. o \in 1..Len(h) /\ h[o].kind = "dir" /\ lab[o].path = p
    BY <1>1, <1>4, <1>6 DEF IsParent
  <2>2. Walk(h, lab[o].top, p) = o
    BY <2>1, LevelReached
  <2>3. lab[o].top \in 0..Len(h)
    BY <1>3, <2>1 DEF Tree, DirOK
  <2>4. Walk(h, lab[o].top, args) = IF o = Nil THEN Nil ELSE h[o].kids[a]
    BY <1>3, <1>5, <2>2, <2>3, WalkAppend
  <2>. QED BY <1>6, <2>1, <2>4 DEF Nil
<1>7. Walk(h, rt["cache"][x.node], args) = h[x.cacheParent].kids[a]
  BY <1>6 DEF EntryOK, Found
<1>8. Walk(h, rt["pending"][x.node], args) = h[x.pendingParent].kids[a]
  BY <1>6 DEF EntryOK, Found
<1>9. x.obj # Nil /\ x.buf # Nil
  BY DEF EntryOK, Nil
<1>10. x.done => h[x.cacheParent].kids[a] = x.buf
  BY <1>1, <1>4 DEF Found
<1>11. ~x.done => h[x.pendingParent].kids[a] = x.obj
  BY <1>1, <1>4 DEF Found
<1>. QED BY <1>1, <1>7, <1>8, <1>9, <1>10, <1>11


-----------------------------------------------------------------------------
(* What a handler's return does to the tables: first the levels, then the  *)
(* recording. *)

(* c and p are the tops, cp and pp the levels for the call f, in the heap g *)
(* grown from h.                                                           *)
Prepared(h, lab, f, c, p, cp, pp, g, lab2) ==
  /\ Tree(g, lab2) /\ Grown(h, lab, g, lab2)
  /\ IsTop(g, lab2, c, "cache", f.node, f.epoch) /\ IsTop(g, lab2, p, "pending", f.node, f.epoch)
  /\ f.roots["cache"] # Nil => c = f.roots["cache"]
  /\ f.roots["pending"] # Nil => p = f.roots["pending"]
  /\ IsParent(g, lab2, cp, "cache", f) /\ lab2[cp].top = c
  /\ IsParent(g, lab2, pp, "pending", f) /\ lab2[pp].top = p

Parented(h, lab, r, lab2, w, f, t) ==
  /\ Tree(r.heap, lab2) /\ Grown(h, lab, r.heap, lab2)
  /\ IsParent(r.heap, lab2, r.at, w, f) /\ lab2[r.at].top = t

LEMMA EnsureParent ==
  ASSUME Uniform, NEW h, NEW lab, Tree(h, lab), NEW f \in Handler, NEW w \in Tables, NEW t,
         IsTop(h, lab, t, w, f.node, f.epoch), NEW r, r = EnsurePhaseArgsParent(h, t, f.args)
  PROVE  \E lab2 : Parented(h, lab, r, lab2, w, f, t)
<1>1. PICK args : args = f.args
  OBVIOUS
<1>2. Depth \in Nat \ {0} /\ args \in Seq(Arg) /\ Len(args) = Depth
  BY <1>1, DepthFacts DEF Handler
<1>3. t \in 1..Len(h) /\ h[t].kind = "dir" /\ lab[t] = TopLabel(w, f.node, f.epoch, t)
  BY DEF IsTop
<1>4. PICK l : l = lab[t]
  OBVIOUS
<1>5. l \in Labels /\ l.w = w /\ l.node = f.node /\ l.epoch = f.epoch /\ l.top = t /\ l.path = <<>>
  <2>1. l \in Labels
    BY <1>3, <1>4, TreeFacts
  <2>. QED BY <1>3, <1>4, <2>1 DEF TopLabel
<1>6. PICK lab2 : Stands(h, lab, r, lab2, At(l, Levels(args)))
  <2>1. lab[t].path = <<>>
    BY <1>4, <1>5
  <2>2. \E lab2 : Stands(h, lab, EnsurePhaseArgsParent(h, t, args), lab2, At(lab[t], Levels(args)))
    BY <1>2, <1>3, <2>1, EnsureStands
  <2>. QED BY <1>1, <1>4, <2>2
<1>7. PICK q : q = Levels(args)
  OBVIOUS
<1>8. q \in Seq(Arg)
  BY <1>2, <1>7, LevelsFacts
<1>9. /\ At(l, q).w = w /\ At(l, q).node = f.node /\ At(l, q).epoch = f.epoch
      /\ At(l, q).top = t /\ At(l, q).path = q
  BY <1>5, <1>8, AtLabel
<1>10. /\ Tree(r.heap, lab2) /\ Grown(h, lab, r.heap, lab2) /\ r.at \in 1..Len(r.heap)
       /\ r.heap[r.at].kind = "dir" /\ lab2[r.at] = At(l, q)
  BY <1>6, <1>7 DEF Stands
<1>11. IsParent(r.heap, lab2, r.at, w, f) /\ lab2[r.at].top = t
  BY <1>1, <1>7, <1>9, <1>10 DEF IsParent
<1>. QED BY <1>10, <1>11 DEF Parented

LEMMA PrepareStands ==
  ASSUME Uniform, NEW h, NEW lab, Tree(h, lab), NEW f \in Handler,
         \A w \in Tables : f.roots[w] # Nil => IsTop(h, lab, f.roots[w], w, f.node, f.epoch),
         NEW c, c = EnsureRoot(h, f.roots["cache"]),
         NEW p, p = EnsureRoot(c.heap, f.roots["pending"]),
         NEW cp, cp = EnsurePhaseArgsParent(p.heap, c.at, f.args),
         NEW pp, pp = EnsurePhaseArgsParent(cp.heap, p.at, f.args)
  PROVE  \E lab2 : Prepared(h, lab, f, c.at, p.at, cp.at, pp.at, pp.heap, lab2)
<1>1. Depth \in Nat \ {0} /\ f.node \in Node /\ f.epoch \in Nat /\ "cache" \in Tables /\ "pending" \in Tables
  BY DepthFacts DEF Handler, Tables
<1>2. PICK tc, tp, h1, h2, h3, h4, ca, pa, ea, fa :
        /\ tc = f.roots["cache"] /\ tp = f.roots["pending"]
        /\ h1 = c.heap /\ h2 = p.heap /\ h3 = cp.heap /\ h4 = pp.heap
        /\ ca = c.at /\ pa = p.at /\ ea = cp.at /\ fa = pp.at
  BY Zenon
<1>3. PICK l1 : Rooted(h, lab, tc, c, l1, "cache", f.node, f.epoch)
  <2>1. tc # Nil => IsTop(h, lab, tc, "cache", f.node, f.epoch)
    BY <1>1, <1>2, Zenon
  <2>2. c = EnsureRoot(h, tc)
    BY <1>2, Zenon
  <2>. QED BY <1>1, <2>1, <2>2, RootStands
<1>4. /\ Tree(h1, l1) /\ Grown(h, lab, h1, l1) /\ IsTop(h1, l1, ca, "cache", f.node, f.epoch)
      /\ tc # Nil => ca = tc
  BY <1>2, <1>3, Zenon DEF Rooted
<1>5. Len(h) \in Nat /\ Len(h1) \in Nat
  BY <1>4, TreeFacts
<1>6. PICK l2 : Rooted(h1, l1, tp, p, l2, "pending", f.node, f.epoch)
  <2>1. tp # Nil => IsTop(h1, l1, tp, "pending", f.node, f.epoch)
    <3>1. tp # Nil => IsTop(h, lab, tp, "pending", f.node, f.epoch)
      BY <1>1, <1>2, Zenon
    <3>2. IsTop(h, lab, tp, "pending", f.node, f.epoch) => IsTop(h1, l1, tp, "pending", f.node, f.epoch)
      BY <1>4, <1>5, GrownTop
    <3>. QED BY <3>1, <3>2, SMTT(60)
  <2>2. p = EnsureRoot(h1, tp)
    BY <1>2, Zenon
  <2>. QED BY <1>1, <1>4, <2>1, <2>2, RootStands
<1>7. /\ Tree(h2, l2) /\ Grown(h1, l1, h2, l2) /\ IsTop(h2, l2, pa, "pending", f.node, f.epoch)
      /\ tp # Nil => pa = tp
  BY <1>2, <1>6, Zenon DEF Rooted
<1>8. Len(h2) \in Nat
  BY <1>7, TreeFacts
<1>9. IsTop(h2, l2, ca, "cache", f.node, f.epoch)
  BY <1>4, <1>5, <1>7, <1>8, GrownTop
<1>10. PICK l3 : /\ Tree(h3, l3) /\ Grown(h2, l2, h3, l3)
                 /\ IsParent(h3, l3, ea, "cache", f) /\ l3[ea].top = ca
  <2>1. cp = EnsurePhaseArgsParent(h2, ca, f.args)
    BY <1>2, Zenon
  <2>2. PICK l3 : Parented(h2, l2, cp, l3, "cache", f, ca)
    BY <1>1, <1>7, <1>9, <2>1, EnsureParent
  <2>. QED BY <1>2, <2>2, Zenon DEF Parented
<1>11. Len(h3) \in Nat
  BY <1>10, TreeFacts
<1>12. IsTop(h3, l3, pa, "pending", f.node, f.epoch) /\ IsTop(h3, l3, ca, "cache", f.node, f.epoch)
  BY <1>7, <1>8, <1>9, <1>10, <1>11, GrownTop
<1>13. PICK l4 : /\ Tree(h4, l4) /\ Grown(h3, l3, h4, l4)
                 /\ IsParent(h4, l4, fa, "pending", f) /\ l4[fa].top = pa
  <2>1. pp = EnsurePhaseArgsParent(h3, pa, f.args)
    BY <1>2, Zenon
  <2>2. PICK l4 : Parented(h3, l3, pp, l4, "pending", f, pa)
    BY <1>1, <1>10, <1>12, <2>1, EnsureParent
  <2>. QED BY <1>2, <2>2, Zenon DEF Parented
<1>14. Len(h4) \in Nat
  BY <1>13, TreeFacts
<1>15. IsTop(h4, l4, ca, "cache", f.node, f.epoch) /\ IsTop(h4, l4, pa, "pending", f.node, f.epoch)
  BY <1>11, <1>12, <1>13, <1>14, GrownTop
<1>16. IsParent(h4, l4, ea, "cache", f)
  BY <1>10, <1>11, <1>13, <1>14, GrownParent
<1>17. l4[ea].top = ca
  BY <1>10, <1>13 DEF IsParent, Grown
<1>18. Grown(h, lab, h4, l4)
  <2>1. Grown(h, lab, h2, l2)
    BY <1>4, <1>5, <1>7, <1>8, GrownFurther
  <2>2. Grown(h, lab, h3, l3)
    BY <1>5, <1>8, <1>10, <1>11, <2>1, GrownFurther
  <2>. QED BY <1>5, <1>11, <1>13, <1>14, <2>2, GrownFurther
<1>19. Prepared(h, lab, f, ca, pa, ea, fa, h4, l4)
  BY <1>2, <1>4, <1>7, <1>13, <1>15, <1>16, <1>17, <1>18, Zenon DEF Prepared
<1>. QED BY <1>2, <1>19, Zenon

(* The recording made for f with its slot written, in a heap k.             *)
LEMMA RecordedFull ==
  ASSUME Uniform, NEW h, NEW lab, NEW es, NEW rt, NEW hs, NEW rs, FullOK(h, lab, es, rt, hs, rs),
         es \in Seq(Record), NEW f \in Handler, NEW cp, NEW pp,
         IsParent(h, lab, cp, "cache", f), IsParent(h, lab, pp, "pending", f),
         NEW k, k = WithRecording(Put(h, pp, Slot(f.args), Len(h) + 1)),
         NEW x, x = Recording(f, Len(h) + 1, cp, pp)
  PROVE  /\ x \in Record
         /\ \E lab2 : /\ FullOK(k, lab2, Append(es, x), rt, hs, rs)
                      /\ \A o \in 1..Len(h) : lab2[o] = lab[o] /\ k[o].kind = h[o].kind
<1>1. PICK n, a, args : n = Len(h) + 1 /\ a = Slot(args) /\ args = f.args
  BY Zenon
<1>2. Depth \in Nat \ {0} /\ args \in Seq(Arg) /\ Len(args) = Depth
  BY <1>1, DepthFacts DEF Handler
<1>3. Levels(args) \in Seq(Arg) /\ Len(Levels(args)) + 1 = Depth /\ a \in Arg /\ args = Append(Levels(args), a)
  BY <1>1, <1>2, LevelsFacts
<1>4. Tree(h, lab) /\ HeapOK(h) /\ Len(h) \in Nat /\ lab \in Seq(Labels) /\ Len(lab) = Len(h)
  BY TreeFacts DEF FullOK, Tree
<1>5. /\ cp \in 1..Len(h) /\ h[cp].kind = "dir" /\ lab[cp].w = "cache"
      /\ pp \in 1..Len(h) /\ h[pp].kind = "dir" /\ lab[pp].w = "pending"
      /\ lab[pp].node = f.node /\ lab[pp].epoch = f.epoch /\ lab[pp].path = Levels(args)
  BY <1>1 DEF IsParent
<1>6. /\ HeapOK(k) /\ Len(k) = Len(h) + 2
      /\ \A q \in 1..Len(h) :
           /\ k[q].kind = h[q].kind
           /\ q # pp => k[q] = h[q]
           /\ \A b \in Arg : k[q].kids[b] = IF q = pp /\ b = a THEN n ELSE h[q].kids[b]
      /\ \A q \in 1..Len(k) : q > Len(h) => k[q].kind # "dir"
  <2>1. k = WithRecording(Put(h, pp, a, Len(h) + 1))
    BY <1>1
  <2>2. /\ HeapOK(k) /\ Len(k) = Len(h) + 2
        /\ \A q \in 1..Len(h) :
             /\ k[q].kind = h[q].kind
             /\ q # pp => k[q] = h[q]
             /\ \A b \in Arg : k[q].kids[b] = IF q = pp /\ b = a THEN Len(h) + 1 ELSE h[q].kids[b]
        /\ \A q \in 1..Len(k) : q > Len(h) => k[q].kind # "dir"
    <3>1. HeapOK(h) /\ pp \in 1..Len(h) /\ a \in Arg
      BY <1>3, <1>4, <1>5
    <3>. QED BY <2>1, <3>1, RecordedFacts
  <2>. QED BY <1>1, <2>2
<1>7. PICK l : l = lab[pp]
  OBVIOUS
<1>8. l \in Labels
  BY <1>4, <1>5, <1>7, TreeFacts
<1>9. PICK la, lb : la = Append(lab, l) /\ lb = Append(la, l)
  BY Zenon
<1>10. la \in Seq(Labels) /\ Len(la) = Len(h) + 1 /\ \A o \in 1..Len(h) : la[o] = lab[o]
  BY <1>4, <1>8, <1>9, LabelsAppend
<1>11. lb \in Seq(Labels) /\ Len(lb) = Len(h) + 2 /\ \A o \in 1..Len(h) : lb[o] = lab[o]
  <2>1. lb \in Seq(Labels) /\ Len(lb) = Len(la) + 1 /\ \A o \in 1..Len(la) : lb[o] = la[o]
    BY <1>8, <1>9, <1>10, LabelsAppend
  <2>. QED BY <1>4, <1>10, <2>1
<1>12. \A o \in 1..Len(h) : o \in 1..Len(k)
  BY <1>4, <1>6
<1>13. Tree(k, lb)
  <2>1. KeepsLevels(h, lab, k, lb)
    <3>1. ASSUME NEW q \in 1..Len(h), Len(lab[q].path) + 1 # Depth, NEW b \in Arg
          PROVE  k[q].kids[b] = h[q].kids[b]
      BY <1>3, <1>5, <1>6, <3>1
    <3>2. Len(h) <= Len(k)
      BY <1>4, <1>6
    <3>. QED BY <1>6, <1>11, <3>1, <3>2 DEF KeepsLevels
  <2>2. \A q \in 1..Len(k) : q > Len(h) /\ k[q].kind = "dir" => DirOK(k, lb, q)
    BY <1>6
  <2>3. Len(lb) = Len(k)
    BY <1>6, <1>11
  <2>. QED BY <1>2, <1>4, <1>6, <1>11, <2>1, <2>2, <2>3, SameLevels
<1>14. /\ x.node = f.node /\ x.args = args /\ x.epoch = f.epoch /\ x.obj = n /\ x.buf = n + 1
       /\ x.cacheParent = cp /\ x.pendingParent = pp /\ x.done = FALSE
  BY <1>1 DEF Recording
<1>15. x \in Record
  <2>1. n \in Nat /\ n + 1 \in Nat /\ cp \in Nat /\ pp \in Nat
    BY <1>1, <1>4, <1>5
  <2>2. f.node \in Node /\ f.args \in Tuples /\ f.epoch \in Nat
    BY DEF Handler
  <2>3. PICK m, d : m = n + 1 /\ d = FALSE
    BY Zenon
  <2>4. x = [node |-> f.node, args |-> f.args, obj |-> n, buf |-> m, epoch |-> f.epoch,
             cacheParent |-> cp, pendingParent |-> pp, done |-> d]
    BY <1>1, <2>3 DEF Recording
  <2>5. m \in Nat /\ d \in BOOLEAN
    BY <2>1, <2>3
  <2>. QED BY <2>1, <2>2, <2>4, <2>5 DEF Record
<1>16. PICK e2 : e2 = Append(es, x)
  OBVIOUS
<1>17. /\ Len(e2) = Len(es) + 1 /\ Len(es) \in Nat /\ e2[Len(es) + 1] = x
       /\ \A e \in 1..Len(es) : e2[e] = es[e]
  BY <1>15, <1>16, Appended
<1>18. \A e \in 1..Len(e2) : e = Len(es) + 1 \/ e \in 1..Len(es)
  BY <1>17
<1>19. \A t, w, m, ep : IsTop(h, lab, t, w, m, ep) => IsTop(k, lb, t, w, m, ep)
  BY <1>6, <1>11, <1>12 DEF IsTop
<1>20. \A o, w, y : IsParent(h, lab, o, w, y) => IsParent(k, lb, o, w, y)
  BY <1>6, <1>11, <1>12 DEF IsParent
<1>21. RootsOK(k, lb, rt, rs) /\ HandlersOK(k, lb, hs)
  BY <1>19 DEF FullOK, RootsOK, HandlersOK
<1>22. EntriesOK(k, lb, e2)
  <2>1. ASSUME NEW y, EntryOK(h, lab, y) PROVE EntryOK(k, lb, y)
    BY <1>12, <1>20, <2>1 DEF EntryOK
  <2>2. EntryOK(k, lb, x)
    <3>1. IsParent(h, lab, cp, "cache", x) /\ IsParent(h, lab, pp, "pending", x)
      BY <1>1, <1>14 DEF IsParent
    <3>2. n \in 1..Len(k) /\ n + 1 \in 1..Len(k)
      BY <1>1, <1>4, <1>6
    <3>. QED BY <1>14, <1>20, <3>1, <3>2 DEF EntryOK
  <2>. QED BY <1>17, <1>18, <2>1, <2>2 DEF FullOK, EntriesOK
<1>23. SlotsOK(k, lb, e2)
  <2>1. ASSUME NEW o \in 1..Len(k), NEW b \in Arg,
               k[o].kind = "dir", Len(lb[o].path) + 1 = Depth, k[o].kids[b] # Nil
        PROVE  \E e \in 1..Len(e2) : SlotOf(k, lb, o, b, e2[e])
    <3>1. o \in 1..Len(h)
      <4>1. ~(o > Len(h))
        BY <1>6, <2>1
      <4>. QED BY <1>4, <4>1
    <3>2. lb[o] = lab[o] /\ h[o].kind = "dir"
      BY <1>6, <1>11, <2>1, <3>1
    <3>3. CASE o = pp /\ b = a
      <4>1. SlotOf(k, lb, o, b, x)
        BY <1>3, <1>5, <1>6, <1>14, <3>1, <3>2, <3>3, SMTT(60) DEF SlotOf
      <4>2. Len(es) + 1 \in 1..Len(e2)
        BY <1>17
      <4>. QED BY <1>17, <4>1, <4>2
    <3>4. CASE ~(o = pp /\ b = a)
      <4>1. k[o].kids[b] = h[o].kids[b]
        BY <1>6, <3>1, <3>4
      <4>2. PICK e \in 1..Len(es) : SlotOf(h, lab, o, b, es[e])
        BY <2>1, <3>1, <3>2, <4>1 DEF FullOK, SlotsOK
      <4>3. SlotOf(k, lb, o, b, es[e])
        BY <3>2, <4>1, <4>2 DEF SlotOf
      <4>4. e \in 1..Len(e2)
        BY <1>17
      <4>. QED BY <1>17, <4>2, <4>3, <4>4
    <3>. QED BY <3>3, <3>4
  <2>. QED BY <2>1 DEF SlotsOK
<1>24. FullOK(k, lb, e2, rt, hs, rs)
  BY <1>13, <1>21, <1>22, <1>23 DEF FullOK
<1>25. \A o \in 1..Len(h) : lb[o] = lab[o] /\ k[o].kind = h[o].kind
  BY <1>6, <1>11
<1>. QED BY <1>15, <1>16, <1>24, <1>25


-----------------------------------------------------------------------------
(* finish_recording *)

LEMMA RecordDone ==
  ASSUME NEW x \in Record, NEW y, y = [x EXCEPT !.done = TRUE]
  PROVE  /\ y \in Record /\ y.done /\ y.node = x.node /\ y.args = x.args /\ y.epoch = x.epoch
         /\ y.obj = x.obj /\ y.buf = x.buf /\ y.cacheParent = x.cacheParent /\ y.pendingParent = x.pendingParent
<1>1. PICK d : d = TRUE
  OBVIOUS
<1>2. y = [node |-> x.node, args |-> x.args, obj |-> x.obj, buf |-> x.buf, epoch |-> x.epoch,
           cacheParent |-> x.cacheParent, pendingParent |-> x.pendingParent, done |-> d]
  BY <1>1 DEF Record
<1>3. d \in BOOLEAN /\ d
  BY <1>1
<1>. QED BY <1>2, <1>3 DEF Record

Finished(es, e, e2) ==
  /\ e2 \in Seq(Record) /\ Len(e2) = Len(es)
  /\ \A i \in 1..Len(es) : i # e => e2[i] = es[i]
  /\ e2[e].done /\ e2[e].node = es[e].node /\ e2[e].args = es[e].args /\ e2[e].epoch = es[e].epoch
  /\ e2[e].obj = es[e].obj /\ e2[e].buf = es[e].buf
  /\ e2[e].cacheParent = es[e].cacheParent /\ e2[e].pendingParent = es[e].pendingParent

LEMMA FinishedEntry ==
  ASSUME NEW es \in Seq(Record), NEW e \in 1..Len(es), NEW e2, e2 = [es EXCEPT ![e].done = TRUE]
  PROVE  Finished(es, e, e2)
<1>1. PICK x, d : x = es[e] /\ d = TRUE
  BY Zenon
<1>2. PICK y : y = [x EXCEPT !.done = d]
  OBVIOUS
<1>3. x \in Record
  BY <1>1
<1>4. /\ y \in Record /\ y.done /\ y.node = x.node /\ y.args = x.args /\ y.epoch = x.epoch
      /\ y.obj = x.obj /\ y.buf = x.buf /\ y.cacheParent = x.cacheParent /\ y.pendingParent = x.pendingParent
  BY <1>1, <1>2, <1>3, RecordDone
<1>5. e2 = [es EXCEPT ![e] = y]
  <2>1. e2 = [es EXCEPT ![e].done = d]
    BY <1>1
  <2>. QED BY <1>1, <1>2, <2>1
<1>6. e2 \in Seq(Record) /\ Len(e2) = Len(es) /\ e2[e] = y /\ \A i \in 1..Len(es) : i # e => e2[i] = es[i]
  <2>1. PICK R : R = Record
    OBVIOUS
  <2>2. y \in R /\ es \in Seq(R)
    BY <1>4, <2>1
  <2>3. e2 \in Seq(R) /\ Len(e2) = Len(es) /\ e2[e] = y /\ \A i \in 1..Len(es) : i # e => e2[i] = es[i]
    <3>1. PICK g : g = [es EXCEPT ![e] = y]
      OBVIOUS
    <3>2. /\ g \in Seq(R) /\ Len(g) = Len(es)
          /\ \A i \in 1..Len(es) : g[i] = IF i = e THEN y ELSE es[i]
      BY <2>2, <3>1, ExceptSeq
    <3>. QED BY <1>5, <3>1, <3>2
  <2>. QED BY <2>1, <2>3
<1>. QED BY <1>1, <1>4, <1>6 DEF Finished

LEMMA FinishedFull ==
  ASSUME Uniform, NEW h, NEW lab, NEW es, NEW rt, NEW hs, NEW rs, FullOK(h, lab, es, rt, hs, rs),
         es \in Seq(Record), NEW e \in 1..Len(es), ~es[e].done, NEW e2, Finished(es, e, e2),
         NEW k, k = Swapped(h, es[e].cacheParent, es[e].pendingParent, Slot(es[e].args), es[e].buf)
  PROVE  FullOK(k, lab, e2, rt, hs, rs)
<1>1. PICK x, args, a, cp, pp : /\ x = es[e] /\ args = x.args /\ a = Slot(args)
                                /\ cp = x.cacheParent /\ pp = x.pendingParent
  BY Zenon
<1>2. x \in Record /\ ~x.done
  BY <1>1
<1>3. Depth \in Nat \ {0} /\ args \in Seq(Arg) /\ Len(args) = Depth
  BY <1>1, <1>2, DepthFacts DEF Record
<1>4. Levels(args) \in Seq(Arg) /\ Len(Levels(args)) + 1 = Depth /\ a \in Arg /\ args = Append(Levels(args), a)
  BY <1>1, <1>3, LevelsFacts
<1>5. Tree(h, lab) /\ HeapOK(h) /\ Len(h) \in Nat /\ lab \in Seq(Labels) /\ Len(lab) = Len(h)
  BY TreeFacts DEF FullOK, Tree
<1>6. EntryOK(h, lab, x)
  BY <1>1 DEF FullOK, EntriesOK
<1>7. /\ cp \in 1..Len(h) /\ h[cp].kind = "dir" /\ lab[cp].w = "cache"
      /\ lab[cp].node = x.node /\ lab[cp].epoch = x.epoch /\ lab[cp].path = Levels(args)
      /\ pp \in 1..Len(h) /\ h[pp].kind = "dir" /\ lab[pp].w = "pending"
      /\ lab[pp].path = Levels(args)
      /\ x.buf \in 1..Len(h)
  BY <1>1, <1>6 DEF EntryOK, IsParent
<1>8. cp # pp
  BY <1>7
<1>9. /\ HeapOK(k) /\ Len(k) = Len(h)
      /\ \A q \in 1..Len(h) :
           /\ k[q].kind = h[q].kind
           /\ q # cp /\ q # pp => k[q] = h[q]
           /\ \A b \in Arg : k[q].kids[b] = IF b = a /\ q = cp THEN x.buf
                                            ELSE IF b = a /\ q = pp THEN Nil ELSE h[q].kids[b]
  <2>1. PICK v : v = x.buf
    OBVIOUS
  <2>2. k = Swapped(h, cp, pp, a, v) /\ v \in 1..Len(h)
    BY <1>1, <1>7, <2>1
  <2>3. /\ HeapOK(k) /\ Len(k) = Len(h)
        /\ \A q \in 1..Len(h) :
             /\ k[q].kind = h[q].kind
             /\ q # cp /\ q # pp => k[q] = h[q]
             /\ \A b \in Arg : k[q].kids[b] = IF b = a /\ q = cp THEN v
                                              ELSE IF b = a /\ q = pp THEN Nil ELSE h[q].kids[b]
    <3>1. HeapOK(h) /\ cp \in 1..Len(h) /\ pp \in 1..Len(h) /\ a \in Arg
      BY <1>4, <1>5, <1>7
    <3>. QED BY <1>8, <2>2, <3>1, FinishedFacts
  <2>. QED BY <2>1, <2>3
<1>10. HeapOK(k) /\ Len(k) = Len(h) /\ \A q \in 1..Len(h) : k[q].kind = h[q].kind
  BY <1>9
<1>11. \A q \in 1..Len(h), b \in Arg :
         k[q].kids[b] = IF b = a /\ q = cp THEN x.buf ELSE IF b = a /\ q = pp THEN Nil ELSE h[q].kids[b]
  BY <1>9
<1>12. Tree(k, lab)
  <2>1. ASSUME NEW q \in 1..Len(h), Len(lab[q].path) + 1 # Depth, NEW b \in Arg
        PROVE  k[q].kids[b] = h[q].kids[b]
    BY <1>4, <1>7, <1>9, <2>1, SMTT(60)
  <2>2. KeepsLevels(h, lab, k, lab)
    <3>1. Len(h) <= Len(k)
      BY <1>5, <1>10
    <3>. QED BY <1>10, <2>1, <3>1 DEF KeepsLevels
  <2>3. \A q \in 1..Len(k) : ~(q > Len(h))
    BY <1>5, <1>10
  <2>. QED BY <1>3, <1>5, <1>10, <2>2, <2>3, SameLevels
<1>13. \A t, w, m, ep : IsTop(h, lab, t, w, m, ep) => IsTop(k, lab, t, w, m, ep)
  BY <1>9 DEF IsTop
<1>14. \A o, w, y, z : IsParent(h, lab, o, w, y) /\ z.node = y.node /\ z.args = y.args /\ z.epoch = y.epoch
                        => IsParent(k, lab, o, w, z)
  BY <1>9 DEF IsParent
<1>15. RootsOK(k, lab, rt, rs) /\ HandlersOK(k, lab, hs)
  BY <1>13 DEF FullOK, RootsOK, HandlersOK
<1>16. EntriesOK(k, lab, e2)
  <2>1. ASSUME NEW i \in 1..Len(es) PROVE EntryOK(k, lab, e2[i])
    <3>1. PICK y, z : y = es[i] /\ z = e2[i]
      BY Zenon
    <3>2. /\ z.node = y.node /\ z.args = y.args /\ z.epoch = y.epoch /\ z.obj = y.obj /\ z.buf = y.buf
          /\ z.cacheParent = y.cacheParent /\ z.pendingParent = y.pendingParent
      BY <3>1 DEF Finished
    <3>3. EntryOK(h, lab, y)
      BY <3>1 DEF FullOK, EntriesOK
    <3>. QED BY <1>9, <1>14, <3>1, <3>2, <3>3 DEF EntryOK
  <2>. QED BY <2>1 DEF EntriesOK, Finished
<1>17. SlotsOK(k, lab, e2)
  <2>1. ASSUME NEW o \in 1..Len(k), NEW b \in Arg,
               k[o].kind = "dir", Len(lab[o].path) + 1 = Depth, k[o].kids[b] # Nil
        PROVE  \E i \in 1..Len(e2) : SlotOf(k, lab, o, b, e2[i])
    <3>1. o \in 1..Len(h) /\ h[o].kind = "dir" /\ lab[o] \in Labels
      BY <1>5, <1>10, <2>1, TreeFacts
    <3>2. CASE b = a /\ o = cp
      <4>1. PICK z : z = e2[e]
        OBVIOUS
      <4>2. z.done /\ z.node = x.node /\ z.args = args /\ z.epoch = x.epoch /\ z.buf = x.buf
        BY <1>1, <4>1 DEF Finished
      <4>3. SlotOf(k, lab, o, b, z)
        <5>1. k[o].kids[b] = x.buf
          BY <1>4, <1>11, <3>1, <3>2
        <5>. QED BY <1>4, <1>7, <3>2, <4>2, <5>1 DEF SlotOf
      <4>. QED BY <4>1, <4>3 DEF Finished
    <3>3. CASE ~(b = a /\ o = cp)
      <4>1. k[o].kids[b] = h[o].kids[b]
        <5>1. k[o].kids[b] = IF b = a /\ o = cp THEN x.buf ELSE IF b = a /\ o = pp THEN Nil ELSE h[o].kids[b]
          BY <1>11, <3>1
        <5>. QED BY <2>1, <3>3, <5>1
      <4>2. PICK i \in 1..Len(es) : SlotOf(h, lab, o, b, es[i])
        BY <2>1, <3>1, <4>1 DEF FullOK, SlotsOK
      <4>3. i # e
        <5>1. SUFFICES ASSUME i = e PROVE FALSE
          OBVIOUS
        <5>2. SlotOf(h, lab, o, b, x)
          BY <1>1, <4>2, <5>1
        <5>3. lab[o].w = "pending"
          BY <1>2, <3>1, <5>2 DEF SlotOf, Labels, Tables
        <5>4. o = pp /\ args = Append(lab[o].path, b)
          BY <1>1, <5>2, <5>3 DEF SlotOf
        <5>5. Slot(args) = b
          <6>1. lab[o].path \in Seq(Arg)
            BY <3>1, SMTT(60) DEF Labels
          <6>. QED BY <5>4, <6>1, LevelsOfAppend
        <5>6. k[o].kids[b] = Nil
          <6>1. k[o].kids[b] = IF b = a /\ o = cp THEN x.buf ELSE IF b = a /\ o = pp THEN Nil ELSE h[o].kids[b]
            BY <1>11, <3>1
          <6>. QED BY <1>1, <1>8, <5>4, <5>5, <6>1
        <5>. QED BY <2>1, <5>6
      <4>4. e2[i] = es[i] /\ i \in 1..Len(e2)
        BY <4>3 DEF Finished
      <4>5. SlotOf(k, lab, o, b, e2[i])
        BY <4>1, <4>2, <4>4 DEF SlotOf
      <4>. QED BY <4>4, <4>5
    <3>. QED BY <3>2, <3>3
  <2>. QED BY <2>1 DEF SlotsOK
<1>. QED BY <1>12, <1>15, <1>16, <1>17 DEF FullOK


-----------------------------------------------------------------------------
(* The steps of mode "full" *)

Types ==
  /\ mode \in Modes
  /\ heap \in Seq(Object)
  /\ entries \in Seq(Record)
  /\ root \in [Tables -> [Node -> Nat]]
  /\ last \in [Tables -> [Node -> [args : Seq(Arg), entry : Nat]]]
  /\ handlers \in Seq(Handler)
  /\ resets \in Nat

Full(lab) == FullOK(heap, lab, entries, root, handlers, resets)

LEMMA OuterFacts ==
  ASSUME NEW S, NEW hs \in Seq(S), hs # <<>>, NEW out, out = SubSeq(hs, 1, Len(hs) - 1)
  PROVE  /\ hs[Len(hs)] \in S /\ Len(hs) \in 1..Len(hs) /\ Len(hs) \in Nat
         /\ out \in Seq(S) /\ Len(out) = Len(hs) - 1
         /\ \A k \in 1..Len(out) : k \in 1..Len(hs) /\ out[k] = hs[k] /\ k # Len(hs)
<1>1. PICK n : n = Len(hs)
  OBVIOUS
<1>2. n \in Nat /\ n # 0
  BY <1>1, EmptySeq
<1>3. n \in 1..n /\ hs[n] \in S
  BY <1>1, <1>2
<1>4. \A k \in 1..n - 1 : hs[k] \in S
  BY <1>1, <1>2
<1>5. /\ SubSeq(hs, 1, n - 1) \in Seq(S)
      /\ Len(SubSeq(hs, 1, n - 1)) = IF 1 <= n - 1 THEN (n - 1) - 1 + 1 ELSE 0
      /\ \A k \in 1..((n - 1) - 1 + 1) : SubSeq(hs, 1, n - 1)[k] = hs[1 + k - 1]
  <2>1. n - 1 \in Int /\ 1 \in Int
    BY <1>2
  <2>2. \A k \in 1..(n - 1) : hs[k] \in S
    BY <1>4
  <2>. QED BY <2>1, <2>2, SubSeqProperties
<1>6. out = SubSeq(hs, 1, n - 1)
  BY <1>1
<1>7. Len(out) = n - 1
  BY <1>2, <1>5, <1>6
<1>8. ASSUME NEW k \in 1..Len(out) PROVE k \in 1..n /\ out[k] = hs[k] /\ k # n
  <2>1. k \in 1..((n - 1) - 1 + 1) /\ 1 + k - 1 = k
    BY <1>2, <1>7
  <2>. QED BY <1>2, <1>5, <1>6, <1>7, <2>1
<1>. QED BY <1>1, <1>2, <1>3, <1>5, <1>6, <1>7, <1>8

LEMMA CallMissFull ==
  ASSUME Types, NEW n \in Node, NEW args \in Tuples, CallMiss(n, args)
  PROVE  Types' /\ \A lab : Full(lab) => Full(lab)'
<1>1. PICK f, rr : /\ rr = [w \in Tables |-> root[w][n]]
                   /\ f = [node |-> n, args |-> args, epoch |-> resets, roots |-> rr]
  BY Zenon
<1>2. rr \in [Tables -> Nat] /\ \A w \in Tables : rr[w] = root[w][n]
  BY <1>1 DEF Types
<1>3. f \in Handler /\ f.node = n /\ f.epoch = resets /\ f.roots = rr
  BY <1>1, <1>2 DEF Types, Handler
<1>4. PICK h2 : h2 = Append(handlers, f)
  OBVIOUS
<1>5. handlers' = h2
  BY <1>1, <1>4 DEF CallMiss
<1>6. UNCHANGED <<mode, heap, entries, root, last, resets>>
  BY DEF CallMiss
<1>7. /\ h2 \in Seq(Handler) /\ Len(h2) = Len(handlers) + 1 /\ h2[Len(handlers) + 1] = f
      /\ \A k \in 1..Len(handlers) : h2[k] = handlers[k]
  BY <1>3, <1>4, Appended DEF Types
<1>8. \A k \in 1..Len(h2) : k \in 1..Len(handlers) \/ k = Len(handlers) + 1
  <2>1. Len(handlers) \in Nat
    BY DEF Types
  <2>. QED BY <1>7, <2>1
<1>9. ASSUME NEW lab, Full(lab) PROVE HandlersOK(heap, lab, h2)
  <2>1. ASSUME NEW w \in Tables, f.roots[w] # Nil
        PROVE  IsTop(heap, lab, f.roots[w], w, f.node, f.epoch)
    BY <1>2, <1>3, <1>9, <2>1 DEF Full, FullOK, RootsOK
  <2>. QED BY <1>7, <1>8, <1>9, <2>1 DEF Full, FullOK, HandlersOK
<1>10. \A lab : Full(lab) => FullOK(heap, lab, entries, root, h2, resets)
  BY <1>9 DEF Full, FullOK
<1>. QED BY <1>5, <1>6, <1>7, <1>10 DEF Types, Full

(* What the history needs to know of a return: the old objects, but for    *)
(* the slot pp of f, and the new recording with the tops it is under.      *)
Returned(h, lab, k, lab2, es, es2, rt, rt2, rs, f, x, c, p) ==
  /\ \A o \in 1..Len(h) : lab2[o] = lab[o]
  /\ \A o \in 1..Len(h), a \in Arg :
       h[o].kids[a] # Nil /\ ~(o = x.pendingParent /\ a = Slot(f.args)) => k[o].kids[a] = h[o].kids[a]
  /\ f.roots["cache"] # Nil => c = f.roots["cache"]
  /\ f.roots["pending"] # Nil => p = f.roots["pending"]
  /\ x \in Record /\ es2 = Append(es, x)
  /\ x.node = f.node /\ x.args = f.args /\ x.epoch = f.epoch /\ ~x.done
  /\ lab2[x.cacheParent].top = c /\ lab2[x.pendingParent].top = p
  /\ k[x.pendingParent].kids[Slot(f.args)] = x.obj
  /\ rt2 = IF f.epoch # rs THEN rt
           ELSE [rt EXCEPT !["cache"][f.node] = IF f.roots["cache"] = Nil THEN c ELSE @,
                           !["pending"][f.node] = IF f.roots["pending"] = Nil THEN p ELSE @]

RootsSet(rt, n, yes, c, no, p) ==
  [rt EXCEPT !["cache"][n] = IF yes THEN c ELSE @, !["pending"][n] = IF no THEN p ELSE @]

LEMMA RootsAfter ==
  ASSUME NEW rt \in [Tables -> [Node -> Nat]], NEW n \in Node, NEW c \in Nat, NEW p \in Nat,
         NEW yes \in BOOLEAN, NEW no \in BOOLEAN, NEW rt2,
         rt2 = RootsSet(rt, n, yes, c, no, p)
  PROVE  /\ rt2 \in [Tables -> [Node -> Nat]]
         /\ rt2["cache"][n] = IF yes THEN c ELSE rt["cache"][n]
         /\ rt2["pending"][n] = IF no THEN p ELSE rt["pending"][n]
         /\ \A w \in Tables, m \in Node : m # n => rt2[w][m] = rt[w][m]
<1>1. PICK u, v : u = rt["cache"] /\ v = rt["pending"]
  BY Zenon
<1>2. u \in [Node -> Nat] /\ v \in [Node -> Nat] /\ "cache" \in Tables /\ "pending" \in Tables
  BY <1>1 DEF Tables
<1>3. PICK c2, p2 : c2 = (IF yes THEN c ELSE u[n]) /\ p2 = (IF no THEN p ELSE v[n])
  BY Zenon
<1>4. PICK u2, v2 : u2 = [u EXCEPT ![n] = c2] /\ v2 = [v EXCEPT ![n] = p2]
  BY Zenon
<1>5. c2 \in Nat /\ p2 \in Nat
  BY <1>2, <1>3
<1>6. u2 \in [Node -> Nat] /\ v2 \in [Node -> Nat] /\ u2[n] = c2 /\ v2[n] = p2
      /\ \A m \in Node : m # n => u2[m] = u[m] /\ v2[m] = v[m]
  BY <1>2, <1>4, <1>5
<1>7. rt2 = [[rt EXCEPT !["cache"] = u2] EXCEPT !["pending"] = v2]
  BY <1>1, <1>3, <1>4 DEF RootsSet
<1>8. rt2 \in [Tables -> [Node -> Nat]] /\ rt2["cache"] = u2 /\ rt2["pending"] = v2
  BY <1>2, <1>6, <1>7, SMTT(60)
<1>9. \A w \in Tables : w = "cache" \/ w = "pending"
  BY DEF Tables
<1>. QED BY <1>1, <1>3, <1>6, <1>8, <1>9


LEMMA ReturnsFull ==
  ASSUME Uniform, Types, NEW lab, Full(lab), HandlerReturnsFull, NEW f, f = Running
  PROVE  /\ f \in Handler /\ Types' /\ mode' = mode /\ last' = last /\ resets' = resets
         /\ answer'.how = "miss" /\ handlers' = Outer
         /\ \E lab2, x, c, p :
              /\ FullOK(heap', lab2, entries', root', handlers', resets')
              /\ Returned(heap, lab, heap', lab2, entries, entries', root, root', resets, f, x, c, p)
<1>1. PICK cr, pr, cs, ps :
        /\ cr = EnsureRoot(heap, f.roots["cache"])
        /\ pr = EnsureRoot(cr.heap, f.roots["pending"])
        /\ cs = EnsurePhaseArgsParent(pr.heap, cr.at, f.args)
        /\ ps = EnsurePhaseArgsParent(cs.heap, pr.at, f.args)
  BY Zenon
<1>2. PICK g, c, p, cp, pp, obj, a, x :
        /\ g = ps.heap /\ c = cr.at /\ p = pr.at /\ cp = cs.at /\ pp = ps.at /\ obj = Len(g) + 1
        /\ a = Slot(f.args) /\ x = Recording(f, obj, cp, pp)
  BY Zenon
<1>3. /\ mode = "full" /\ handlers # <<>> /\ handlers' = Outer
      /\ root' = IF f.epoch # resets THEN root
                 ELSE [root EXCEPT
                        !["cache"][f.node] = IF f.roots["cache"] = Nil THEN c ELSE @,
                        !["pending"][f.node] = IF f.roots["pending"] = Nil THEN p ELSE @]
      /\ heap' = WithRecording(Put(g, pp, a, obj))
      /\ entries' = Append(entries, x)
      /\ answer'.how = "miss"
      /\ mode' = mode /\ last' = last /\ resets' = resets
  BY <1>1, <1>2, ZenonT(60) DEF HandlerReturnsFull, Answered, Put, Slot
<1>4. PICK out : out = Outer
  OBVIOUS
<1>5. /\ f \in Handler /\ Len(handlers) \in 1..Len(handlers) /\ f = handlers[Len(handlers)]
      /\ out \in Seq(Handler) /\ \A k \in 1..Len(out) : k \in 1..Len(handlers) /\ out[k] = handlers[k]
  <2>1. handlers \in Seq(Handler) /\ handlers # <<>>
    BY <1>3 DEF Types
  <2>2. out = SubSeq(handlers, 1, Len(handlers) - 1)
    BY <1>4 DEF Outer
  <2>3. f = handlers[Len(handlers)]
    BY DEF Running
  <2>. QED BY <2>1, <2>2, <2>3, OuterFacts
<1>6. /\ Tree(heap, lab) /\ Len(heap) \in Nat /\ "cache" \in Tables /\ "pending" \in Tables
      /\ f.node \in Node /\ f.epoch \in Nat /\ f.args \in Tuples
      /\ entries \in Seq(Record) /\ root \in [Tables -> [Node -> Nat]] /\ resets \in Nat
  BY <1>5, TreeFacts DEF Full, FullOK, Tables, Handler, Types
<1>7. ASSUME NEW w \in Tables, f.roots[w] # Nil PROVE IsTop(heap, lab, f.roots[w], w, f.node, f.epoch)
  <2>1. \A k \in 1..Len(handlers) : handlers[k].roots[w] # Nil =>
           IsTop(heap, lab, handlers[k].roots[w], w, handlers[k].node, handlers[k].epoch)
    BY DEF Full, FullOK, HandlersOK
  <2>. QED BY <1>5, <1>7, <2>1
<1>8. PICK l1 : Prepared(heap, lab, f, c, p, cp, pp, g, l1)
  <2>1. PICK h : h = heap
    OBVIOUS
  <2>2. \A w \in Tables : f.roots[w] # Nil => IsTop(h, lab, f.roots[w], w, f.node, f.epoch)
    BY <1>7, <2>1
  <2>3. Tree(h, lab) /\ cr = EnsureRoot(h, f.roots["cache"])
    BY <1>1, <1>6, <2>1
  <2>4. \E l1 : Prepared(h, lab, f, cr.at, pr.at, cs.at, ps.at, ps.heap, l1)
    BY <1>1, <1>5, <2>2, <2>3, PrepareStands, Zenon
  <2>. QED BY <1>2, <2>1, <2>4
<1>9. /\ Tree(g, l1) /\ Grown(heap, lab, g, l1)
      /\ IsTop(g, l1, c, "cache", f.node, f.epoch) /\ IsTop(g, l1, p, "pending", f.node, f.epoch)
      /\ f.roots["cache"] # Nil => c = f.roots["cache"]
      /\ f.roots["pending"] # Nil => p = f.roots["pending"]
      /\ IsParent(g, l1, cp, "cache", f) /\ l1[cp].top = c
      /\ IsParent(g, l1, pp, "pending", f) /\ l1[pp].top = p
  BY <1>8 DEF Prepared
<1>10. Len(g) \in Nat /\ HeapOK(g) /\ Len(heap) <= Len(g)
  BY <1>9, TreeFacts DEF Grown
<1>11. FullOK(g, l1, entries, root, handlers, resets)
  <2>1. PICK h, es, rt, hs, rs : h = heap /\ es = entries /\ rt = root /\ hs = handlers /\ rs = resets
    BY Zenon
  <2>2. FullOK(h, lab, es, rt, hs, rs) /\ Grown(h, lab, g, l1)
    BY <1>9, <2>1 DEF Full
  <2>3. FullOK(g, l1, es, rt, hs, rs)
    BY <1>9, <2>2, GrownFull
  <2>. QED BY <2>1, <2>3
<1>12. PICK k : k = heap'
  OBVIOUS
<1>13. /\ x \in Record
       /\ \E l2 : /\ FullOK(k, l2, Append(entries, x), root, handlers, resets)
                  /\ \A o \in 1..Len(g) : l2[o] = l1[o] /\ k[o].kind = g[o].kind
  <2>1. PICK es, rt, hs, rs : es = entries /\ rt = root /\ hs = handlers /\ rs = resets
    BY Zenon
  <2>2. FullOK(g, l1, es, rt, hs, rs) /\ es \in Seq(Record)
    BY <1>6, <1>11, <2>1
  <2>3. k = WithRecording(Put(g, pp, Slot(f.args), Len(g) + 1)) /\ x = Recording(f, Len(g) + 1, cp, pp)
    BY <1>2, <1>3, <1>12
  <2>4. IsParent(g, l1, cp, "cache", f) /\ IsParent(g, l1, pp, "pending", f)
    BY <1>9
  <2>5. /\ x \in Record
        /\ \E l2 : /\ FullOK(k, l2, Append(es, x), rt, hs, rs)
                   /\ \A o \in 1..Len(g) : l2[o] = l1[o] /\ k[o].kind = g[o].kind
    BY <1>5, <2>2, <2>3, <2>4, RecordedFull
  <2>. QED BY <2>1, <2>5
<1>14. PICK l2 : /\ FullOK(k, l2, entries', root, handlers, resets)
                 /\ \A o \in 1..Len(g) : l2[o] = l1[o] /\ k[o].kind = g[o].kind
  BY <1>3, <1>13
<1>15. cp \in 1..Len(g) /\ pp \in 1..Len(g) /\ c \in 1..Len(g) /\ p \in 1..Len(g) /\ a \in Arg
  <2>1. Slot(f.args) \in Arg
    <3>1. f.args \in Seq(Arg) /\ Len(f.args) # 0
      BY <1>6, DepthFacts
    <3>2. PICK args : args = f.args
      OBVIOUS
    <3>. QED BY <3>1, <3>2, LevelsFacts
  <2>. QED BY <1>2, <1>9, <2>1 DEF IsParent, IsTop
<1>16. /\ Len(k) = Len(g) + 2
       /\ \A q \in 1..Len(g) : \A b \in Arg : k[q].kids[b] = IF q = pp /\ b = a THEN Len(g) + 1 ELSE g[q].kids[b]
  <2>1. k = WithRecording(Put(g, pp, a, Len(g) + 1))
    BY <1>2, <1>3, <1>12
  <2>. QED BY <1>10, <1>15, <2>1, RecordedFacts
<1>17. /\ x.node = f.node /\ x.args = f.args /\ x.epoch = f.epoch /\ ~x.done /\ x.obj = obj
       /\ x.cacheParent = cp /\ x.pendingParent = pp
  BY <1>2 DEF Recording
<1>18. IsTop(k, l2, c, "cache", f.node, f.epoch) /\ IsTop(k, l2, p, "pending", f.node, f.epoch)
  <2>1. \A q \in 1..Len(g) : q \in 1..Len(k)
    BY <1>10, <1>16
  <2>. QED BY <1>9, <1>14, <1>15, <2>1 DEF IsTop
<1>19. PICK rt2 : rt2 = root'
  OBVIOUS
<1>20. rt2 \in [Tables -> [Node -> Nat]] /\ RootsOK(k, l2, rt2, resets)
  <2>1. RootsOK(k, l2, root, resets)
    BY <1>14 DEF FullOK
  <2>2. CASE f.epoch # resets
    <3>1. rt2 = root
      BY <1>3, <1>19, <2>2
    <3>. QED BY <1>6, <2>1, <3>1
  <2>3. CASE f.epoch = resets
    <3>1. PICK n, yes, no : n = f.node /\ (yes <=> f.roots["cache"] = Nil) /\ (no <=> f.roots["pending"] = Nil)
                            /\ yes \in BOOLEAN /\ no \in BOOLEAN
      BY Zenon
    <3>2. rt2 = [root EXCEPT !["cache"][n] = IF yes THEN c ELSE @, !["pending"][n] = IF no THEN p ELSE @]
      BY <1>3, <1>19, <2>3, <3>1
    <3>3. c \in Nat /\ p \in Nat /\ n \in Node
      BY <1>6, <1>15, <3>1
    <3>4. /\ rt2 \in [Tables -> [Node -> Nat]]
          /\ rt2["cache"][n] = IF yes THEN c ELSE root["cache"][n]
          /\ rt2["pending"][n] = IF no THEN p ELSE root["pending"][n]
          /\ \A w \in Tables, m \in Node : m # n => rt2[w][m] = root[w][m]
      <4>1. PICK rt : rt = root
        OBVIOUS
      <4>2. rt \in [Tables -> [Node -> Nat]]
            /\ rt2 = RootsSet(rt, n, yes, c, no, p)
        BY <1>6, <3>2, <4>1 DEF RootsSet
      <4>3. yes \in BOOLEAN /\ no \in BOOLEAN
        BY <3>1
      <4>4. /\ rt2 \in [Tables -> [Node -> Nat]]
            /\ rt2["cache"][n] = IF yes THEN c ELSE rt["cache"][n]
            /\ rt2["pending"][n] = IF no THEN p ELSE rt["pending"][n]
            /\ \A w \in Tables, m \in Node : m # n => rt2[w][m] = rt[w][m]
        BY <3>3, <4>2, <4>3, RootsAfter, SMTT(60)
      <4>. QED BY <4>1, <4>4
    <3>5. ASSUME NEW w \in Tables, NEW m \in Node, rt2[w][m] # Nil PROVE IsTop(k, l2, rt2[w][m], w, m, resets)
      <4>1. rt2[w][m] = root[w][m] \/ (m = n /\ w = "cache" /\ rt2[w][m] = c) \/ (m = n /\ w = "pending" /\ rt2[w][m] = p)
        BY <3>4 DEF Tables
      <4>2. CASE rt2[w][m] = root[w][m]
        BY <2>1, <3>5, <4>2 DEF RootsOK
      <4>3. CASE m = n /\ w = "cache" /\ rt2[w][m] = c
        BY <1>18, <2>3, <3>1, <4>3
      <4>4. CASE m = n /\ w = "pending" /\ rt2[w][m] = p
        BY <1>18, <2>3, <3>1, <4>4
      <4>. QED BY <4>1, <4>2, <4>3, <4>4
    <3>. QED BY <3>4, <3>5 DEF RootsOK
  <2>. QED BY <2>2, <2>3
<1>21. HandlersOK(k, l2, out)
  BY <1>5, <1>14 DEF FullOK, HandlersOK
<1>22. FullOK(heap', l2, entries', root', handlers', resets')
  <2>1. FullOK(k, l2, entries', rt2, out, resets)
    BY <1>14, <1>20, <1>21 DEF FullOK
  <2>. QED BY <1>3, <1>4, <1>12, <1>19, <2>1
<1>23. Types'
  <2>1. heap' \in Seq(Object)
    BY <1>12, <1>14 DEF FullOK, Tree, HeapOK
  <2>2. entries' \in Seq(Record)
    BY <1>3, <1>6, <1>13, Appended
  <2>. QED BY <1>3, <1>4, <1>5, <1>19, <1>20, <2>1, <2>2 DEF Types
<1>24. Returned(heap, lab, heap', l2, entries, entries', root, root', resets, f, x, c, p)
  <2>1. ASSUME NEW o \in 1..Len(heap) PROVE l2[o] = lab[o] /\ o \in 1..Len(g)
    <3>1. o \in 1..Len(g)
      BY <1>6, <1>10
    <3>. QED BY <1>9, <1>14, <3>1 DEF Grown
  <2>2. ASSUME NEW o \in 1..Len(heap), NEW b \in Arg, heap[o].kids[b] # Nil, ~(o = x.pendingParent /\ b = Slot(f.args))
        PROVE  k[o].kids[b] = heap[o].kids[b]
    <3>1. g[o].kids[b] = heap[o].kids[b]
      BY <1>9, <2>2 DEF Grown
    <3>2. o \in 1..Len(g) /\ ~(o = pp /\ b = a)
      BY <1>2, <1>17, <2>1, <2>2
    <3>. QED BY <1>16, <3>1, <3>2
  <2>3. l2[cp].top = c /\ l2[pp].top = p
    BY <1>9, <1>14, <1>15
  <2>4. k[pp].kids[a] = obj
    BY <1>2, <1>15, <1>16, SMTT(60)
  <2>. QED BY <1>2, <1>3, <1>9, <1>12, <1>13, <1>17, <2>1, <2>2, <2>3, <2>4 DEF Returned
<1>. QED BY <1>3, <1>5, <1>22, <1>23, <1>24


LEMMA FinishesFull ==
  ASSUME Uniform, Types, NEW lab, Full(lab), NEW e \in 1..Len(entries), FinishFull(e)
  PROVE  /\ Types' /\ Full(lab)'
         /\ Finished(entries, e, entries') /\ ~entries[e].done
         /\ heap' = Swapped(heap, entries[e].cacheParent, entries[e].pendingParent,
                            Slot(entries[e].args), entries[e].buf)
<1>1. PICK h, es, rt, hs, rs : h = heap /\ es = entries /\ rt = root /\ hs = handlers /\ rs = resets
  BY Zenon
<1>2. PICK k, e2 : k = heap' /\ e2 = entries'
  BY Zenon
<1>3. /\ ~es[e].done
      /\ e2 = [es EXCEPT ![e].done = TRUE]
      /\ k = Swapped(h, es[e].cacheParent, es[e].pendingParent, Slot(es[e].args), es[e].buf)
      /\ UNCHANGED <<mode, root, last, handlers, resets>>
  BY <1>1, <1>2 DEF FinishFull, Swapped, Slot
<1>4. es \in Seq(Record) /\ e \in 1..Len(es) /\ FullOK(h, lab, es, rt, hs, rs)
  BY <1>1 DEF Types, Full
<1>5. Finished(es, e, e2)
  BY <1>3, <1>4, FinishedEntry
<1>6. FullOK(k, lab, e2, rt, hs, rs)
  BY <1>3, <1>4, <1>5, FinishedFull
<1>7. k \in Seq(Object) /\ e2 \in Seq(Record)
  BY <1>5, <1>6 DEF FullOK, Tree, HeapOK, Finished
<1>8. Types'
  BY <1>2, <1>3, <1>7 DEF Types
<1>9. Full(lab)'
  BY <1>1, <1>2, <1>3, <1>6 DEF Full
<1>. QED BY <1>1, <1>2, <1>3, <1>5, <1>8, <1>9

LEMMA SlotSet ==
  ASSUME NEW V, NEW lt \in [Tables -> [Node -> V]], NEW w \in Tables, NEW n \in Node, NEW v \in V,
         NEW lt2, lt2 = [lt EXCEPT ![w][n] = v]
  PROVE  /\ lt2 \in [Tables -> [Node -> V]]
         /\ \A u \in Tables, m \in Node : lt2[u][m] = IF u = w /\ m = n THEN v ELSE lt[u][m]
<1>1. PICK x, y : x = lt[w] /\ y = [x EXCEPT ![n] = v]
  BY Zenon
<1>2. x \in [Node -> V] /\ y \in [Node -> V] /\ \A m \in Node : y[m] = IF m = n THEN v ELSE x[m]
  BY <1>1
<1>3. lt2 = [lt EXCEPT ![w] = y]
  BY <1>1
<1>. QED BY <1>1, <1>2, <1>3

LastSlot == [args : Seq(Arg), entry : Nat]

LEMMA EmptySlot == Empty \in LastSlot /\ Empty.entry = Nil
<1>1. <<>> \in Seq(Arg) /\ Nil \in Nat
  BY DEF Nil
<1>. QED BY <1>1 DEF Empty, LastSlot

(* The slots after finish_recording and after a handler's return.           *)
LEMMA LastFinished ==
  ASSUME Uniform, Types, NEW e \in 1..Len(entries), FinishLast(e)
  PROVE  /\ Types' /\ Finished(entries, e, entries') /\ ~entries[e].done
         /\ entries[e].epoch # resets => last' = last
         /\ entries[e].epoch = resets =>
              /\ last'["cache"][entries[e].node] = [args |-> entries[e].args, entry |-> e]
              /\ last'["pending"][entries[e].node] = Empty
              /\ \A w \in Tables, m \in Node : m # entries[e].node => last'[w][m] = last[w][m]
<1>1. PICK es, e2, x : es = entries /\ e2 = entries' /\ x = es[e]
  BY Zenon
<1>2. /\ ~x.done /\ e2 = [es EXCEPT ![e].done = TRUE]
      /\ last' = IF x.epoch # resets THEN last
                 ELSE [last EXCEPT !["cache"][x.node] = [args |-> x.args, entry |-> e],
                                   !["pending"][x.node] = Empty]
      /\ UNCHANGED <<mode, heap, root, handlers, resets>>
  BY <1>1 DEF FinishLast
<1>3. es \in Seq(Record) /\ e \in 1..Len(es) /\ x \in Record
  BY <1>1 DEF Types
<1>4. Finished(es, e, e2)
  BY <1>2, <1>3, FinishedEntry
<1>5. x.node \in Node /\ x.args \in Seq(Arg)
  BY <1>3, DepthFacts DEF Record
<1>6. PICK lt, v, n : lt = last /\ v = [args |-> x.args, entry |-> e] /\ n = x.node
  BY Zenon
<1>7. lt \in [Tables -> [Node -> LastSlot]] /\ v \in LastSlot /\ n \in Node
      /\ "cache" \in Tables /\ "pending" \in Tables
  <2>1. e \in Nat
    BY <1>3
  <2>. QED BY <1>5, <1>6, <2>1 DEF Types, LastSlot, Tables
<1>8. PICK l1, l2 : l1 = [lt EXCEPT !["cache"][n] = v] /\ l2 = [l1 EXCEPT !["pending"][n] = Empty]
  BY Zenon
<1>9. /\ l1 \in [Tables -> [Node -> LastSlot]]
      /\ \A u \in Tables, m \in Node : l1[u][m] = IF u = "cache" /\ m = n THEN v ELSE lt[u][m]
  BY <1>7, <1>8, SlotSet
<1>10. /\ l2 \in [Tables -> [Node -> LastSlot]]
       /\ \A u \in Tables, m \in Node : l2[u][m] = IF u = "pending" /\ m = n THEN Empty ELSE l1[u][m]
  <2>1. PICK z : z = Empty
    OBVIOUS
  <2>2. z \in LastSlot
    BY <2>1, EmptySlot
  <2>3. l2 = [l1 EXCEPT !["pending"][n] = z]
    BY <1>8, <2>1
  <2>4. /\ l2 \in [Tables -> [Node -> LastSlot]]
        /\ \A u \in Tables, m \in Node : l2[u][m] = IF u = "pending" /\ m = n THEN z ELSE l1[u][m]
    BY <1>7, <1>9, <2>2, <2>3, SlotSet
  <2>. QED BY <2>1, <2>4
<1>11. x.epoch = resets => last' = l2
  BY <1>2, <1>6, <1>8
<1>12. last' \in [Tables -> [Node -> LastSlot]]
  BY <1>2, <1>6, <1>7, <1>10, <1>11
<1>13. ASSUME x.epoch = resets
       PROVE  /\ last'["cache"][n] = v /\ last'["pending"][n] = Empty
              /\ \A w \in Tables, m \in Node : m # n => last'[w][m] = last[w][m]
  BY <1>6, <1>7, <1>9, <1>10, <1>11, <1>13
<1>14. Types'
  BY <1>1, <1>2, <1>4, <1>12 DEF Types, Finished, LastSlot
<1>. QED BY <1>1, <1>2, <1>4, <1>6, <1>13, <1>14

LEMMA LastReturns ==
  ASSUME Types, HandlerReturnsLast, NEW f, f = Running
  PROVE  /\ f \in Handler /\ Types' /\ answer'.how = "miss"
         /\ \E x \in Record :
              /\ x.node = f.node /\ x.args = f.args /\ x.epoch = f.epoch /\ ~x.done
              /\ entries' = Append(entries, x)
         /\ f.epoch # resets => last' = last
         /\ f.epoch = resets => \A w \in Tables, m \in Node :
              last'[w][m] = IF w = "pending" /\ m = f.node
                            THEN [args |-> f.args, entry |-> Len(entries) + 1] ELSE last[w][m]
<1>1. PICK n, m, x, d : /\ n = Len(heap) + 1 /\ m = n + 1 /\ d = FALSE
                        /\ x = [node |-> f.node, args |-> f.args, obj |-> n, buf |-> m, epoch |-> f.epoch,
                                cacheParent |-> Nil, pendingParent |-> Nil, done |-> d]
  BY Zenon
<1>2. /\ mode = "last" /\ handlers # <<>> /\ handlers' = Outer
      /\ heap' = WithRecording(heap) /\ entries' = Append(entries, x)
      /\ last' = IF f.epoch # resets THEN last
                 ELSE [last EXCEPT !["pending"][f.node] = [args |-> f.args, entry |-> Len(entries) + 1]]
      /\ answer'.how = "miss"
      /\ UNCHANGED <<mode, root, resets>>
  BY <1>1 DEF HandlerReturnsLast, Answered, Recording
<1>3. f \in Handler /\ Outer \in Seq(Handler)
  <2>1. handlers \in Seq(Handler) /\ Outer = SubSeq(handlers, 1, Len(handlers) - 1) /\ f = handlers[Len(handlers)]
    BY DEF Types, Outer, Running
  <2>2. PICK out : out = Outer
    OBVIOUS
  <2>. QED BY <1>2, <2>1, <2>2, OuterFacts
<1>4. n \in Nat /\ m \in Nat /\ Nil \in Nat /\ d \in BOOLEAN /\ ~d /\ Len(entries) \in Nat
  <2>1. n = Len(heap) + 1 /\ m = n + 1 /\ d = FALSE
    BY <1>1
  <2>2. Len(heap) \in Nat /\ Len(entries) \in Nat
    BY DEF Types
  <2>3. n \in Nat /\ m \in Nat
    BY <2>1, <2>2
  <2>. QED BY <2>1, <2>2, <2>3 DEF Nil
<1>5. f.node \in Node /\ f.args \in Tuples /\ f.epoch \in Nat /\ f.args \in Seq(Arg)
  BY <1>3, ArgsAssumption DEF Handler
<1>6. x \in Record /\ x.node = f.node /\ x.args = f.args /\ x.epoch = f.epoch /\ ~x.done
  BY <1>1, <1>4, <1>5 DEF Record
<1>7. entries' \in Seq(Record)
  BY <1>2, <1>6, Appended DEF Types
<1>8. heap' \in Seq(Object)
  <2>1. [kind |-> "entry", kids |-> Bare] \in Object /\ [kind |-> "buf", kids |-> Bare] \in Object
    BY DEF Object, Bare, Nil
  <2>. QED BY <1>2, <2>1 DEF WithRecording, Types
<1>9. PICK lt, l2, v : /\ lt = last /\ v = [args |-> f.args, entry |-> Len(entries) + 1]
                       /\ l2 = [lt EXCEPT !["pending"][f.node] = v]
  BY Zenon
<1>10. lt \in [Tables -> [Node -> LastSlot]] /\ v \in LastSlot /\ "pending" \in Tables
  BY <1>4, <1>5, <1>9 DEF Types, LastSlot, Tables
<1>11. /\ l2 \in [Tables -> [Node -> LastSlot]]
       /\ \A w \in Tables, u \in Node : l2[w][u] = IF w = "pending" /\ u = f.node THEN v ELSE lt[w][u]
  BY <1>5, <1>9, <1>10, SlotSet
<1>12. f.epoch = resets => last' = l2
  BY <1>2, <1>9
<1>13. last' \in [Tables -> [Node -> LastSlot]]
  BY <1>2, <1>9, <1>10, <1>11, <1>12
<1>14. Types'
  BY <1>2, <1>3, <1>7, <1>8, <1>13 DEF Types, LastSlot
<1>15. f.epoch = resets => \A w \in Tables, u \in Node :
         last'[w][u] = IF w = "pending" /\ u = f.node THEN v ELSE last[w][u]
  BY <1>9, <1>11, <1>12
<1>. QED BY <1>2, <1>3, <1>6, <1>9, <1>14, <1>15


-----------------------------------------------------------------------------
(* AnswersMatch *)

(* What mode "last" keeps of a node is a recording for the arguments beside *)
(* it, finished or not as the table says.                                  *)
LastFor(es, rs, slot, w, n) ==
  /\ slot.entry \in 1..Len(es)
  /\ es[slot.entry].node = n /\ es[slot.entry].args = slot.args /\ es[slot.entry].epoch = rs
  /\ w = "cache" => es[slot.entry].done
  /\ w = "pending" => ~es[slot.entry].done
LastOK == \A w \in Tables, n \in Node : last[w][n].entry # Nil => LastFor(entries, resets, last[w][n], w, n)

Kept == (mode = "full" => \E lab : Full(lab)) /\ (mode = "last" => LastOK)

LEMMA CacheHitMatches ==
  ASSUME Uniform, Types, Kept, NEW n \in Node, NEW args \in Tuples, CacheHit(n, args) # Nil
  PROVE  \E e \in 1..Len(entries) : For(n, args, e) /\ CacheHit(n, args) = entries[e].buf /\ entries[e].done
<1>1. mode \in {"full", "last", "none"} /\ "cache" \in Tables
  BY ArgsAssumption DEF Types, Tables
<1>2. CASE mode = "full"
  <2>1. PICK lab : FullOK(heap, lab, entries, root, handlers, resets)
    BY <1>2 DEF Kept, Full
  <2>2. PICK obj : obj = Walk(heap, root["cache"][n], args)
    OBVIOUS
  <2>3. CacheHit(n, args) = obj
    BY <1>2, <2>2, LookupIsWalk DEF CacheHit
  <2>4. PICK e \in 1..Len(entries) :
          /\ entries[e].node = n /\ entries[e].args = args /\ entries[e].epoch = resets
          /\ Answers(entries[e], "cache", obj)
    BY <1>1, <2>1, <2>2, <2>3, LookupSound
  <2>. QED BY <2>3, <2>4 DEF Answers, For
<1>3. CASE mode = "last"
  <2>1. PICK s : s = last["cache"][n]
    OBVIOUS
  <2>2. CacheHit(n, args) = IF SlotHolds(s, args) THEN entries[s.entry].buf ELSE Nil
    BY <1>3, <2>1 DEF CacheHit
  <2>3. s.entry # Nil /\ s.args = args /\ CacheHit(n, args) = entries[s.entry].buf
    BY <2>2 DEF SlotHolds
  <2>4. LastFor(entries, resets, s, "cache", n)
    BY <1>1, <1>3, <2>1, <2>3 DEF Kept, LastOK
  <2>. QED BY <2>3, <2>4 DEF LastFor, For
<1>4. CASE mode = "none"
  BY <1>4 DEF CacheHit
<1>. QED BY <1>1, <1>2, <1>3, <1>4

LEMMA InFlightMatches ==
  ASSUME Uniform, Types, Kept, NEW n \in Node, NEW args \in Tuples, InFlight(n, args) # Nil
  PROVE  \E e \in 1..Len(entries) : For(n, args, e) /\ InFlight(n, args) = entries[e].obj /\ ~entries[e].done
<1>1. mode \in {"full", "last", "none"} /\ "pending" \in Tables
  BY ArgsAssumption DEF Types, Tables
<1>2. CASE mode = "full"
  <2>1. PICK lab : FullOK(heap, lab, entries, root, handlers, resets)
    BY <1>2 DEF Kept, Full
  <2>2. PICK obj : obj = Walk(heap, root["pending"][n], args)
    OBVIOUS
  <2>3. InFlight(n, args) = obj
    BY <1>2, <2>2, LookupIsWalk DEF InFlight
  <2>4. PICK e \in 1..Len(entries) :
          /\ entries[e].node = n /\ entries[e].args = args /\ entries[e].epoch = resets
          /\ Answers(entries[e], "pending", obj)
    BY <1>1, <2>1, <2>2, <2>3, LookupSound
  <2>. QED BY <2>3, <2>4 DEF Answers, For
<1>3. CASE mode = "last"
  <2>1. PICK s : s = last["pending"][n]
    OBVIOUS
  <2>2. InFlight(n, args) = IF SlotHolds(s, args) THEN entries[s.entry].obj ELSE Nil
    BY <1>3, <2>1 DEF InFlight
  <2>3. s.entry # Nil /\ s.args = args /\ InFlight(n, args) = entries[s.entry].obj
    BY <2>2 DEF SlotHolds
  <2>4. LastFor(entries, resets, s, "pending", n)
    BY <1>1, <1>3, <2>1, <2>3 DEF Kept, LastOK
  <2>. QED BY <2>3, <2>4 DEF LastFor, For
<1>4. CASE mode = "none"
  BY <1>4 DEF InFlight
<1>. QED BY <1>1, <1>2, <1>3, <1>4

(* Which steps leave everything but the answer alone. *)
Quiet == UNCHANGED <<mode, heap, entries, root, last, handlers, resets>>

LEMMA QuietKeeps ==
  ASSUME Types, Kept, Quiet
  PROVE  Types' /\ Kept'
<1>1. Types'
  BY DEF Types, Quiet
<1>2. ASSUME NEW lab, Full(lab) PROVE Full(lab)'
  BY <1>2 DEF Full, Quiet
<1>3. LastOK => LastOK'
  BY DEF LastOK, Quiet
<1>. QED BY <1>1, <1>2, <1>3 DEF Kept, Quiet

LEMMA LookupsAnswer ==
  ASSUME Uniform, Types, Kept, NEW n \in Node, NEW args \in Tuples,
         CallHit(n, args) \/ CallShared(n, args) \/ CallUncached(n, args) \/ Cached(n, args)
  PROVE  Quiet /\ AnswersMatch'
<1>1. Quiet
  BY DEF CallHit, CallShared, CallUncached, Cached, Quiet
<1>2. CASE CallHit(n, args) \/ Cached(n, args)
  <2>1. PICK obj : obj = CacheHit(n, args)
    OBVIOUS
  <2>2. /\ obj # Nil /\ answer'.how # "shared"
        /\ answer'.node = n /\ answer'.args = args /\ answer'.obj = obj
    BY <1>2, <2>1 DEF CallHit, Cached, Answered
  <2>3. PICK e \in 1..Len(entries) : For(n, args, e) /\ obj = entries[e].buf /\ entries[e].done
    BY <2>1, <2>2, CacheHitMatches
  <2>. QED BY <1>1, <2>2, <2>3 DEF AnswersMatch, For, Quiet
<1>3. CASE CallShared(n, args)
  <2>1. PICK obj : obj = InFlight(n, args)
    OBVIOUS
  <2>2. /\ obj # Nil /\ answer'.how = "shared"
        /\ answer'.node = n /\ answer'.args = args /\ answer'.obj = obj
    BY <1>3, <2>1 DEF CallShared, Answered
  <2>3. PICK e \in 1..Len(entries) : For(n, args, e) /\ obj = entries[e].obj /\ ~entries[e].done
    BY <2>1, <2>2, InFlightMatches
  <2>. QED BY <1>1, <2>2, <2>3 DEF AnswersMatch, For, Quiet
<1>4. CASE CallUncached(n, args)
  <2>1. answer'.how = "miss"
    BY <1>4 DEF CallUncached, Answered
  <2>. QED BY <1>1, <2>1 DEF AnswersMatch
<1>. QED BY <1>1, <1>2, <1>3, <1>4, Zenon

LEMMA SameLast ==
  ASSUME LastOK, UNCHANGED <<entries, last, resets>>
  PROVE  LastOK'
BY DEF LastOK

LEMMA LastReturned ==
  ASSUME Types, LastOK, HandlerReturnsLast
  PROVE  LastOK'
<1>1. PICK f : f = Running
  OBVIOUS
<1>2. /\ f \in Handler
      /\ \E x \in Record :
           /\ x.node = f.node /\ x.args = f.args /\ x.epoch = f.epoch /\ ~x.done
           /\ entries' = Append(entries, x)
      /\ f.epoch # resets => last' = last
      /\ f.epoch = resets => \A w \in Tables, m \in Node :
           last'[w][m] = IF w = "pending" /\ m = f.node
                         THEN [args |-> f.args, entry |-> Len(entries) + 1] ELSE last[w][m]
  BY <1>1, LastReturns
<1>3. PICK x \in Record : /\ x.node = f.node /\ x.args = f.args /\ x.epoch = f.epoch /\ ~x.done
                          /\ entries' = Append(entries, x)
  BY <1>2
<1>4. PICK es, e2 : es = entries /\ e2 = Append(es, x)
  BY Zenon
<1>5. /\ Len(e2) = Len(es) + 1 /\ Len(es) \in Nat /\ e2[Len(es) + 1] = x
      /\ \A i \in 1..Len(es) : e2[i] = es[i]
  BY <1>4, Appended DEF Types
<1>6. \A i \in 1..Len(es) : i \in 1..Len(e2)
  BY <1>5
<1>7. resets' = resets
  BY DEF HandlerReturnsLast
<1>8. ASSUME NEW w \in Tables, NEW m \in Node, last'[w][m].entry # Nil
      PROVE  LastFor(e2, resets, last'[w][m], w, m)
  <2>1. CASE last'[w][m] = last[w][m]
    <3>1. PICK s : s = last[w][m]
      OBVIOUS
    <3>2. LastFor(es, resets, s, w, m)
      BY <1>4, <1>8, <2>1, <3>1 DEF LastOK
    <3>. QED BY <1>5, <1>6, <2>1, <3>1, <3>2 DEF LastFor
  <2>2. CASE last'[w][m] # last[w][m]
    <3>1. f.epoch = resets /\ w = "pending" /\ m = f.node
      BY <1>2, <2>2
    <3>2. PICK s : s = last'[w][m]
      OBVIOUS
    <3>3. s = [args |-> f.args, entry |-> Len(es) + 1]
      BY <1>2, <1>4, <3>1, <3>2
    <3>4. s.args = f.args /\ s.entry = Len(es) + 1 /\ Len(es) + 1 \in 1..Len(e2)
      BY <1>5, <3>3
    <3>5. LastFor(e2, resets, s, w, m)
      BY <1>3, <1>5, <3>1, <3>4 DEF LastFor
    <3>. QED BY <3>2, <3>5
  <2>. QED BY <2>1, <2>2
<1>. QED BY <1>3, <1>4, <1>7, <1>8 DEF LastOK

LEMMA LastFinishes ==
  ASSUME Uniform, Types, LastOK, NEW e \in 1..Len(entries), FinishLast(e)
  PROVE  LastOK'
<1>1. /\ Finished(entries, e, entries') /\ ~entries[e].done
      /\ entries[e].epoch # resets => last' = last
      /\ entries[e].epoch = resets =>
           /\ last'["cache"][entries[e].node] = [args |-> entries[e].args, entry |-> e]
           /\ last'["pending"][entries[e].node] = Empty
           /\ \A w \in Tables, m \in Node : m # entries[e].node => last'[w][m] = last[w][m]
  BY LastFinished
<1>2. PICK es, e2, x : es = entries /\ e2 = entries' /\ x = es[e]
  BY Zenon
<1>3. /\ Len(e2) = Len(es) /\ \A i \in 1..Len(es) : i # e => e2[i] = es[i]
      /\ e2[e].done /\ e2[e].node = x.node /\ e2[e].args = x.args /\ e2[e].epoch = x.epoch
      /\ e \in 1..Len(es) /\ ~x.done
  BY <1>1, <1>2 DEF Finished
<1>4. resets' = resets
  BY DEF FinishLast
<1>5. ASSUME NEW w \in Tables, NEW m \in Node, last'[w][m].entry # Nil
      PROVE  LastFor(e2, resets, last'[w][m], w, m)
  <2>1. CASE x.epoch = resets /\ m = x.node
    <3>1. w = "cache" \/ w = "pending"
      BY DEF Tables
    <3>2. CASE w = "pending"
      <4>1. last'[w][m] = Empty
        BY <1>1, <1>2, <2>1, <3>2
      <4>. QED BY <1>5, <4>1, EmptySlot
    <3>3. CASE w = "cache"
      <4>1. PICK s : s = last'[w][m]
        OBVIOUS
      <4>2. s = [args |-> x.args, entry |-> e]
        BY <1>1, <1>2, <2>1, <3>3, <4>1
      <4>3. s.args = x.args /\ s.entry = e
        BY <4>2
      <4>4. LastFor(e2, resets, s, w, m)
        BY <1>3, <2>1, <3>3, <4>3 DEF LastFor
      <4>. QED BY <4>1, <4>4
    <3>. QED BY <3>1, <3>2, <3>3
  <2>2. CASE ~(x.epoch = resets /\ m = x.node)
    <3>1. PICK s : s = last[w][m]
      OBVIOUS
    <3>2. last'[w][m] = s
      BY <1>1, <1>2, <2>2, <3>1
    <3>3. LastFor(es, resets, s, w, m)
      BY <1>2, <1>5, <3>1, <3>2 DEF LastOK
    <3>4. s.entry # e
      BY <1>2, <2>2, <3>3 DEF LastFor
    <3>5. LastFor(e2, resets, s, w, m)
      BY <1>3, <3>3, <3>4 DEF LastFor
    <3>. QED BY <3>2, <3>5
  <2>. QED BY <2>1, <2>2
<1>. QED BY <1>2, <1>4, <1>5 DEF LastOK


LEMMA KeptInit == ASSUME Init PROVE Types /\ Kept /\ AnswersMatch
<1>1. heap = <<>> /\ entries = <<>> /\ handlers = <<>> /\ resets = 0 /\ mode \in Modes /\ answer = NoAnswer
  BY DEF Init
<1>2. /\ root \in [Tables -> [Node -> Nat]] /\ last \in [Tables -> [Node -> LastSlot]]
      /\ \A w \in Tables, n \in Node : root[w][n] = Nil /\ last[w][n].entry = Nil
  <2>1. root \in [Tables -> [Node -> Nat]] /\ \A w \in Tables, n \in Node : root[w][n] = Nil
    BY DEF Init, Nil
  <2>2. PICK z : z = Empty
    OBVIOUS
  <2>3. last = [w \in Tables |-> [n \in Node |-> z]]
    BY <2>2 DEF Init
  <2>4. z \in LastSlot /\ z.entry = Nil
    BY <2>2, EmptySlot
  <2>. QED BY <2>1, <2>3, <2>4
<1>3. heap \in Seq(Object) /\ Len(heap) = 0 /\ entries \in Seq(Record) /\ handlers \in Seq(Handler)
      /\ Len(entries) = 0 /\ Len(handlers) = 0
  BY <1>1
<1>4. Types
  BY <1>1, <1>2, <1>3 DEF Types, LastSlot
<1>5. Full(<<>>)
  <2>1. HeapOK(heap)
    BY <1>3 DEF HeapOK
  <2>2. <<>> \in Seq(Labels) /\ Len(<<>>) = 0
    OBVIOUS
  <2>3. Tree(heap, <<>>)
    BY <1>3, <2>1, <2>2 DEF Tree
  <2>. QED BY <1>2, <1>3, <2>3 DEF Full, FullOK, RootsOK, HandlersOK, EntriesOK, SlotsOK
<1>6. LastOK
  BY <1>2 DEF LastOK
<1>7. AnswersMatch
  BY <1>1 DEF AnswersMatch, NoAnswer
<1>. QED BY <1>4, <1>5, <1>6, <1>7 DEF Kept

(* Every step keeps what the tables say true, and answers accordingly.      *)
LEMMA KeptStep ==
  ASSUME Uniform, Types, Kept, AnswersMatch, [Next]_vars
  PROVE  Types' /\ Kept' /\ AnswersMatch'
<1>1. ASSUME answer' = NoAnswer PROVE AnswersMatch'
  BY <1>1 DEF AnswersMatch, NoAnswer
<1>2. ASSUME answer'.how = "miss" PROVE AnswersMatch'
  BY <1>2 DEF AnswersMatch
<1>3. ASSUME UNCHANGED <<answer, entries, resets>> PROVE AnswersMatch'
  BY <1>3 DEF AnswersMatch, For
<1>4. CASE \E n \in Node, args \in Tuples :
             CallHit(n, args) \/ CallShared(n, args) \/ CallUncached(n, args) \/ Cached(n, args)
  BY <1>4, LookupsAnswer, QuietKeeps
<1>5. ASSUME NEW n \in Node, NEW args \in Tuples, CallMiss(n, args)
      PROVE  Types' /\ Kept' /\ AnswersMatch'
  <2>1. Types' /\ \A lab : Full(lab) => Full(lab)'
    BY <1>5, CallMissFull
  <2>2. answer' = NoAnswer /\ UNCHANGED <<mode, entries, last, resets>>
    BY <1>5 DEF CallMiss
  <2>3. LastOK => LastOK'
    BY <2>2, SameLast
  <2>. QED BY <1>1, <2>1, <2>2, <2>3 DEF Kept
<1>6. CASE HandlerReturnsFull
  <2>1. mode = "full"
    BY <1>6, Zenon DEF HandlerReturnsFull
  <2>2. PICK lab : Full(lab)
    BY <2>1 DEF Kept
  <2>3. PICK f : f = Running
    OBVIOUS
  <2>4. /\ Types' /\ mode' = mode /\ answer'.how = "miss"
        /\ \E lab2 : FullOK(heap', lab2, entries', root', handlers', resets')
    BY <1>6, <2>2, <2>3, ReturnsFull
  <2>5. \E lab2 : Full(lab2)'
    BY <2>4 DEF Full
  <2>. QED BY <1>2, <2>1, <2>4, <2>5 DEF Kept
<1>7. CASE HandlerReturnsLast
  <2>1. mode = "last" /\ mode' = mode /\ answer'.how = "miss"
    BY <1>7 DEF HandlerReturnsLast, Answered
  <2>2. PICK f : f = Running
    OBVIOUS
  <2>3. Types'
    BY <1>7, <2>2, LastReturns
  <2>4. LastOK'
    BY <1>7, <2>1, LastReturned DEF Kept
  <2>. QED BY <1>2, <2>1, <2>3, <2>4 DEF Kept
<1>8. CASE HandlerRaises
  <2>1. handlers' = <<>> /\ UNCHANGED <<mode, heap, entries, root, last, answer, calls, resets>>
    BY <1>8 DEF HandlerRaises
  <2>2. handlers' \in Seq(Handler) /\ Len(handlers') = 0
    BY <2>1
  <2>3. Types'
    BY <2>1, <2>2 DEF Types
  <2>4. ASSUME NEW lab, Full(lab) PROVE Full(lab)'
    <3>1. HandlersOK(heap, lab, handlers')
      BY <2>2 DEF HandlersOK
    <3>. QED BY <2>1, <2>4, <3>1 DEF Full, FullOK
  <2>5. LastOK => LastOK'
    BY <2>1, SameLast
  <2>. QED BY <1>3, <2>1, <2>3, <2>4, <2>5 DEF Kept
<1>9. ASSUME NEW e \in 1..Len(entries), FinishFull(e) PROVE Types' /\ Kept' /\ AnswersMatch'
  <2>1. mode = "full" /\ mode' = mode /\ answer' = NoAnswer
    BY <1>9 DEF FinishFull
  <2>2. PICK lab : Full(lab)
    BY <2>1 DEF Kept
  <2>3. Types' /\ Full(lab)'
    BY <1>9, <2>2, FinishesFull
  <2>. QED BY <1>1, <2>1, <2>3, SMTT(60) DEF Kept
<1>10. ASSUME NEW e \in 1..Len(entries), FinishLast(e) PROVE Types' /\ Kept' /\ AnswersMatch'
  <2>1. mode = "last" /\ mode' = mode /\ answer' = NoAnswer
    BY <1>10 DEF FinishLast
  <2>2. Types'
    BY <1>10, LastFinished
  <2>3. LastOK'
    BY <1>10, <2>1, LastFinishes DEF Kept
  <2>. QED BY <1>1, <2>1, <2>2, <2>3 DEF Kept
<1>11. CASE Reset
  <2>1. /\ resets' = resets + 1 /\ answer' = NoAnswer /\ UNCHANGED <<mode, heap, entries, handlers>>
        /\ root' = [w \in Tables |-> [n \in Node |-> Nil]]
        /\ last' = [w \in Tables |-> [n \in Node |-> Empty]]
    BY <1>11 DEF Reset
  <2>2. /\ root' \in [Tables -> [Node -> Nat]] /\ last' \in [Tables -> [Node -> LastSlot]]
        /\ \A w \in Tables, n \in Node : root'[w][n] = Nil /\ last'[w][n].entry = Nil
    <3>1. root' \in [Tables -> [Node -> Nat]] /\ \A w \in Tables, n \in Node : root'[w][n] = Nil
      BY <2>1 DEF Nil
    <3>2. PICK z : z = Empty
      OBVIOUS
    <3>3. last' = [w \in Tables |-> [n \in Node |-> z]]
      BY <2>1, <3>2
    <3>4. z \in LastSlot /\ z.entry = Nil
      BY <3>2, EmptySlot
    <3>. QED BY <3>1, <3>3, <3>4
  <2>3. Types'
    <3>1. resets + 1 \in Nat
      BY DEF Types
    <3>. QED BY <2>1, <2>2, <3>1 DEF Types, LastSlot
  <2>4. ASSUME NEW lab, Full(lab) PROVE Full(lab)'
    <3>1. RootsOK(heap, lab, root', resets')
      BY <2>2 DEF RootsOK
    <3>. QED BY <2>1, <2>4, <3>1 DEF Full, FullOK
  <2>5. LastOK'
    BY <2>2 DEF LastOK
  <2>. QED BY <1>1, <2>1, <2>3, <2>4, <2>5 DEF Kept
<1>12. CASE UNCHANGED vars
  <2>1. Quiet /\ UNCHANGED <<answer, entries, resets>>
    BY <1>12 DEF vars, Quiet
  <2>. QED BY <1>3, <2>1, QuietKeeps
<1>. QED BY <1>4, <1>5, <1>6, <1>7, <1>8, <1>9, <1>10, <1>11, <1>12 DEF Next

(* Extra arguments are dimensions of the key: whatever a call of a phase    *)
(* finds, committed or in flight, was produced for the same node and the   *)
(* same arguments since the last reset, whatever the handlers, resets and   *)
(* recordings were doing in between (pvm.lua, lookup_phase_args,            *)
(* ensure_phase_args_parent and the miss of phase).                        *)
THEOREM AnswersAreTheirs == Uniform => (Spec => []AnswersMatch)
<1>. SUFFICES ASSUME Uniform PROVE Spec => []AnswersMatch
  OBVIOUS
<1>. DEFINE IInv == Types /\ Kept /\ AnswersMatch
<1>1. Init => IInv
  BY KeptInit
<1>2. IInv /\ [Next]_vars => IInv'
  BY KeptStep
<1>3. IInv => AnswersMatch
  OBVIOUS
<1>. QED BY <1>1, <1>2, <1>3, PTL DEF Spec


-----------------------------------------------------------------------------
(* FullHistory *)

(* No two recordings are for the same arguments in the same epoch.          *)
Once(es) ==
  \A e, f \in 1..Len(es) :
    e # f => es[e].node # es[f].node \/ es[e].args # es[f].args \/ es[e].epoch # es[f].epoch

(* What is being computed has no recording yet. *)
Fresh(es, hs) ==
  \A k \in 1..Len(hs), e \in 1..Len(es) :
    es[e].node = hs[k].node /\ es[e].args = hs[k].args => es[e].epoch # hs[k].epoch

(* Only one handler of a node is running, so that what its call looked up   *)
(* is still the node's, unless there was a reset.                          *)
Alone(hs) == \A j, k \in 1..Len(hs) : j # k => hs[j].node # hs[k].node
RootsKnown(hs, rt, rs) ==
  \A k \in 1..Len(hs), w \in Tables : hs[k].epoch = rs => hs[k].roots[w] = rt[w][hs[k].node]

(* Every recording since the last reset can be found. *)
AllFound(h, lab, es, rt, rs) == \A e \in 1..Len(es) : es[e].epoch = rs => Found(h, lab, es[e], rt)

Epochs(es, hs, rs) ==
  /\ \A e \in 1..Len(es) : es[e].epoch <= rs
  /\ \A k \in 1..Len(hs) : hs[k].epoch <= rs

History(h, lab, es, rt, hs, rs) ==
  /\ Once(es)
  /\ Fresh(es, hs)
  /\ Alone(hs)
  /\ RootsKnown(hs, rt, rs)
  /\ AllFound(h, lab, es, rt, rs)
  /\ Epochs(es, hs, rs)
Hist(lab) == History(heap, lab, entries, root, handlers, resets)

(* One slot is one key. *)
LEMMA SameKey ==
  ASSUME Uniform, NEW h, NEW lab, NEW o, NEW w, NEW v, NEW x, NEW y,
         IsParent(h, lab, o, w, x), IsParent(h, lab, o, v, y),
         x.args \in Tuples, y.args \in Tuples, Slot(x.args) = Slot(y.args)
  PROVE  w = v /\ x.node = y.node /\ x.epoch = y.epoch /\ x.args = y.args
<1>1. PICK p, q : p = x.args /\ q = y.args
  BY Zenon
<1>2. p \in Seq(Arg) /\ q \in Seq(Arg) /\ Len(p) # 0 /\ Len(q) # 0
  BY <1>1, DepthFacts
<1>3. p = Append(Levels(p), Slot(p)) /\ q = Append(Levels(q), Slot(q))
  BY <1>2, LevelsFacts
<1>4. Levels(p) = Levels(q)
  BY <1>1 DEF IsParent
<1>5. p = q
  BY <1>1, <1>3, <1>4
<1>. QED BY <1>1, <1>5 DEF IsParent

LEMMA HistoryCallMiss ==
  ASSUME Uniform, ~SelfCalls, Types, NEW lab, Full(lab), Hist(lab), mode = "full",
         NEW n \in Node, NEW args \in Tuples, CallMiss(n, args)
  PROVE  Hist(lab)'
<1>1. PICK f, rr : /\ rr = [w \in Tables |-> root[w][n]]
                   /\ f = [node |-> n, args |-> args, epoch |-> resets, roots |-> rr]
  BY Zenon
<1>2. \A w \in Tables : rr[w] = root[w][n]
  BY <1>1
<1>3. f.node = n /\ f.args = args /\ f.epoch = resets /\ f.roots = rr
  BY <1>1
<1>4. PICK hs, h2 : hs = handlers /\ h2 = Append(hs, f)
  BY Zenon
<1>5. /\ handlers' = h2 /\ UNCHANGED <<mode, heap, entries, root, last, resets>>
      /\ CacheHit(n, args) = Nil /\ InFlight(n, args) = Nil
      /\ \A k \in 1..Len(hs) : hs[k].node # n
  BY <1>1, <1>4 DEF CallMiss, Misses
<1>6. f \in Handler /\ hs \in Seq(Handler)
  <2>1. rr \in [Tables -> Nat] /\ resets \in Nat /\ hs \in Seq(Handler)
    BY <1>1, <1>4 DEF Types
  <2>. QED BY <1>1, <2>1 DEF Handler
<1>7. /\ Len(h2) = Len(hs) + 1 /\ h2[Len(hs) + 1] = f /\ Len(hs) \in Nat
      /\ \A k \in 1..Len(hs) : h2[k] = hs[k]
  BY <1>4, <1>6, Appended
<1>8. \A k \in 1..Len(h2) : k \in 1..Len(hs) \/ k = Len(hs) + 1
  BY <1>7
<1>9. ASSUME NEW e \in 1..Len(entries), entries[e].node = n, entries[e].args = args, entries[e].epoch = resets
      PROVE  FALSE
  <2>1. PICK x, h, rt : x = entries[e] /\ h = heap /\ rt = root
    BY Zenon
  <2>2. x \in Record /\ x.node = n /\ x.args = args
    BY <1>9, <2>1 DEF Types
  <2>3. Tree(h, lab) /\ EntryOK(h, lab, x) /\ Found(h, lab, x, rt)
    BY <1>9, <2>1 DEF Full, FullOK, EntriesOK, Hist, History, AllFound
  <2>4. /\ x.done => Walk(h, rt["cache"][n], args) # Nil
        /\ ~x.done => Walk(h, rt["pending"][n], args) # Nil
    BY <2>2, <2>3, LookupComplete
  <2>5. CacheHit(n, args) = Walk(h, rt["cache"][n], args) /\ InFlight(n, args) = Walk(h, rt["pending"][n], args)
    BY <2>1, LookupIsWalk DEF CacheHit, InFlight
  <2>. QED BY <1>5, <2>4, <2>5
<1>10. Fresh(entries, h2)
  <2>1. Fresh(entries, hs)
    BY <1>4 DEF Hist, History
  <2>2. ASSUME NEW k \in 1..Len(h2), NEW e \in 1..Len(entries),
               entries[e].node = h2[k].node, entries[e].args = h2[k].args
        PROVE  entries[e].epoch # h2[k].epoch
    <3>1. CASE k \in 1..Len(hs)
      BY <1>7, <2>1, <2>2, <3>1 DEF Fresh
    <3>2. CASE k = Len(hs) + 1
      BY <1>3, <1>7, <1>9, <2>2, <3>2
    <3>. QED BY <1>8, <3>1, <3>2
  <2>. QED BY <2>2 DEF Fresh
<1>11. Alone(h2)
  <2>1. Alone(hs)
    BY <1>4 DEF Hist, History
  <2>. QED BY <1>3, <1>5, <1>7, <1>8, <2>1 DEF Alone
<1>12. RootsKnown(h2, root, resets)
  <2>1. RootsKnown(hs, root, resets)
    BY <1>4 DEF Hist, History
  <2>. QED BY <1>2, <1>3, <1>7, <1>8, <2>1 DEF RootsKnown
<1>13. Epochs(entries, h2, resets)
  <2>1. Epochs(entries, hs, resets) /\ resets \in Nat
    BY <1>4 DEF Hist, History, Types
  <2>. QED BY <1>3, <1>7, <1>8, <2>1 DEF Epochs
<1>14. History(heap, lab, entries, root, h2, resets)
  BY <1>10, <1>11, <1>12, <1>13 DEF Hist, History
<1>. QED BY <1>5, <1>14 DEF Hist

LEMMA FoundFinished ==
  ASSUME Uniform, NEW h, NEW lab, NEW es, NEW rt, NEW hs, NEW rs,
         FullOK(h, lab, es, rt, hs, rs), es \in Seq(Record), NEW e \in 1..Len(es), NEW e2, Finished(es, e, e2),
         Once(es), AllFound(h, lab, es, rt, rs),
         NEW k, k = Swapped(h, es[e].cacheParent, es[e].pendingParent, Slot(es[e].args), es[e].buf)
  PROVE  AllFound(k, lab, e2, rt, rs)
<1>1. PICK x, a, cp, pp, v : /\ x = es[e] /\ a = Slot(x.args) /\ v = x.buf
                             /\ cp = x.cacheParent /\ pp = x.pendingParent
  BY Zenon
<1>2. x \in Record /\ x.args \in Tuples
  <2>1. x \in Record
    BY <1>1
  <2>. QED BY <2>1 DEF Record
<1>3. IsParent(h, lab, cp, "cache", x) /\ IsParent(h, lab, pp, "pending", x) /\ v \in 1..Len(h)
  BY <1>1 DEF FullOK, EntriesOK, EntryOK
<1>4. cp \in 1..Len(h) /\ pp \in 1..Len(h) /\ cp # pp
  BY <1>3 DEF IsParent
<1>5. a \in Arg
  <2>1. PICK args : args = x.args
    OBVIOUS
  <2>2. args \in Seq(Arg) /\ Len(args) # 0
    BY <1>2, <2>1, DepthFacts
  <2>. QED BY <1>1, <2>1, <2>2, LevelsFacts
<1>6. HeapOK(h)
  BY DEF FullOK, Tree
<1>7. \A q \in 1..Len(h), b \in Arg :
        k[q].kids[b] = IF b = a /\ q = cp THEN v ELSE IF b = a /\ q = pp THEN Nil ELSE h[q].kids[b]
  <2>1. k = Swapped(h, cp, pp, a, v)
    BY <1>1
  <2>2. \A q \in 1..Len(h) :
          /\ k[q].kind = h[q].kind
          /\ q # cp /\ q # pp => k[q] = h[q]
          /\ \A b \in Arg : k[q].kids[b] = IF b = a /\ q = cp THEN v
                                           ELSE IF b = a /\ q = pp THEN Nil ELSE h[q].kids[b]
    BY <1>3, <1>4, <1>5, <1>6, <2>1, FinishedFacts
  <2>. QED BY <2>2
<1>8. ASSUME NEW i \in 1..Len(es), e2[i].epoch = rs PROVE Found(k, lab, e2[i], rt)
  <2>1. PICK y, z, b : y = es[i] /\ z = e2[i] /\ b = Slot(y.args)
    BY Zenon
  <2>2. /\ z.node = y.node /\ z.args = y.args /\ z.epoch = y.epoch /\ z.obj = y.obj /\ z.buf = y.buf
        /\ z.cacheParent = y.cacheParent /\ z.pendingParent = y.pendingParent
        /\ i # e => (z.done <=> y.done)
        /\ i = e => z.done /\ y = x
    BY <1>1, <2>1 DEF Finished
  <2>3. Found(h, lab, y, rt) /\ y \in Record /\ y.args \in Tuples
    <3>1. Found(h, lab, y, rt)
      BY <1>8, <2>1, <2>2 DEF AllFound
    <3>2. y \in Record
      BY <2>1
    <3>3. y.args \in Tuples
      BY <3>2 DEF Record
    <3>. QED BY <3>1, <3>2, <3>3
  <2>4. IsParent(h, lab, y.cacheParent, "cache", y) /\ IsParent(h, lab, y.pendingParent, "pending", y)
    BY <2>1 DEF FullOK, EntriesOK, EntryOK
  <2>5. y.cacheParent \in 1..Len(h) /\ y.pendingParent \in 1..Len(h)
    BY <2>4 DEF IsParent
  <2>6. b \in Arg
    <3>1. PICK args : args = y.args
      OBVIOUS
    <3>2. args \in Seq(Arg) /\ Len(args) # 0
      BY <2>3, <3>1, DepthFacts
    <3>. QED BY <2>1, <3>1, <3>2, LevelsFacts
  <2>7. i # e => ~(b = a /\ y.cacheParent = cp) /\ ~(b = a /\ y.pendingParent = pp)
    <3>1. ASSUME i # e, b = a, y.cacheParent = cp \/ y.pendingParent = pp PROVE FALSE
      <4>1. x.node = y.node /\ x.epoch = y.epoch /\ x.args = y.args
        <5>1. Slot(x.args) = Slot(y.args)
          BY <1>1, <2>1, <3>1
        <5>2. CASE y.cacheParent = cp
          <6>1. IsParent(h, lab, cp, "cache", y)
            BY <2>4, <5>2
          <6>. QED BY <1>2, <1>3, <2>3, <5>1, <6>1, SameKey
        <5>3. CASE y.pendingParent = pp
          <6>1. IsParent(h, lab, pp, "pending", y)
            BY <2>4, <5>3
          <6>. QED BY <1>2, <1>3, <2>3, <5>1, <6>1, SameKey
        <5>. QED BY <3>1, <5>2, <5>3
      <4>. QED BY <1>1, <2>1, <3>1, <4>1 DEF Once
    <3>. QED BY <3>1
  <2>8. y.cacheParent # pp /\ y.pendingParent # cp
    BY <1>3, <2>4 DEF IsParent
  <2>9. z.done => k[y.cacheParent].kids[b] = y.buf
    <3>1. k[y.cacheParent].kids[b] = IF b = a /\ y.cacheParent = cp THEN v
                                     ELSE IF b = a /\ y.cacheParent = pp THEN Nil ELSE h[y.cacheParent].kids[b]
      BY <1>7, <2>5, <2>6
    <3>2. CASE i = e
      BY <1>1, <2>1, <2>2, <3>1, <3>2
    <3>3. CASE i # e
      BY <2>1, <2>2, <2>3, <2>7, <2>8, <3>1, <3>3 DEF Found
    <3>. QED BY <3>2, <3>3
  <2>10. ~z.done => k[y.pendingParent].kids[b] = y.obj
    <3>1. k[y.pendingParent].kids[b] = IF b = a /\ y.pendingParent = cp THEN v
                                     ELSE IF b = a /\ y.pendingParent = pp THEN Nil ELSE h[y.pendingParent].kids[b]
      BY <1>7, <2>5, <2>6
    <3>2. CASE i = e
      BY <2>2, <3>2
    <3>3. CASE i # e
      BY <2>1, <2>2, <2>3, <2>7, <2>8, <3>1, <3>3, SMTT(60) DEF Found
    <3>. QED BY <3>2, <3>3
  <2>11. Found(k, lab, z, rt)
    BY <2>1, <2>2, <2>3, <2>9, <2>10 DEF Found
  <2>. QED BY <2>1, <2>11
<1>9. Len(e2) = Len(es)
  BY DEF Finished
<1>. QED BY <1>8, <1>9 DEF AllFound


RootsAre(rt, n, yes, c, no, p, rt2) ==
  /\ rt2["cache"][n] = IF yes THEN c ELSE rt["cache"][n]
  /\ rt2["pending"][n] = IF no THEN p ELSE rt["pending"][n]
  /\ \A w \in Tables, m \in Node : m # n => rt2[w][m] = rt[w][m]

LEMMA RootsSetAre ==
  \A rt \in [Tables -> [Node -> Nat]], n \in Node, c \in Nat, p \in Nat, yes \in BOOLEAN, no \in BOOLEAN :
    RootsAre(rt, n, yes, c, no, p, RootsSet(rt, n, yes, c, no, p))
<1>1. ASSUME NEW rt \in [Tables -> [Node -> Nat]], NEW n \in Node, NEW c \in Nat, NEW p \in Nat,
             NEW yes \in BOOLEAN, NEW no \in BOOLEAN
      PROVE  RootsAre(rt, n, yes, c, no, p, RootsSet(rt, n, yes, c, no, p))
  <2>1. PICK rt2 : rt2 = RootsSet(rt, n, yes, c, no, p)
    OBVIOUS
  <2>2. /\ rt2 \in [Tables -> [Node -> Nat]]
        /\ rt2["cache"][n] = IF yes THEN c ELSE rt["cache"][n]
        /\ rt2["pending"][n] = IF no THEN p ELSE rt["pending"][n]
        /\ \A w \in Tables, m \in Node : m # n => rt2[w][m] = rt[w][m]
    BY <1>1, <2>1, RootsAfter, SMTT(60)
  <2>. QED BY <2>1, <2>2 DEF RootsAre
<1>. QED BY <1>1

(* The recording x made when the handler of f returns.                      *)
LEMMA HistoryReturned ==
  ASSUME Uniform, NEW h, NEW lab, NEW es, NEW rt, NEW hs, NEW rs,
         FullOK(h, lab, es, rt, hs, rs), History(h, lab, es, rt, hs, rs),
         es \in Seq(Record), hs \in Seq(Handler), hs # <<>>, rs \in Nat,
         rt \in [Tables -> [Node -> Nat]],
         NEW f, f = hs[Len(hs)], NEW out, out = SubSeq(hs, 1, Len(hs) - 1),
         NEW k, NEW lab2, NEW e2, NEW rt2, NEW x, NEW c, NEW p,
         FullOK(k, lab2, e2, rt2, out, rs),
         Returned(h, lab, k, lab2, es, e2, rt, rt2, rs, f, x, c, p),
         c \in Nat, p \in Nat
  PROVE  History(k, lab2, e2, rt2, out, rs)
<1>1. /\ f \in Handler /\ Len(hs) \in 1..Len(hs) /\ out \in Seq(Handler)
      /\ \A j \in 1..Len(out) : j \in 1..Len(hs) /\ out[j] = hs[j] /\ j # Len(hs)
  BY OuterFacts
<1>2. /\ x \in Record /\ e2 = Append(es, x)
      /\ x.node = f.node /\ x.args = f.args /\ x.epoch = f.epoch /\ ~x.done
  BY DEF Returned
<1>3. /\ Len(e2) = Len(es) + 1 /\ Len(es) \in Nat /\ e2[Len(es) + 1] = x
      /\ \A e \in 1..Len(es) : e2[e] = es[e]
  BY <1>2, Appended
<1>4. \A e \in 1..Len(e2) : e \in 1..Len(es) \/ e = Len(es) + 1
  BY <1>3
<1>5. f.node \in Node /\ f.args \in Tuples /\ f.epoch \in Nat /\ "cache" \in Tables /\ "pending" \in Tables
  BY <1>1 DEF Handler, Tables
<1>6. Once(es) /\ Fresh(es, hs) /\ Alone(hs) /\ RootsKnown(hs, rt, rs) /\ AllFound(h, lab, es, rt, rs) /\ Epochs(es, hs, rs)
  BY DEF History
<1>7. ASSUME NEW e \in 1..Len(es), es[e].node = f.node, es[e].args = f.args PROVE es[e].epoch # f.epoch
  BY <1>1, <1>6, <1>7 DEF Fresh
<1>8. Once(e2)
  <2>1. ASSUME NEW e \in 1..Len(e2), NEW i \in 1..Len(e2), e # i, e2[e].node = e2[i].node,
               e2[e].args = e2[i].args, e2[e].epoch = e2[i].epoch
        PROVE  FALSE
    <3>1. CASE e \in 1..Len(es) /\ i \in 1..Len(es)
      BY <1>3, <1>6, <2>1, <3>1 DEF Once
    <3>2. CASE e \in 1..Len(es) /\ i = Len(es) + 1
      BY <1>2, <1>3, <1>7, <2>1, <3>2
    <3>3. CASE e = Len(es) + 1 /\ i \in 1..Len(es)
      BY <1>2, <1>3, <1>7, <2>1, <3>3
    <3>. QED BY <1>4, <2>1, <3>1, <3>2, <3>3
  <2>. QED BY <2>1 DEF Once
<1>9. ASSUME NEW j \in 1..Len(out) PROVE out[j].node # f.node
  BY <1>1, <1>6 DEF Alone
<1>10. Fresh(e2, out)
  <2>1. ASSUME NEW j \in 1..Len(out), NEW e \in 1..Len(e2), e2[e].node = out[j].node, e2[e].args = out[j].args
        PROVE  e2[e].epoch # out[j].epoch
    <3>1. CASE e \in 1..Len(es)
      BY <1>1, <1>3, <1>6, <2>1, <3>1, ZenonT(60) DEF Fresh
    <3>2. CASE e = Len(es) + 1
      BY <1>2, <1>3, <1>9, <2>1, <3>2
    <3>. QED BY <1>4, <3>1, <3>2
  <2>. QED BY <2>1 DEF Fresh
<1>11. Alone(out)
  BY <1>1, <1>6 DEF Alone
<1>12. /\ f.epoch # rs => rt2 = rt
       /\ f.epoch = rs =>
            /\ rt2["cache"][f.node] = IF f.roots["cache"] = Nil THEN c ELSE rt["cache"][f.node]
            /\ rt2["pending"][f.node] = IF f.roots["pending"] = Nil THEN p ELSE rt["pending"][f.node]
            /\ \A w \in Tables, m \in Node : m # f.node => rt2[w][m] = rt[w][m]
  <2>1. PICK n, yes, no : n = f.node /\ (yes <=> f.roots["cache"] = Nil) /\ (no <=> f.roots["pending"] = Nil)
                          /\ yes \in BOOLEAN /\ no \in BOOLEAN
    BY Zenon
  <2>2. f.epoch = rs => rt2 = RootsSet(rt, n, yes, c, no, p)
    <3>1. f.epoch = rs =>
            rt2 = [rt EXCEPT !["cache"][f.node] = IF f.roots["cache"] = Nil THEN c ELSE @,
                             !["pending"][f.node] = IF f.roots["pending"] = Nil THEN p ELSE @]
      BY DEF Returned
    <3>. QED BY <2>1, <3>1 DEF RootsSet
  <2>3. yes \in BOOLEAN /\ no \in BOOLEAN /\ n \in Node
    BY <1>5, <2>1
  <2>4. f.epoch = rs =>
          /\ rt2["cache"][n] = IF yes THEN c ELSE rt["cache"][n]
          /\ rt2["pending"][n] = IF no THEN p ELSE rt["pending"][n]
          /\ \A w \in Tables, m \in Node : m # n => rt2[w][m] = rt[w][m]
    <3>1. SUFFICES ASSUME f.epoch = rs
                   PROVE  /\ rt2["cache"][n] = IF yes THEN c ELSE rt["cache"][n]
                          /\ rt2["pending"][n] = IF no THEN p ELSE rt["pending"][n]
                          /\ \A w \in Tables, m \in Node : m # n => rt2[w][m] = rt[w][m]
      OBVIOUS
    <3>2. rt2 = RootsSet(rt, n, yes, c, no, p)
      BY <2>2, <3>1
    <3>3. RootsAre(rt, n, yes, c, no, p, rt2)
      BY <2>3, <3>2, RootsSetAre
    <3>. QED BY <3>3 DEF RootsAre
  <2>5. f.epoch # rs => rt2 = rt
    BY DEF Returned
  <2>. QED BY <2>1, <2>4, <2>5
<1>13. RootsKnown(out, rt2, rs)
  <2>1. ASSUME NEW j \in 1..Len(out), NEW w \in Tables, out[j].epoch = rs
        PROVE  out[j].roots[w] = rt2[w][out[j].node]
    <3>1. out[j].node \in Node
      <4>1. out[j] \in Handler
        BY <1>1
      <4>. QED BY <4>1 DEF Handler
    <3>2. out[j].roots[w] = rt[w][out[j].node]
      BY <1>1, <1>6, <2>1, ZenonT(60) DEF RootsKnown
    <3>3. rt2[w][out[j].node] = rt[w][out[j].node]
      BY <1>9, <1>12, <3>1
    <3>. QED BY <3>2, <3>3
  <2>. QED BY <2>1 DEF RootsKnown
<1>14. Epochs(e2, out, rs)
  <2>1. \A e \in 1..Len(e2) : e2[e].epoch <= rs
    <3>1. x.epoch <= rs
      BY <1>1, <1>2, <1>6 DEF Epochs
    <3>. QED BY <1>3, <1>4, <1>6, <3>1 DEF Epochs
  <2>. QED BY <1>1, <1>6, <2>1 DEF Epochs
<1>15. f.epoch = rs => f.roots["cache"] = rt["cache"][f.node] /\ f.roots["pending"] = rt["pending"][f.node]
  BY <1>1, <1>5, <1>6 DEF RootsKnown
<1>16. /\ lab2[x.cacheParent].top = c /\ lab2[x.pendingParent].top = p
       /\ k[x.pendingParent].kids[Slot(f.args)] = x.obj
       /\ f.roots["cache"] # Nil => c = f.roots["cache"]
       /\ f.roots["pending"] # Nil => p = f.roots["pending"]
       /\ \A o \in 1..Len(h) : lab2[o] = lab[o]
       /\ \A o \in 1..Len(h), a \in Arg :
            h[o].kids[a] # Nil /\ ~(o = x.pendingParent /\ a = Slot(f.args)) => k[o].kids[a] = h[o].kids[a]
  BY DEF Returned
<1>17. x.epoch = rs => Found(k, lab2, x, rt2)
  BY <1>2, <1>12, <1>15, <1>16 DEF Found
<1>18. EntriesOK(k, lab2, e2) /\ EntriesOK(h, lab, es) /\ Tree(h, lab)
  BY DEF FullOK
<1>19. ASSUME NEW e \in 1..Len(es), es[e].epoch = rs PROVE Found(k, lab2, es[e], rt2)
  <2>1. PICK y, a : y = es[e] /\ a = Slot(y.args)
    BY Zenon
  <2>2. y \in Record
    BY <2>1
  <2>3. y.args \in Tuples /\ y.node \in Node /\ x.args \in Tuples
    BY <1>2, <2>2 DEF Record
  <2>4. e \in 1..Len(e2) /\ e2[e] = y
    BY <1>3, <2>1
  <2>5. EntryOK(k, lab2, y) /\ EntryOK(h, lab, y) /\ EntryOK(k, lab2, x)
    <3>1. Len(es) + 1 \in 1..Len(e2)
      BY <1>3
    <3>. QED BY <1>3, <1>18, <2>1, <2>4, <3>1 DEF EntriesOK
  <2>6. Found(h, lab, y, rt)
    BY <1>6, <1>19, <2>1 DEF AllFound
  <2>7. y.cacheParent \in 1..Len(h) /\ y.pendingParent \in 1..Len(h) /\ y.obj # Nil /\ y.buf # Nil
    <3>1. y.obj \in 1..Len(h) /\ y.buf \in 1..Len(h)
      BY <2>5 DEF EntryOK
    <3>2. IsParent(h, lab, y.cacheParent, "cache", y) /\ IsParent(h, lab, y.pendingParent, "pending", y)
      BY <2>5 DEF EntryOK
    <3>3. y.cacheParent \in 1..Len(h) /\ y.pendingParent \in 1..Len(h)
      BY <3>2 DEF IsParent
    <3>. QED BY <3>1, <3>3 DEF Nil
  <2>8. lab2[y.cacheParent].top = lab[y.cacheParent].top /\ lab2[y.pendingParent].top = lab[y.pendingParent].top
    BY <1>16, <2>7
  <2>9. rt["cache"][y.node] # Nil /\ rt["pending"][y.node] # Nil
    <3>1. DirOK(h, lab, y.cacheParent) /\ DirOK(h, lab, y.pendingParent)
      BY <1>18, <2>5 DEF EntryOK, IsParent, Tree
    <3>2. lab[y.cacheParent].top # Nil /\ lab[y.pendingParent].top # Nil
      BY <3>1, SMTT(60) DEF DirOK, Nil
    <3>. QED BY <2>6, <3>2 DEF Found
  <2>10. rt2["cache"][y.node] = rt["cache"][y.node] /\ rt2["pending"][y.node] = rt["pending"][y.node]
    <3>1. CASE y.node = f.node /\ f.epoch = rs
      BY <1>12, <1>15, <2>9, <3>1
    <3>2. CASE ~(y.node = f.node /\ f.epoch = rs)
      BY <1>5, <1>12, <2>3, <3>2
    <3>. QED BY <3>1, <3>2
  <2>11. a \in Arg
    <3>1. PICK args : args = y.args
      OBVIOUS
    <3>2. args \in Seq(Arg) /\ Len(args) # 0
      BY <2>3, <3>1, DepthFacts
    <3>. QED BY <2>1, <3>1, <3>2, LevelsFacts
  <2>12. y.done => k[y.cacheParent].kids[a] = y.buf
    <3>1. y.cacheParent # x.pendingParent
      BY <2>5 DEF EntryOK, IsParent
    <3>2. y.done => h[y.cacheParent].kids[a] = y.buf
      BY <2>1, <2>6 DEF Found
    <3>. QED BY <1>16, <2>7, <2>11, <3>1, <3>2
  <2>13. ~y.done => k[y.pendingParent].kids[a] = y.obj
    <3>1. ~(y.pendingParent = x.pendingParent /\ a = Slot(f.args))
      <4>1. SUFFICES ASSUME y.pendingParent = x.pendingParent, a = Slot(f.args) PROVE FALSE
        OBVIOUS
      <4>2. PICK o : o = x.pendingParent
        OBVIOUS
      <4>3. IsParent(k, lab2, o, "pending", y) /\ IsParent(k, lab2, o, "pending", x)
        BY <2>5, <4>1, <4>2 DEF EntryOK
      <4>4. Slot(y.args) = Slot(x.args)
        BY <1>2, <2>1, <4>1
      <4>5. y.node = x.node /\ y.epoch = x.epoch /\ y.args = x.args
        BY <2>3, <4>3, <4>4, SameKey
      <4>. QED BY <1>2, <1>7, <2>1, <4>5
    <3>2. ~y.done => h[y.pendingParent].kids[a] = y.obj
      BY <2>1, <2>6 DEF Found
    <3>. QED BY <1>16, <2>7, <2>11, <3>1, <3>2
  <2>14. Found(k, lab2, y, rt2)
    BY <2>1, <2>6, <2>8, <2>10, <2>12, <2>13 DEF Found
  <2>. QED BY <2>1, <2>14
<1>20. AllFound(k, lab2, e2, rt2, rs)
  BY <1>3, <1>4, <1>17, <1>19, Zenon DEF AllFound
<1>. QED BY <1>8, <1>10, <1>11, <1>13, <1>14, <1>20 DEF History

Told == mode = "full" => \E lab : Full(lab) /\ Hist(lab)

LEMMA ToldStep ==
  ASSUME Uniform, ~SelfCalls, Types, Told, [Next]_vars
  PROVE  Told'
<1>. SUFFICES ASSUME mode' = "full" PROVE \E lab : Full(lab)' /\ Hist(lab)'
  BY DEF Told
<1>1. mode' = mode
  BY Zenon DEF Next, vars, CallHit, CallShared, CallMiss, CallUncached, Cached, FinishFull, FinishLast,
         HandlerReturnsFull, HandlerReturnsLast, HandlerRaises, Reset
<1>2. mode = "full"
  BY <1>1
<1>3. PICK lab : Full(lab) /\ Hist(lab)
  BY <1>2 DEF Told
<1>4. ASSUME Quiet PROVE Full(lab)' /\ Hist(lab)'
  BY <1>3, <1>4 DEF Full, Hist, Quiet
<1>5. CASE \E n \in Node, args \in Tuples :
             CallHit(n, args) \/ CallShared(n, args) \/ CallUncached(n, args) \/ Cached(n, args)
  <2>1. Quiet
    BY <1>5 DEF CallHit, CallShared, CallUncached, Cached, Quiet
  <2>. QED BY <1>4, <2>1
<1>6. ASSUME NEW n \in Node, NEW args \in Tuples, CallMiss(n, args)
      PROVE  Full(lab)' /\ Hist(lab)'
  BY <1>2, <1>3, <1>6, CallMissFull, HistoryCallMiss
<1>7. CASE HandlerReturnsFull
  <2>1. PICK f, out, h, es, rt, hs, rs : /\ f = Running /\ out = Outer /\ h = heap /\ es = entries
                                         /\ rt = root /\ hs = handlers /\ rs = resets
    BY Zenon
  <2>2. /\ resets' = resets /\ handlers' = Outer
        /\ \E lab2, x, c, p :
              /\ FullOK(heap', lab2, entries', root', handlers', resets')
              /\ Returned(heap, lab, heap', lab2, entries, entries', root, root', resets, f, x, c, p)
    BY <1>3, <1>7, <2>1, ReturnsFull
  <2>3. PICK k, e2, rt2 : k = heap' /\ e2 = entries' /\ rt2 = root'
    BY Zenon
  <2>4. PICK lab2, x, c, p : FullOK(k, lab2, e2, rt2, out, rs) /\ Returned(h, lab, k, lab2, es, e2, rt, rt2, rs, f, x, c, p)
    BY <2>1, <2>2, <2>3
  <2>5. /\ es \in Seq(Record) /\ hs \in Seq(Handler) /\ hs # <<>> /\ rs \in Nat
        /\ rt \in [Tables -> [Node -> Nat]]
        /\ f = hs[Len(hs)] /\ out = SubSeq(hs, 1, Len(hs) - 1)
    BY <1>7, <2>1, Zenon DEF Types, HandlerReturnsFull, Running, Outer
  <2>6. c \in Nat /\ p \in Nat
    <3>1. /\ lab2[x.cacheParent].top = c /\ lab2[x.pendingParent].top = p
          /\ x \in Record /\ e2 = Append(es, x)
      BY <2>4 DEF Returned
    <3>2. Len(e2) = Len(es) + 1 /\ Len(es) \in Nat /\ e2[Len(es) + 1] = x
      BY <2>5, <3>1, Appended
    <3>3. Len(es) + 1 \in 1..Len(e2)
      BY <3>2
    <3>4. EntryOK(k, lab2, x) /\ Tree(k, lab2)
      BY <2>4, <3>2, <3>3 DEF FullOK, EntriesOK
    <3>5. DirOK(k, lab2, x.cacheParent) /\ DirOK(k, lab2, x.pendingParent)
      BY <3>4 DEF EntryOK, IsParent, Tree
    <3>6. c \in 1..Len(k) /\ p \in 1..Len(k)
      BY <3>1, <3>5 DEF DirOK
    <3>. QED BY <3>6
  <2>7. FullOK(h, lab, es, rt, hs, rs) /\ History(h, lab, es, rt, hs, rs)
    BY <1>3, <2>1 DEF Full, Hist
  <2>8. History(k, lab2, e2, rt2, out, rs)
    BY <2>4, <2>5, <2>6, <2>7, HistoryReturned
  <2>. QED BY <2>1, <2>2, <2>3, <2>4, <2>8 DEF Full, Hist
<1>8. ~HandlerReturnsLast
  BY <1>2 DEF HandlerReturnsLast
<1>9. CASE HandlerRaises
  <2>1. handlers' = <<>> /\ UNCHANGED <<heap, entries, root, resets>>
    BY <1>9 DEF HandlerRaises
  <2>2. PICK out : out = handlers'
    OBVIOUS
  <2>3. Len(out) = 0
    BY <2>1, <2>2
  <2>4. FullOK(heap, lab, entries, root, out, resets)
    BY <1>3, <2>3 DEF Full, FullOK, HandlersOK
  <2>5. History(heap, lab, entries, root, out, resets)
    BY <1>3, <2>3 DEF Hist, History, Fresh, Alone, RootsKnown, Epochs
  <2>. QED BY <2>1, <2>2, <2>4, <2>5 DEF Full, Hist
<1>10. ASSUME NEW e \in 1..Len(entries), FinishFull(e) PROVE Full(lab)' /\ Hist(lab)'
  <2>1. PICK h, es, rt, hs, rs : h = heap /\ es = entries /\ rt = root /\ hs = handlers /\ rs = resets
    BY Zenon
  <2>2. PICK k, e2 : k = heap' /\ e2 = entries'
    BY Zenon
  <2>3. /\ Full(lab)' /\ Finished(es, e, e2) /\ e \in 1..Len(es)
        /\ k = Swapped(h, es[e].cacheParent, es[e].pendingParent, Slot(es[e].args), es[e].buf)
    BY <1>3, <1>10, <2>1, <2>2, FinishesFull
  <2>4. FullOK(h, lab, es, rt, hs, rs) /\ es \in Seq(Record) /\ History(h, lab, es, rt, hs, rs)
    BY <1>3, <2>1 DEF Full, Hist, Types
  <2>5. AllFound(k, lab, e2, rt, rs)
    BY <2>3, <2>4, FoundFinished DEF History
  <2>6. Len(e2) = Len(es) /\ \A i \in 1..Len(es) : /\ e2[i].node = es[i].node /\ e2[i].args = es[i].args
                                                   /\ e2[i].epoch = es[i].epoch
    BY <2>3 DEF Finished
  <2>7. Once(e2) /\ Fresh(e2, hs) /\ Epochs(e2, hs, rs)
    BY <2>4, <2>6, SMTT(60) DEF History, Once, Fresh, Epochs
  <2>8. History(k, lab, e2, rt, hs, rs)
    BY <2>4, <2>5, <2>7 DEF History
  <2>9. UNCHANGED <<root, handlers, resets>>
    BY <1>10 DEF FinishFull
  <2>. QED BY <2>1, <2>2, <2>3, <2>8, <2>9 DEF Hist
<1>11. \A e \in 1..Len(entries) : ~FinishLast(e)
  BY <1>2 DEF FinishLast
<1>12. CASE Reset
  <2>1. /\ resets' = resets + 1 /\ UNCHANGED <<heap, entries, handlers>> /\ resets \in Nat
        /\ root' = [w \in Tables |-> [n \in Node |-> Nil]]
    BY <1>12 DEF Reset, Types
  <2>2. PICK rt2, rs2 : rt2 = root' /\ rs2 = resets + 1
    BY Zenon
  <2>3. \A w \in Tables, n \in Node : rt2[w][n] = Nil
    BY <2>1, <2>2
  <2>4. FullOK(heap, lab, entries, rt2, handlers, rs2)
    BY <1>3, <2>3 DEF Full, FullOK, RootsOK
  <2>5. Epochs(entries, handlers, resets)
    BY <1>3 DEF Hist, History
  <2>6. \A e \in 1..Len(entries) : entries[e].epoch \in Nat /\ entries[e].epoch # rs2 /\ entries[e].epoch <= rs2
    <3>1. ASSUME NEW e \in 1..Len(entries) PROVE entries[e].epoch \in Nat
      <4>1. entries[e] \in Record
        BY DEF Types
      <4>. QED BY <4>1 DEF Record
    <3>. QED BY <2>1, <2>2, <2>5, <3>1 DEF Epochs
  <2>7. \A j \in 1..Len(handlers) : handlers[j].epoch # rs2 /\ handlers[j].epoch <= rs2
    <3>1. ASSUME NEW j \in 1..Len(handlers) PROVE handlers[j].epoch \in Nat
      <4>1. handlers[j] \in Handler
        BY DEF Types
      <4>. QED BY <4>1 DEF Handler
    <3>. QED BY <2>1, <2>2, <2>5, <3>1 DEF Epochs
  <2>8. History(heap, lab, entries, rt2, handlers, rs2)
    BY <1>3, <2>6, <2>7 DEF Hist, History, RootsKnown, AllFound, Epochs
  <2>. QED BY <2>1, <2>2, <2>4, <2>8 DEF Full, Hist
<1>13. CASE UNCHANGED vars
  <2>1. Quiet
    BY <1>13 DEF vars, Quiet
  <2>. QED BY <1>4, <2>1
<1>. QED BY <1>5, <1>6, <1>7, <1>8, <1>9, <1>10, <1>11, <1>12, <1>13 DEF Next

LEMMA ToldInit == ASSUME Init PROVE Told
<1>1. PICK lab : lab = <<>>
  OBVIOUS
<1>2. heap = <<>> /\ entries = <<>> /\ handlers = <<>>
  BY DEF Init
<1>3. Len(heap) = 0 /\ Len(entries) = 0 /\ Len(handlers) = 0 /\ heap \in Seq(Object)
  BY <1>2
<1>4. Tree(heap, lab)
  <2>1. HeapOK(heap)
    BY <1>3 DEF HeapOK
  <2>2. lab \in Seq(Labels) /\ Len(lab) = 0
    BY <1>1
  <2>. QED BY <1>3, <2>1, <2>2 DEF Tree
<1>5. \A w \in Tables, n \in Node : root[w][n] = Nil
  BY DEF Init
<1>6. Full(lab)
  BY <1>3, <1>4, <1>5 DEF Full, FullOK, RootsOK, HandlersOK, EntriesOK, SlotsOK
<1>7. Hist(lab)
  BY <1>3 DEF Hist, History, Once, Fresh, Alone, RootsKnown, AllFound, Epochs
<1>. QED BY <1>6, <1>7 DEF Told

(* Mode "full" retains the full argument history of a node: between two     *)
(* resets the handler runs at most once to its end for the same arguments,  *)
(* as long as no handler calls the phase on its own node.                   *)
THEOREM HistoryIsFull == Uniform /\ ~SelfCalls => (Spec => []FullHistory)
<1>. SUFFICES ASSUME Uniform, ~SelfCalls PROVE Spec => []FullHistory
  OBVIOUS
<1>. DEFINE IInv == Types /\ Kept /\ AnswersMatch /\ Told
<1>1. Init => IInv
  BY KeptInit, ToldInit
<1>2. IInv /\ [Next]_vars => IInv'
  BY KeptStep, ToldStep
<1>3. IInv => FullHistory
  BY DEF Told, Hist, History, Once, FullHistory
<1>. QED BY <1>1, <1>2, <1>3, PTL DEF Spec
=============================================================================
