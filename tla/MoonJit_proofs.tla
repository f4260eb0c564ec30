----------------------------- MODULE MoonJit_proofs -----------------------------
(***************************************************************************)
(* What holds of MoonJit for every set of specs, units and bounds.          *)
(***************************************************************************)
EXTENDS MoonJit, TLAPS, FiniteSetTheorems, SequenceTheorems, FunctionTheorems

Jobs == [pc : {"idle", "declare", "define", "uncached"}, unit : Seq(Spec), handles : Seq(Handle), at : Nat]

Types ==
  /\ nextHandle \in Handle
  /\ handleOf \in [Spec -> 0..MaxHandle]
  /\ ready \in SUBSET Spec
  /\ functions \in [Handle -> Spec \cup {NoSpec}]
  /\ defined \in SUBSET Code /\ relocated \in SUBSET Code /\ toFinalize \in Seq(Code)
  /\ hits \in 0..MaxCount /\ misses \in 0..MaxCount
  /\ job \in Jobs
  /\ leftover \in SUBSET Spec
  /\ DOMAIN links = Handle

(* Handles are given out once: a handle belongs to one record, or to a      *)
(* function compiled without one.                                           *)
HandlesUnique ==
  /\ \A s \in Spec : handleOf[s] < nextHandle
  /\ \A s, t \in Spec : handleOf[s] = handleOf[t] /\ handleOf[s] # 0 => s = t
  /\ \A h \in Handle : functions[h] # NoSpec => h < nextHandle
  /\ \A s \in Spec : handleOf[s] # 0 /\ functions[handleOf[s]] # NoSpec => functions[handleOf[s]] = s /\ s \in ready
  /\ \A s \in ready : handleOf[s] # 0 /\ functions[handleOf[s]] = s

(* Only records have an entry; a handle not given out has no code.          *)
CodeOwned ==
  \A c \in defined : /\ c[1] < nextHandle
                     /\ c[2] = "entry" => \E s \in Spec : handleOf[s] = c[1]

(* What has to be relocated before it runs is, or waits for it, or belongs  *)
(* to a unit that failed.                                                   *)
Waiting == relocated \cup ToSet(toFinalize)
Relocations ==
  /\ \A s \in ready : <<handleOf[s], "body">> \in relocated
  /\ \A s \in ready : s \notin leftover => <<handleOf[s], "packed">> \in relocated
  /\ \A s \in Spec : handleOf[s] # 0 /\ s \notin leftover => <<handleOf[s], "packed">> \in Waiting
  /\ \A h \in Handle : functions[h] # NoSpec /\ ~Cached(h) => <<h, "packed">> \in relocated

(* Direct calls of callable code lead somewhere.                            *)
LinksLead ==
  \A h \in Handle : functions[h] # NoSpec =>
    \A l \in links[h] : IF l[2] = 0 THEN l[1] \in Linker ELSE l[2] \in Handle /\ functions[l[2]] # NoSpec

(* How far the request in progress has come.                                *)
UnitHandles == {handleOf[s] : s \in ToSet(job.unit)}
Begun(k) ==
  LET h == handleOf[job.unit[k]]
  IN  job.unit[k] \notin ready =>
        /\ <<h, "body">> \in ToSet(toFinalize)
        /\ \A l \in links[h] : l[2] = 0 \/ l[2] \in UnitHandles

JobOK ==
  /\ \A s \in Spec : handleOf[s] # 0 /\ s \notin ready /\ s \notin leftover =>
       job.pc \in {"declare", "define"} /\ s \in ToSet(job.unit)
  /\ job.pc # "define" => active = {}
  /\ job.pc # "idle" => job.at >= 1
  /\ job.pc = "declare" => \A k \in DOMAIN job.unit : k < job.at => handleOf[job.unit[k]] # 0
  /\ job.pc = "define" =>
       /\ \A k \in DOMAIN job.unit : handleOf[job.unit[k]] # 0
       /\ active = {<<NameOf[s], handleOf[s]>> : s \in ToSet(job.unit)}
       /\ \A k \in DOMAIN job.unit : k < job.at => Begun(k)
  /\ job.pc = "uncached" =>
       /\ job.at \in {1, 2}
       /\ job.unit \in Seq(Spec) /\ Len(job.unit) = 1 /\ Len(job.handles) = 1
       /\ LET h == job.handles[1]
          IN  /\ h < nextHandle /\ functions[h] = NoSpec /\ \A s \in Spec : handleOf[s] # h
              /\ job.at = 2 => /\ <<h, "packed">> \in ToSet(toFinalize)
                               /\ \A l \in links[h] : l[2] = 0

IInv == Types /\ HandlesUnique /\ CodeOwned /\ Relocations /\ LinksLead /\ JobOK

-----------------------------------------------------------------------------
(* Sequences and the part of a unit an entry needs.                         *)

(* What Append adds to a sequence.                                          *)
LEMMA Appended ==
  ASSUME NEW S, NEW q \in Seq(S), NEW x \in S
  PROVE  /\ Append(q, x) \in Seq(S) /\ ToSet(Append(q, x)) = ToSet(q) \cup {x}
         /\ Len(Append(q, x)) = Len(q) + 1
<1>1. /\ Append(q, x) \in Seq(S) /\ Len(Append(q, x)) = Len(q) + 1
      /\ \A i \in 1..Len(q) : Append(q, x)[i] = q[i]
      /\ Append(q, x)[Len(q) + 1] = x
  BY AppendProperties
<1>2. DOMAIN q = 1..Len(q) /\ DOMAIN Append(q, x) = 1..Len(q) + 1 /\ Len(q) \in Nat
  BY <1>1, LenProperties
<1>3. ToSet(Append(q, x)) = ToSet(q) \cup {x}
  BY <1>1, <1>2 DEF ToSet
<1> QED
  BY <1>1, <1>3

(* What the concatenation with a pair adds.                                 *)
LEMMA PairAppended ==
  ASSUME NEW S, NEW q \in Seq(S), NEW x \in S, NEW y \in S
  PROVE  q \o <<x, y>> \in Seq(S) /\ ToSet(q \o <<x, y>>) = ToSet(q) \cup {x, y}
<1>1. /\ <<x, y>> \in Seq(S) /\ Len(<<x, y>>) = 2 /\ <<x, y>>[1] = x /\ <<x, y>>[2] = y
  OBVIOUS
<1>2. /\ q \o <<x, y>> \in Seq(S) /\ Len(q \o <<x, y>>) = Len(q) + 2
      /\ \A i \in 1..Len(q) + 2 : (q \o <<x, y>>)[i] = IF i <= Len(q) THEN q[i] ELSE <<x, y>>[i - Len(q)]
  BY <1>1, ConcatProperties
<1>3. DOMAIN q = 1..Len(q) /\ DOMAIN (q \o <<x, y>>) = 1..Len(q) + 2 /\ Len(q) \in Nat
  BY <1>2, LenProperties
<1>4. \A i \in 1..Len(q) : (q \o <<x, y>>)[i] = q[i]
  BY <1>2, <1>3
<1>5. (q \o <<x, y>>)[Len(q) + 1] = x /\ (q \o <<x, y>>)[Len(q) + 2] = y
  BY <1>1, <1>2, <1>3
<1>6. \A i \in 1..Len(q) + 2 : i \in 1..Len(q) \/ i = Len(q) + 1 \/ i = Len(q) + 2
  BY <1>3
<1>7. ToSet(q \o <<x, y>>) = ToSet(q) \cup {x, y}
  BY <1>3, <1>4, <1>5, <1>6 DEF ToSet
<1> QED
  BY <1>2, <1>7

LEMMA Elements ==
  ASSUME NEW S, NEW q \in Seq(S)
  PROVE  /\ ToSet(q) \subseteq S /\ DOMAIN q = 1..Len(q) /\ Len(q) \in Nat
         /\ \A k \in DOMAIN q : q[k] \in S /\ q[k] \in ToSet(q)
  BY ElementOfSeq, LenProperties DEF ToSet

LEMMA Single ==
  ASSUME NEW S, NEW x \in S
  PROVE  ToSet(<<x>>) = {x}
<1>1. <<x>> \in Seq(S) /\ Len(<<x>>) = 1 /\ <<x>>[1] = x
  OBVIOUS
<1>2. DOMAIN <<x>> = 1..1
  BY <1>1, LenProperties
<1> QED
  BY <1>1, <1>2 DEF ToSet

(* Taking some places of a unit in order gives a sequence of its specs:     *)
(* counting the chosen places up to each one numbers them without gaps.     *)
LEMMA OrderedIsSequence ==
  ASSUME NEW u \in Seq(Spec), NEW places \in SUBSET DOMAIN u
  PROVE  Ordered(u, places) \in Seq(Spec)
<1> DEFINE n == Cardinality(places)
           upto(i) == {j \in places : j <= i}
           rank == [i \in places |-> Cardinality(upto(i))]
<1>1. DOMAIN u = 1..Len(u) /\ Len(u) \in Nat /\ IsFiniteSet(1..Len(u))
  BY Elements, FS_Interval
<1>2. IsFiniteSet(places) /\ n \in Nat
  BY <1>1, FS_Subset, FS_CardinalityType
<1>3. ASSUME NEW i \in places
      PROVE  IsFiniteSet(upto(i)) /\ Cardinality(upto(i)) \in 1..n
  <2>1. IsFiniteSet(upto(i)) /\ Cardinality(upto(i)) <= n
    BY <1>2, FS_Subset
  <2>2. i \in upto(i)
    BY <1>1
  <2>3. Cardinality(upto(i)) \in Nat /\ Cardinality(upto(i)) # 0
    BY <2>1, <2>2, FS_CardinalityType, FS_EmptySet
  <2> QED
    BY <1>2, <2>1, <2>3
<1>4. rank \in [places -> 1..n]
  BY <1>3
<1>5. ASSUME NEW i \in places, NEW k \in places, rank[i] = rank[k], i <= k
      PROVE  i = k
  <2>1. upto(i) \in SUBSET upto(k)
    BY <1>1, <1>5
  <2>2. upto(i) = upto(k)
    <3>1. Cardinality(upto(k)) = Cardinality(upto(i))
      BY <1>5
    <3> HIDE DEF upto
    <3> QED
      BY <1>3, <2>1, <3>1, FS_Subset
  <2>3. k \in upto(i)
    BY <1>1, <2>2
  <2> QED
    BY <1>1, <1>5, <2>3
<1>6. rank \in Injection(places, 1..n)
  <2>1. ASSUME NEW i \in places, NEW k \in places, rank[i] = rank[k]
        PROVE  i = k
    <3>1. i \in Int /\ k \in Int
      BY <1>1
    <3>2. i <= k \/ k <= i
      BY <3>1
    <3> HIDE DEF rank
    <3> QED
      BY <1>5, <2>1, <3>2
  <2> HIDE DEF rank
  <2> QED
    BY <1>4, <2>1 DEF Injection, IsInjective
<1>7. IsFiniteSet(1..n) /\ Cardinality(1..n) = n
  BY <1>2, FS_Interval
<1>8. rank \in Surjection(places, 1..n)
  <2> HIDE DEF rank
  <2> QED
    BY <1>6, <1>7, FS_Injection
<1>9. \A k \in 1..n : \E i \in places : Cardinality(upto(i)) = k
  <2>1. \A k \in 1..n : \E i \in places : rank[i] = k
    <3> HIDE DEF rank
    <3> QED
      BY <1>8 DEF Surjection
  <2> QED
    BY <2>1
<1>10. ASSUME NEW k \in 1..n
       PROVE  u[CHOOSE i \in places : Cardinality({j \in places : j <= i}) = k] \in Spec
  <2>1. (CHOOSE i \in places : Cardinality({j \in places : j <= i}) = k) \in places
    BY <1>9
  <2> QED
    BY <2>1, Elements
<1>11. Ordered(u, places) \in [1..n -> Spec]
  BY <1>10 DEF Ordered
<1> QED
  BY <1>2, <1>11, SeqDef

LEMMA OptimizeIsUnit ==
  ASSUME NEW u \in Seq(Spec)
  PROVE  Optimize(u) \in Seq(Spec)
<1>1. DOMAIN u = 1..Len(u) /\ Len(u) \in Nat /\ \A i \in 1..Len(u) : u[i] \in Spec
  BY Elements
<1>2. Optimize(u) \in [1..Len(u) -> Spec]
  BY <1>1, JitAssumption DEF Optimize
<1> QED
  BY <1>1, <1>2, SeqDef

-----------------------------------------------------------------------------
(* The invariant: it holds at the start and every step preserves it.        *)

LEMMA InitIInv == Init => IInv
<1> SUFFICES ASSUME Init PROVE IInv
  OBVIOUS
<1>1. 1 \in Handle /\ 0 \in 0..MaxHandle /\ 0 \in 0..MaxCount
  BY JitAssumption DEF Handle
<1>2. /\ handleOf = [s \in Spec |-> 0] /\ functions = [h \in Handle |-> NoSpec] /\ links = [h \in Handle |-> {}]
      /\ nextHandle = 1 /\ ready = {} /\ defined = {} /\ relocated = {} /\ toFinalize = <<>>
      /\ active = {} /\ leftover = {} /\ hits = 0 /\ misses = 0 /\ job = Idle
  BY DEF Init
<1>3. Types
  <2>1. Idle \in Jobs
    BY DEF Idle, Jobs
  <2> QED
    BY <1>1, <1>2, <2>1 DEF Types
<1>4. HandlesUnique
  <2>1. \A s \in Spec : handleOf[s] = 0
    BY <1>2
  <2> QED
    BY <1>2, <2>1 DEF HandlesUnique
<1>5. CodeOwned /\ Relocations /\ LinksLead
  BY <1>2 DEF CodeOwned, Relocations, LinksLead
<1>6. JobOK
  BY <1>2 DEF JobOK, Idle
<1> QED
  BY <1>3, <1>4, <1>5, <1>6 DEF IInv

(* A request that touches neither the cache nor the code only has to leave  *)
(* the request in progress in order.                                        *)
LEMMA RequestFrame ==
  ASSUME IInv, UNCHANGED <<cache, ready, functions, code, leftover>>,
         hits' \in 0..MaxCount, job' \in Jobs, JobOK'
  PROVE  IInv'
<1>1. Types'
  BY DEF IInv, Types, cache, code
<1>2. HandlesUnique' /\ CodeOwned'
  BY DEF IInv, HandlesUnique, CodeOwned, cache, code
<1>3. Relocations' /\ LinksLead'
  BY DEF IInv, Relocations, Waiting, LinksLead, Cached, cache, code
<1> QED
  BY <1>1, <1>2, <1>3 DEF IInv

(* A unit begins with none of its records made.                             *)
LEMMA UnitStarts ==
  ASSUME IInv, job.pc = "idle", NEW u \in Seq(Spec), StartUnit(u) \/ UNCHANGED job,
         UNCHANGED <<cache, ready, functions, code, hits, active, leftover>>
  PROVE  IInv'
<1>1. CASE UNCHANGED job
  <2>1. JobOK'
    BY <1>1 DEF IInv, JobOK, Begun, UnitHandles, cache, code
  <2>2. hits' \in 0..MaxCount /\ job' \in Jobs
    BY <1>1 DEF IInv, Types
  <2> QED
    BY <2>1, <2>2, RequestFrame
<1>2. CASE job' = [pc |-> "declare", unit |-> u, handles |-> <<>>, at |-> 1]
  <2>1. job' \in Jobs
    BY <1>2, EmptySeq DEF Jobs
  <2>2. DOMAIN u = 1..Len(u) /\ Len(u) \in Nat
    BY Elements
  <2>3. \A s \in Spec : ~(handleOf'[s] # 0 /\ s \notin ready' /\ s \notin leftover')
    BY DEF IInv, JobOK, cache
  <2>4. active' = {}
    BY DEF IInv, JobOK
  <2>5. JobOK'
    BY <1>2, <2>2, <2>3, <2>4 DEF JobOK
  <2>6. hits' \in 0..MaxCount
    BY DEF IInv, Types
  <2> QED
    BY <2>1, <2>5, <2>6, RequestFrame
<1> QED
  BY <1>1, <1>2 DEF StartUnit

(* An error that ends a request: what it leaves without a body is set down. *)
LEMMA FailedJob ==
  ASSUME IInv, NEW o, Fail(o), UNCHANGED <<handleOf, nextHandle, ready, functions>>
  PROVE  /\ job' \in Jobs /\ leftover' \in SUBSET Spec /\ leftover \subseteq leftover' /\ JobOK'
         /\ \A s \in Spec : handleOf[s] # 0 /\ s \notin ready => s \in leftover'
<1>1. job' = Idle /\ active' = {}
      /\ leftover' = leftover \cup {s \in ToSet(job.unit) : handleOf[s] # 0 /\ s \notin ready}
  BY DEF Fail
<1>2. Idle \in Jobs
  BY EmptySeq DEF Idle, Jobs
<1>3. job.unit \in Seq(Spec) /\ ToSet(job.unit) \subseteq Spec
  BY Elements DEF IInv, Types, Jobs
<1>4. \A s \in Spec : handleOf[s] # 0 /\ s \notin ready => s \in leftover'
  BY <1>1 DEF IInv, JobOK
<1>5. JobOK'
  BY <1>1, <1>4 DEF JobOK, Idle
<1> QED
  BY <1>1, <1>2, <1>3, <1>4, <1>5 DEF IInv, Types

(* A request that fails before it has changed anything else.               *)
LEMMA FailFrame ==
  ASSUME IInv, NEW o, Fail(o), UNCHANGED <<cache, ready, functions, code, hits>>
  PROVE  IInv'
<1>1. UNCHANGED <<handleOf, nextHandle, misses, ready, functions, defined, toFinalize, relocated, links, hits>>
  BY DEF cache, code
<1>2. job' \in Jobs /\ leftover' \in SUBSET Spec /\ leftover \subseteq leftover' /\ JobOK'
  BY <1>1, FailedJob
<1>3. Types'
  BY <1>1, <1>2 DEF IInv, Types
<1>4. HandlesUnique' /\ CodeOwned' /\ LinksLead'
  BY <1>1 DEF IInv, HandlesUnique, CodeOwned, LinksLead
<1>5. Relocations'
  BY <1>1, <1>2 DEF IInv, Relocations, Waiting, Cached
<1> QED
  BY <1>2, <1>3, <1>4, <1>5 DEF IInv

(* Two declarations of one name that differ.                                *)
Clash(s, us) == \E c \in Outside(s, us), d \in imports' : c[1] = d[1] /\ c[2] # d[2]

(* What the lowering of a function may answer, and why.                     *)
LEMMA LowerExplained ==
  ASSUME NEW s, NEW us, NEW result, Lower(s, us, result)
  PROVE  /\ result = "bad body" => s \in Bad \/ Miscalls(s, us)
         /\ result = "declared otherwise" => Clash(s, us)
<1>1. PICK done \in SUBSET Outside(s, us) :
        /\ Agree(imports \cup done) /\ imports' = imports \cup done
        /\ \/ result = "ok" /\ s \notin Bad /\ done = Outside(s, us)
           \/ result = "bad body" /\ (s \in Bad \/ Miscalls(s, us))
           \/ /\ result = "declared otherwise"
              /\ \E c \in Outside(s, us) : ~Agree(imports \cup done \cup {c})
  BY DEF Lower
<1>2. ASSUME result = "declared otherwise" PROVE Clash(s, us)
  <2>1. PICK c \in Outside(s, us) : ~Agree(imports \cup done \cup {c})
    BY <1>1, <1>2
  <2>2. PICK a \in imports \cup done \cup {c}, d \in imports \cup done \cup {c} : a[1] = d[1] /\ a[2] # d[2]
    BY <2>1 DEF Agree
  <2>3. \/ a \in imports' /\ d \in imports'
        \/ a = c /\ d \in imports'
        \/ d = c /\ a \in imports'
        \/ a = c /\ d = c
    BY <1>1, <2>2
  <2>4. ~(a \in imports' /\ d \in imports')
    BY <1>1, <2>2 DEF Agree
  <2> QED
    BY <2>1, <2>2, <2>3, <2>4 DEF Clash
<1> QED
  BY <1>1, <1>2

(* A function that is refused stops the request; one that is not is there.  *)
Refuses(s, h, part) ==
  \E o \in {"bad body", "declared otherwise", "defined already"} :
    /\ Fail(o) /\ UNCHANGED code
    /\ o = "bad body" => s \in Bad \/ Miscalls(s, Named)
    /\ o = "declared otherwise" => Clash(s, Named)
    /\ o = "defined already" => <<h, part>> \in defined
Makes(s, h, part) ==
  /\ defined' = defined \cup {<<h, part>>}
  /\ toFinalize' = Append(toFinalize, <<h, part>>)
  /\ links' = [links EXCEPT ![h] = {Link(n) : n \in Calls[s]}]
  /\ job' = [job EXCEPT !.at = @ + 1]
  /\ UNCHANGED <<relocated, active, answer, leftover>>

LEMMA DefineCases ==
  ASSUME NEW s, NEW h, NEW part, Define(s, h, part)
  PROVE  Refuses(s, h, part) \/ Makes(s, h, part)
<1>1. PICK result \in {"ok", "bad body", "declared otherwise"} :
        /\ Lower(s, Named, result)
        /\ IF result # "ok" \/ <<h, part>> \in defined
           THEN /\ Fail(IF result # "ok" THEN result ELSE "defined already")
                /\ UNCHANGED code
           ELSE Makes(s, h, part)
  BY DEF Define, Makes
<1>2. CASE result # "ok"
  <2>1. Fail(result) /\ UNCHANGED code
    BY <1>1, <1>2
  <2>2. /\ result = "bad body" => s \in Bad \/ Miscalls(s, Named)
        /\ result = "declared otherwise" => Clash(s, Named)
    BY <1>1, LowerExplained
  <2> QED
    BY <1>2, <2>1, <2>2 DEF Refuses
<1>3. CASE result = "ok" /\ <<h, part>> \in defined
  <2>1. Fail("defined already") /\ UNCHANGED code
    BY <1>1, <1>3
  <2> QED
    BY <1>3, <2>1 DEF Refuses
<1>4. CASE result = "ok" /\ <<h, part>> \notin defined
  BY <1>1, <1>4
<1> QED
  BY <1>2, <1>3, <1>4

(* A listing declares names and answers; nothing else changes.              *)
Listed(s) ==
  /\ job.pc = "idle" /\ UNCHANGED <<cache, ready, functions, code, hits, active, job, leftover>>
  /\ \E o \in {"ok", "bad body", "declared otherwise"} :
       /\ Answer(o, <<s>>, <<>>)
       /\ o = "bad body" => s \in Bad \/ Miscalls(s, {s})
       /\ o = "declared otherwise" => Clash(s, {s})

LEMMA DumpListed ==
  ASSUME NEW s \in Spec, DumpDisasm(s) \/ DumpDisasmUnoptimized(s)
  PROVE  \E t \in Spec : Listed(t)
<1>1. PICK t \in Spec : Dump(t)
  BY JitAssumption DEF DumpDisasm, DumpDisasmUnoptimized
<1>2. PICK o \in {"ok", "bad body", "declared otherwise"} : Lower(t, {t}, o) /\ Answer(o, <<t>>, <<>>)
  BY <1>1 DEF Dump
<1>3. /\ o = "bad body" => t \in Bad \/ Miscalls(t, {t})
      /\ o = "declared otherwise" => Clash(t, {t})
  BY <1>2, LowerExplained
<1>4. job.pc = "idle" /\ UNCHANGED <<cache, ready, functions, code, hits, active, job, leftover>>
  BY <1>1 DEF Dump
<1> QED
  BY <1>2, <1>3, <1>4 DEF Listed

(* Requests of the host.                                                    *)
LEMMA RequestsKeep ==
  ASSUME IInv, Request
  PROVE  IInv'
<1>1. ASSUME NEW s \in Spec PROVE <<s>> \in Seq(Spec) /\ Optimize(<<s>>) \in Seq(Spec)
  <2>1. <<s>> \in Seq(Spec)
    OBVIOUS
  <2> QED
    BY <2>1, OptimizeIsUnit
<1>2. ASSUME NEW s \in Spec, CompileFunction(s) PROVE IInv'
  <2>1. job.pc = "idle" /\ StartUnit(Optimize(<<s>>))
        /\ UNCHANGED <<cache, ready, functions, code, hits, active, leftover>>
    BY <1>2 DEF CompileFunction
  <2> QED
    BY <1>1, <2>1, UnitStarts
<1>3. ASSUME NEW u \in Seq(Spec), CompileModule(u) PROVE IInv'
  <2>1. job.pc = "idle" /\ (StartUnit(Optimize(u)) \/ UNCHANGED job)
        /\ UNCHANGED <<cache, ready, functions, code, hits, active, leftover>>
    BY <1>3 DEF CompileModule
  <2>2. Optimize(u) \in Seq(Spec)
    BY OptimizeIsUnit
  <2> QED
    BY <2>1, <2>2, UnitStarts
<1>4. ASSUME NEW u \in Seq(Spec), NEW n, CompileEntry(u, n) PROVE IInv'
  <2>1. job.pc = "idle" /\ (StartUnit(Optimize(EntryClosure(u, n))) \/ UNCHANGED job)
        /\ UNCHANGED <<cache, ready, functions, code, hits, active, leftover>>
    BY <1>4 DEF CompileEntry
  <2>2. EntryClosure(u, n) \in Seq(Spec)
    BY OrderedIsSequence DEF EntryClosure
  <2>3. Optimize(EntryClosure(u, n)) \in Seq(Spec)
    BY <2>2, OptimizeIsUnit
  <2> QED
    BY <2>1, <2>3, UnitStarts
<1>5. ASSUME NEW s \in Spec, CompileUnoptimized(s) PROVE IInv'
  <2>1. CASE nextHandle = MaxHandle
    <3>1. job.pc = "idle" /\ UNCHANGED job
          /\ UNCHANGED <<cache, ready, functions, code, hits, active, leftover>>
      BY <1>5, <2>1 DEF CompileUnoptimized, cache
    <3> QED
      BY <1>1, <3>1, UnitStarts
  <2>2. CASE nextHandle # MaxHandle
    <3> DEFINE j == [pc |-> "uncached", unit |-> <<s>>, handles |-> <<nextHandle>>, at |-> 1]
    <3>1. /\ job.pc = "idle" /\ nextHandle' = nextHandle + 1 /\ job' = j
          /\ UNCHANGED <<handleOf, misses, ready, functions, code, hits, active, leftover>>
      BY <1>5, <2>2 DEF CompileUnoptimized
    <3>2. nextHandle \in Handle /\ nextHandle' \in Handle
      BY <2>2, <3>1, JitAssumption DEF IInv, Types, Handle
    <3>3. j \in Jobs
      BY <1>1, <3>2 DEF Jobs
    <3>4. Types'
      BY <3>1, <3>2, <3>3 DEF IInv, Types, code
    <3>5. HandlesUnique'
      BY <3>1, <3>2 DEF IInv, Types, HandlesUnique, Handle
    <3>6. CodeOwned'
      BY <3>1, <3>2 DEF IInv, Types, CodeOwned, Handle, Code, code
    <3>7. Relocations' /\ LinksLead'
      BY <3>1 DEF IInv, Relocations, Waiting, LinksLead, Cached, code
    <3>8. \A t \in Spec : handleOf[t] # nextHandle /\ handleOf[t] \in Int
      BY <3>2 DEF IInv, Types, HandlesUnique, Handle
    <3>9. functions[nextHandle] = NoSpec
      BY <3>2 DEF IInv, HandlesUnique, Handle
    <3>10. Len(<<s>>) = 1 /\ Len(<<nextHandle>>) = 1 /\ <<nextHandle>>[1] = nextHandle
      OBVIOUS
    <3>11. \A t \in Spec : ~(handleOf'[t] # 0 /\ t \notin ready' /\ t \notin leftover')
      BY <3>1 DEF IInv, JobOK
    <3>12. active' = {} /\ nextHandle < nextHandle'
      BY <3>1, <3>2 DEF IInv, JobOK, Handle
    <3>13. JobOK'
      BY <1>1, <3>1, <3>8, <3>9, <3>10, <3>11, <3>12 DEF JobOK
    <3> QED
      BY <3>4, <3>5, <3>6, <3>7, <3>13 DEF IInv
  <2> QED
    BY <2>1, <2>2
<1>6. ASSUME job.pc = "idle", UNCHANGED <<cache, ready, functions, code, hits, active, job, leftover>>
      PROVE  IInv'
  BY <1>6, EmptySeq, UnitStarts
<1>7. ASSUME NEW s \in Spec, CompileSourceCode(s) \/ CompileSourceUnoptimized(s) PROVE IInv'
  BY <1>1, <1>2, <1>3, <1>5, <1>6, <1>7 DEF CompileSourceCode, CompileSourceUnoptimized
<1>8. ASSUME NEW h, NEW a, Call(h, a) PROVE IInv'
  BY <1>6, <1>8 DEF Call
<1>9. ASSUME NEW s \in Spec, DumpDisasm(s) \/ DumpDisasmUnoptimized(s) PROVE IInv'
  BY <1>6, <1>9, DumpListed DEF Listed
<1> QED
  BY <1>2, <1>3, <1>4, <1>5, <1>7, <1>8, <1>9, JitAssumption DEF Request

(* The records of a unit, one at a time.                                    *)
LEMMA DeclareKeeps ==
  ASSUME IInv, Declare
  PROVE  IInv'
<1> DEFINE s == job.unit[job.at]
<1>1. /\ job.pc = "declare" /\ job.at <= Len(job.unit)
      /\ UNCHANGED <<ready, functions, relocated, links>>
  BY DEF Declare
<1>2. /\ job \in Jobs /\ job.unit \in Seq(Spec) /\ job.handles \in Seq(Handle) /\ job.at \in Nat
      /\ nextHandle \in Handle /\ handleOf \in [Spec -> 0..MaxHandle]
  BY DEF IInv, Types, Jobs
<1>3. CASE handleOf[s] # 0 /\ s \in Spec
  <2>1. FindRecord(s)
    BY <1>3 DEF Declare
  <2>2. /\ job' = [job EXCEPT !.handles = Append(@, handleOf[s]), !.at = @ + 1]
        /\ UNCHANGED <<cache, defined, toFinalize, active, leftover>>
        /\ hits' \in 0..MaxCount
    BY <2>1, JitAssumption DEF FindRecord, Saturating, IInv, Types
  <2>3. handleOf[s] \in Handle
    BY <1>2, <1>3, JitAssumption DEF Handle
  <2>4. Append(job.handles, handleOf[s]) \in Seq(Handle)
    BY <1>2, <2>3, Appended
  <2>5. job' \in Jobs /\ job'.pc = "declare" /\ job'.unit = job.unit /\ job'.at = job.at + 1
    <3>1. job' = [pc |-> job.pc, unit |-> job.unit, handles |-> Append(job.handles, handleOf[s]), at |-> job.at + 1]
      BY <1>2, <2>2 DEF Jobs
    <3> QED
      BY <1>1, <1>2, <2>4, <3>1 DEF Jobs
  <2>6. JobOK'
    <3>1. \A k \in DOMAIN job.unit : k < job.at + 1 => k < job.at \/ k = job.at
      BY <1>2, Elements
    <3>2. \A k \in DOMAIN job.unit : k < job.at + 1 => handleOf[job.unit[k]] # 0
      BY <1>1, <1>3, <3>1 DEF IInv, JobOK
    <3>3. UNCHANGED <<handleOf, ready, active, leftover>>
      BY <1>1, <2>2 DEF cache
    <3>4. /\ \A t \in Spec : handleOf[t] # 0 /\ t \notin ready /\ t \notin leftover => t \in ToSet(job.unit)
          /\ active = {}
      BY <1>1 DEF IInv, JobOK
    <3>5. job.at + 1 >= 1
      BY <1>2
    <3> QED
      BY <2>5, <3>2, <3>3, <3>4, <3>5 DEF JobOK
  <2> QED
    BY <1>1, <2>2, <2>5, <2>6, RequestFrame DEF code
<1>4. s \in Spec
  <2>1. job.at \in DOMAIN job.unit
    <3>1. job.at >= 1
      BY <1>1 DEF IInv, JobOK
    <3> QED
      BY <1>1, <1>2, <3>1, Elements
  <2> QED
    BY <1>2, <2>1, Elements
<1>5. CASE handleOf[s] = 0 /\ nextHandle = MaxHandle
  <2>1. Fail("overflow") /\ UNCHANGED <<cache, defined, toFinalize, hits>>
    BY <1>5 DEF Declare
  <2> QED
    BY <1>1, <2>1, FailFrame DEF cache, code
<1>6. CASE handleOf[s] = 0 /\ nextHandle # MaxHandle
  <2> DEFINE entry == <<nextHandle, "entry">>
             packed == <<nextHandle, "packed">>
  <2>1. DeclareRecord(s)
    BY <1>6 DEF Declare
  <2>2. /\ handleOf' = [handleOf EXCEPT ![s] = nextHandle]
        /\ nextHandle' = nextHandle + 1
        /\ misses' = Saturating(misses)
        /\ defined' = defined \cup {entry, packed}
        /\ toFinalize' = toFinalize \o <<entry, packed>>
        /\ job' = [job EXCEPT !.handles = Append(@, nextHandle), !.at = @ + 1]
        /\ UNCHANGED <<hits, active, answer, leftover, ready, functions, relocated, links>>
    BY <1>1, <2>1 DEF DeclareRecord
  <2>3. nextHandle \in 1..MaxHandle /\ nextHandle' \in Handle /\ nextHandle \in 0..MaxHandle
        /\ nextHandle' = nextHandle + 1 /\ nextHandle \in Int /\ MaxHandle \in Nat /\ nextHandle # 0 /\ nextHandle < nextHandle'
    BY <1>2, <1>6, <2>2, JitAssumption DEF Handle
  <2>4. /\ handleOf'[s] = nextHandle /\ \A t \in Spec : t # s => handleOf'[t] = handleOf[t]
        /\ handleOf' \in [Spec -> 0..MaxHandle]
    BY <1>2, <1>4, <2>2, <2>3
  <2>5. entry \in Code /\ packed \in Code
    BY <1>2 DEF Code, Part
  <2>6. /\ toFinalize' \in Seq(Code)
        /\ ToSet(toFinalize') = ToSet(toFinalize) \cup {entry, packed}
    <3>1. toFinalize \in Seq(Code)
      BY DEF IInv, Types
    <3> HIDE DEF entry, packed
    <3> QED
      BY <2>2, <2>5, <3>1, PairAppended
  <2>7. job' \in Jobs /\ job'.pc = "declare" /\ job'.unit = job.unit /\ job'.at = job.at + 1
    <3>1. Append(job.handles, nextHandle) \in Seq(Handle)
      BY <1>2, Appended
    <3>2. job' = [pc |-> job.pc, unit |-> job.unit, handles |-> Append(job.handles, nextHandle), at |-> job.at + 1]
      BY <1>2, <2>2 DEF Jobs
    <3> QED
      BY <1>1, <1>2, <3>1, <3>2 DEF Jobs
  <2>8. Types'
    <3>1. misses' \in 0..MaxCount
      BY <2>2, JitAssumption DEF IInv, Types, Saturating
    <3>2. defined' \in SUBSET Code
      BY <2>2, <2>5 DEF IInv, Types
    <3> QED
      BY <2>2, <2>3, <2>4, <2>6, <2>7, <3>1, <3>2 DEF IInv, Types
  <2>9. functions[nextHandle] = NoSpec /\ \A t \in Spec : handleOf[t] < nextHandle /\ handleOf[t] \in Int
    BY <1>2, <2>3 DEF IInv, HandlesUnique
  <2>10. s \notin ready
    BY <1>6 DEF IInv, HandlesUnique
  <2>11. HandlesUnique'
    <3>1. \A t \in Spec : handleOf'[t] < nextHandle'
      <4>1. \A t \in Spec : handleOf[t] < nextHandle + 1
        BY <2>3, <2>9
      <4> QED
        BY <2>3, <2>4, <4>1
    <3>2. ASSUME NEW t1 \in Spec, NEW t2 \in Spec, handleOf'[t1] = handleOf'[t2], handleOf'[t1] # 0
          PROVE  t1 = t2
      <4>1. \A t \in Spec : handleOf[t] # nextHandle
        BY <2>3, <2>9
      <4> QED
        BY <2>4, <3>2, <4>1 DEF IInv, HandlesUnique
    <3>3. \A h \in Handle : functions'[h] # NoSpec => h < nextHandle'
      BY <2>2, <2>3 DEF IInv, HandlesUnique, Handle
    <3>4. ASSUME NEW t \in Spec, handleOf'[t] # 0, functions'[handleOf'[t]] # NoSpec
          PROVE  functions'[handleOf'[t]] = t /\ t \in ready'
      <4>1. t # s
        BY <2>2, <2>4, <2>9, <3>4
      <4> QED
        BY <2>2, <2>4, <3>4, <4>1 DEF IInv, HandlesUnique
    <3>5. \A t \in ready' : handleOf'[t] # 0 /\ functions'[handleOf'[t]] = t
      BY <2>2, <2>4, <2>10 DEF IInv, HandlesUnique, Types
    <3> QED
      BY <3>1, <3>2, <3>3, <3>4, <3>5 DEF HandlesUnique
  <2>12. CodeOwned'
    <3>1. ASSUME NEW c \in defined
          PROVE  c[1] < nextHandle' /\ (c[2] = "entry" => \E t \in Spec : handleOf'[t] = c[1])
      <4>1. c[1] < nextHandle /\ c[1] \in Int
        BY <3>1 DEF IInv, CodeOwned, Types, Code, Handle
      <4>2. c[1] < nextHandle'
        BY <2>3, <4>1
      <4>3. ASSUME c[2] = "entry" PROVE \E t \in Spec : handleOf'[t] = c[1]
        <5>1. PICK t \in Spec : handleOf[t] = c[1]
          BY <3>1, <4>3 DEF IInv, CodeOwned
        <5>2. t # s
          <6>1. c[1] # 0
            BY <3>1, JitAssumption DEF IInv, Types, Code, Handle
          <6> QED
            BY <1>6, <5>1, <6>1
        <5> QED
          BY <2>4, <5>1, <5>2
      <4> QED
        BY <4>2, <4>3
    <3>2. \A c \in {entry, packed} : c[1] = nextHandle
      OBVIOUS
    <3> QED
      BY <1>4, <2>2, <2>3, <2>4, <3>1, <3>2 DEF CodeOwned
  <2>13. Relocations'
    <3>1. ToSet(toFinalize)' = ToSet(toFinalize) \cup {entry, packed}
      BY <2>6
    <3>2. \A t \in ready : t # s /\ t \in Spec
      BY <2>10 DEF IInv, Types
    <3>3. \A t \in ready' : <<handleOf'[t], "body">> \in relocated'
      BY <2>2, <2>4, <3>2 DEF IInv, Relocations
    <3>4. \A t \in ready' : t \notin leftover' => <<handleOf'[t], "packed">> \in relocated'
      BY <2>2, <2>4, <3>2 DEF IInv, Relocations
    <3>5. \A t \in Spec : handleOf'[t] # 0 /\ t \notin leftover' => <<handleOf'[t], "packed">> \in Waiting'
      BY <2>2, <2>4, <3>1 DEF IInv, Relocations, Waiting
    <3>6. ASSUME NEW h \in Handle, functions'[h] # NoSpec, ~Cached(h)'
          PROVE  <<h, "packed">> \in relocated'
      <4>1. functions[h] \in Spec /\ functions[h] # NoSpec
        BY <2>2, <3>6 DEF IInv, Types
      <4>2. functions[h] = s => handleOf[functions[h]] # h
        BY <1>6, JitAssumption DEF Handle
      <4>3. ~Cached(h)
        BY <2>2, <2>4, <3>6, <4>1, <4>2 DEF Cached
      <4> QED
        BY <2>2, <4>1, <4>3 DEF IInv, Relocations
    <3> QED
      BY <3>3, <3>4, <3>5, <3>6 DEF Relocations
  <2>14. LinksLead'
    BY <2>2 DEF IInv, LinksLead
  <2>15. JobOK'
    <3>1. s \in ToSet(job.unit)
      <4>1. job.at \in DOMAIN job.unit
        BY <1>1, <1>2, Elements DEF IInv, JobOK
      <4> QED
        BY <1>2, <4>1, Elements
    <3>2. \A t \in Spec : handleOf'[t] # 0 /\ t \notin ready' /\ t \notin leftover' => t \in ToSet(job.unit)
      BY <1>1, <2>2, <2>4, <3>1 DEF IInv, JobOK
    <3>3. active' = {} /\ job.at + 1 >= 1
      BY <1>1, <1>2, <2>2 DEF IInv, JobOK
    <3>4. ASSUME NEW k \in DOMAIN job.unit, k < job.at + 1 PROVE handleOf'[job.unit[k]] # 0
      <4>1. k < job.at \/ k = job.at
        BY <1>2, <3>4, Elements
      <4>2. job.unit[k] \in Spec
        BY <1>2, Elements
      <4> QED
        BY <1>1, <2>3, <2>4, <4>1, <4>2 DEF IInv, JobOK
    <3> QED
      BY <2>7, <3>2, <3>3, <3>4 DEF JobOK
  <2> QED
    BY <2>8, <2>11, <2>12, <2>13, <2>14, <2>15 DEF IInv
<1> QED
  BY <1>3, <1>4, <1>5, <1>6

(* With every record made, the unit's names are bound.                      *)
LEMMA BeginBodiesKeeps ==
  ASSUME IInv, BeginBodies
  PROVE  IInv'
<1>1. /\ job.pc = "declare" /\ job.at > Len(job.unit)
      /\ UNCHANGED <<cache, ready, functions, code, hits, leftover>>
  BY DEF BeginBodies
<1>2. /\ job \in Jobs /\ job.unit \in Seq(Spec) /\ job.at \in Nat /\ hits' \in 0..MaxCount
  BY <1>1 DEF IInv, Types, Jobs
<1>3. \A k \in DOMAIN job.unit : handleOf[job.unit[k]] # 0
  <2>1. \A k \in DOMAIN job.unit : k < job.at
    BY <1>1, <1>2, Elements
  <2> QED
    BY <1>1, <2>1 DEF IInv, JobOK
<1>4. \A s \in Spec : handleOf[s] # 0 /\ s \notin ready /\ s \notin leftover => s \in ToSet(job.unit)
  BY <1>1 DEF IInv, JobOK
<1>5. CASE Pending = {}
  <2>1. job' = Idle /\ UNCHANGED active
    BY <1>5 DEF BeginBodies
  <2>2. job' \in Jobs
    BY <2>1, EmptySeq DEF Idle, Jobs
  <2>3. JobOK'
    BY <1>1, <1>4, <1>5, <2>1 DEF IInv, JobOK, Idle, Pending, cache
  <2> QED
    BY <1>1, <1>2, <2>2, <2>3, RequestFrame
<1>6. CASE Pending # {}
  <2>1. /\ active' = {<<NameOf[s], handleOf[s]>> : s \in ToSet(job.unit)}
        /\ job' = [job EXCEPT !.pc = "define", !.at = 1]
    BY <1>6 DEF BeginBodies
  <2>2. job' = [pc |-> "define", unit |-> job.unit, handles |-> job.handles, at |-> 1]
    BY <1>2, <2>1 DEF Jobs
  <2>3. job' \in Jobs
    BY <1>2, <2>2 DEF Jobs
  <2>4. UNCHANGED <<handleOf, ready, leftover>>
    BY <1>1 DEF cache
  <2>5. \A k \in DOMAIN job.unit : ~(k < 1)
    BY <1>2, Elements
  <2>6. JobOK'
    BY <1>3, <1>4, <2>1, <2>2, <2>4, <2>5 DEF JobOK
  <2> QED
    BY <1>1, <1>2, <2>3, <2>6, RequestFrame
<1> QED
  BY <1>5, <1>6

(* A name of the unit leads to a handle of the unit, any other outside.     *)
LEMMA LinkTarget ==
  ASSUME NEW n
  PROVE  /\ active = {} => Link(n)[2] = 0
         /\ active = {<<NameOf[s], handleOf[s]>> : s \in ToSet(job.unit)}
              => Link(n)[2] = 0 \/ Link(n)[2] \in UnitHandles
<1>1. CASE ~\E p \in active : p[1] = n
  BY <1>1 DEF Link
<1>2. CASE \E p \in active : p[1] = n
  <2> DEFINE q == CHOOSE p \in active : p[1] = n
  <2>1. q \in active
    BY <1>2
  <2>2. Link(n)[2] = q[2]
    BY <1>2 DEF Link
  <2>3. ASSUME active = {<<NameOf[s], handleOf[s]>> : s \in ToSet(job.unit)}
        PROVE  q[2] \in UnitHandles
    <3> HIDE DEF q
    <3>1. PICK s \in ToSet(job.unit) : q = <<NameOf[s], handleOf[s]>>
      BY <2>1, <2>3
    <3> QED
      BY <3>1 DEF UnitHandles
  <2> QED
    BY <2>1, <2>2, <2>3
<1> QED
  BY <1>1, <1>2

(* Code defined for a handle that is not callable yet disturbs no other.    *)
LEMMA DefineFrame ==
  ASSUME IInv, NEW h \in Handle, NEW part \in {"body", "packed"}, NEW made,
         h < nextHandle, functions[h] = NoSpec,
         defined' = defined \cup {<<h, part>>},
         toFinalize' = Append(toFinalize, <<h, part>>),
         links' = [links EXCEPT ![h] = made],
         UNCHANGED <<cache, ready, functions, hits, relocated, leftover>>,
         job' \in Jobs, JobOK'
  PROVE  IInv'
<1>1. UNCHANGED <<handleOf, nextHandle, misses, ready, functions, hits, relocated, leftover>>
  BY DEF cache
<1>2. <<h, part>> \in Code
  BY DEF Code, Part
<1>3. toFinalize' \in Seq(Code) /\ ToSet(toFinalize') = ToSet(toFinalize) \cup {<<h, part>>}
  <2>1. toFinalize \in Seq(Code)
    BY DEF IInv, Types
  <2> DEFINE c == <<h, part>>
  <2>2. c \in Code /\ toFinalize' = Append(toFinalize, c)
    BY <1>2
  <2>3. toFinalize' \in Seq(Code) /\ ToSet(toFinalize') = ToSet(toFinalize) \cup {c}
    <3> HIDE DEF c
    <3>1. Append(toFinalize, c) \in Seq(Code) /\ ToSet(Append(toFinalize, c)) = ToSet(toFinalize) \cup {c}
      BY <2>1, <2>2, Appended
    <3> QED
      BY <2>2, <3>1
  <2> QED
    BY <2>3
<1>4. Types'
  BY <1>1, <1>2, <1>3 DEF IInv, Types
<1>5. HandlesUnique'
  BY <1>1 DEF IInv, HandlesUnique
<1>6. CodeOwned'
  <2>1. <<h, part>>[1] = h /\ <<h, part>>[2] # "entry"
    OBVIOUS
  <2>2. \A c \in defined' : c \in defined \/ c = <<h, part>>
    OBVIOUS
  <2> QED
    BY <1>1, <2>1, <2>2 DEF IInv, CodeOwned
<1>7. Relocations'
  <2>1. ToSet(toFinalize)' = ToSet(toFinalize) \cup {<<h, part>>}
    BY <1>3
  <2> QED
    BY <1>1, <2>1 DEF IInv, Relocations, Waiting, Cached
<1>8. LinksLead'
  <2>1. \A g \in Handle : g # h => links'[g] = links[g]
    BY DEF IInv, Types
  <2> QED
    BY <1>1, <2>1 DEF IInv, LinksLead
<1> QED
  BY <1>4, <1>5, <1>6, <1>7, <1>8 DEF IInv

(* The bodies of a unit, one at a time.                                     *)
LEMMA DefineBodyKeeps ==
  ASSUME IInv, DefineBody
  PROVE  IInv'
<1> DEFINE s == job.unit[job.at]
           h == handleOf[s]
<1>1. /\ job.pc = "define" /\ job.at <= Len(job.unit)
      /\ UNCHANGED <<cache, ready, functions, hits>>
  BY DEF DefineBody
<1>2. /\ job \in Jobs /\ job.unit \in Seq(Spec) /\ job.handles \in Seq(Handle) /\ job.at \in Nat
      /\ handleOf \in [Spec -> 0..MaxHandle] /\ hits' \in 0..MaxCount
  BY <1>1 DEF IInv, Types, Jobs
<1>3. job.at \in DOMAIN job.unit /\ job.at + 1 >= 1
  BY <1>1, <1>2, Elements DEF IInv, JobOK
<1>4. s \in Spec /\ s \in ToSet(job.unit) /\ h # 0
  BY <1>1, <1>2, <1>3, Elements DEF IInv, JobOK
<1>5. /\ \A k \in DOMAIN job.unit : handleOf[job.unit[k]] # 0 /\ job.unit[k] \in Spec
      /\ active = {<<NameOf[t], handleOf[t]>> : t \in ToSet(job.unit)}
      /\ \A k \in DOMAIN job.unit : k < job.at => Begun(k)
      /\ \A t \in Spec : handleOf[t] # 0 /\ t \notin ready /\ t \notin leftover => t \in ToSet(job.unit)
  BY <1>1, <1>2, Elements DEF IInv, JobOK
<1>6. \A k \in DOMAIN job.unit : k < job.at + 1 => k < job.at \/ k = job.at
  BY <1>2, Elements, SMTT(60)
<1>7. ASSUME job' = [job EXCEPT !.at = @ + 1]
      PROVE  job' \in Jobs /\ job'.pc = "define" /\ job'.unit = job.unit /\ job'.at = job.at + 1
  <2>1. job' = [pc |-> job.pc, unit |-> job.unit, handles |-> job.handles, at |-> job.at + 1]
    BY <1>2, <1>7 DEF Jobs
  <2> QED
    BY <1>1, <1>2, <2>1 DEF Jobs
<1>8. CASE s \notin Pending
  <2>1. job' = [job EXCEPT !.at = @ + 1] /\ UNCHANGED <<code, active, answer, leftover>>
    BY <1>8 DEF DefineBody
  <2>2. s \in ready
    BY <1>4, <1>8 DEF Pending
  <2>3. UNCHANGED <<handleOf, ready, toFinalize, links, active, leftover>>
    BY <1>1, <2>1 DEF cache, code
  <2>4. job' \in Jobs /\ job'.pc = "define" /\ job'.unit = job.unit /\ job'.at = job.at + 1
    BY <1>7, <2>1
  <2>5. \A k \in DOMAIN job.unit : k < job.at + 1 => Begun(k)'
    <3>1. \A k \in DOMAIN job.unit : k < job.at => Begun(k)'
      BY <1>5, <2>3, <2>4 DEF Begun, UnitHandles
    <3>2. ASSUME NEW k \in DOMAIN job.unit, k = job.at PROVE Begun(k)'
      BY <2>2, <2>3, <2>4, <3>2 DEF Begun
    <3> QED
      BY <1>6, <3>1, <3>2
  <2>6. JobOK'
    BY <1>3, <1>5, <2>3, <2>4, <2>5 DEF JobOK
  <2> QED
    BY <1>1, <1>2, <2>1, <2>4, <2>6, RequestFrame
<1>9. CASE s \in Pending
  <2>1. Define(s, h, "body")
    BY <1>9 DEF DefineBody
  <2>2. s \notin ready
    BY <1>9 DEF Pending
  <2>3. CASE Refuses(s, h, "body")
    <3>1. (\E o : Fail(o)) /\ UNCHANGED code
      BY <2>3 DEF Refuses
    <3> QED
      BY <1>1, <3>1, FailFrame
  <2>4. CASE Makes(s, h, "body")
    <3> DEFINE made == {Link(n) : n \in Calls[s]}
    <3>1. /\ defined' = defined \cup {<<h, "body">>}
          /\ toFinalize' = Append(toFinalize, <<h, "body">>)
          /\ links' = [links EXCEPT ![h] = made]
          /\ job' = [job EXCEPT !.at = @ + 1]
          /\ UNCHANGED <<relocated, active, answer, leftover>>
      BY <2>4 DEF Makes
    <3>2. h \in Handle /\ h < nextHandle /\ functions[h] = NoSpec
      BY <1>2, <1>4, <2>2, JitAssumption DEF IInv, HandlesUnique, Handle
    <3>3. UNCHANGED <<handleOf, ready, active, leftover>>
      BY <1>1, <3>1 DEF cache
    <3>4. job' \in Jobs /\ job'.pc = "define" /\ job'.unit = job.unit /\ job'.at = job.at + 1
      BY <1>7, <3>1
    <3>5. ToSet(toFinalize') = ToSet(toFinalize) \cup {<<h, "body">>}
      <4>1. toFinalize \in Seq(Code) /\ <<h, "body">> \in Code
        BY <3>2 DEF IInv, Types, Code, Part
      <4> DEFINE c == <<h, "body">>
      <4>2. c \in Code /\ toFinalize' = Append(toFinalize, c)
        BY <3>1, <4>1
      <4>3. ToSet(toFinalize') = ToSet(toFinalize) \cup {c}
        <5> HIDE DEF c
        <5> QED
          BY <4>1, <4>2, Appended
      <4> QED
        BY <4>3
    <3>6. \A l \in made : l[2] = 0 \/ l[2] \in UnitHandles
      BY <1>5, LinkTarget
    <3>7. links'[h] = made /\ \A g \in Handle : g # h => links'[g] = links[g]
      BY <3>1, <3>2 DEF IInv, Types
    <3>8. UnitHandles' = UnitHandles
      BY <3>3, <3>4 DEF UnitHandles
    <3>9. ASSUME NEW k \in DOMAIN job.unit, k < job.at + 1, job.unit[k] \notin ready
          PROVE  /\ <<handleOf[job.unit[k]], "body">> \in ToSet(toFinalize')
                 /\ \A l \in links'[handleOf[job.unit[k]]] : l[2] = 0 \/ l[2] \in UnitHandles
      <4> HIDE DEF made
      <4>1. CASE handleOf[job.unit[k]] = h
        BY <3>5, <3>6, <3>7, <4>1
      <4>2. CASE handleOf[job.unit[k]] # h
        <5>1. k < job.at
          BY <1>6, <3>9, <4>2
        <5>2. Begun(k)
          BY <1>5, <5>1
        <5>3. handleOf[job.unit[k]] \in Handle
          BY <1>2, <1>5, JitAssumption DEF Handle
        <5> QED
          BY <3>5, <3>7, <3>9, <4>2, <5>2, <5>3 DEF Begun
      <4> QED
        BY <4>1, <4>2
    <3>10. \A k \in DOMAIN job.unit : k < job.at + 1 => Begun(k)'
      BY <3>3, <3>4, <3>8, <3>9 DEF Begun
    <3>11. JobOK'
      BY <1>3, <1>5, <3>3, <3>4, <3>10 DEF JobOK
    <3> HIDE DEF made
    <3> QED
      BY <1>1, <3>1, <3>2, <3>4, <3>11, DefineFrame
  <2> HIDE DEF s, h
  <2> QED
    BY <2>1, <2>3, <2>4, DefineCases
<1> QED
  BY <1>8, <1>9

(* The function compiled without a record.                                  *)
LEMMA DefineUncachedKeeps ==
  ASSUME IInv, DefineUncached
  PROVE  IInv'
<1> DEFINE s == job.unit[1]
           h == job.handles[1]
<1>1. /\ job.pc = "uncached" /\ job.at = 1 /\ Define(s, h, "packed")
      /\ UNCHANGED <<cache, ready, functions, hits>>
  BY DEF DefineUncached
<1>2. /\ job \in Jobs /\ job.unit \in Seq(Spec) /\ job.handles \in Seq(Handle)
  BY DEF IInv, Types, Jobs
<1>3. /\ Len(job.unit) = 1 /\ Len(job.handles) = 1
      /\ h < nextHandle /\ functions[h] = NoSpec /\ \A t \in Spec : handleOf[t] # h
      /\ active = {}
      /\ \A t \in Spec : ~(handleOf[t] # 0 /\ t \notin ready /\ t \notin leftover)
  BY <1>1 DEF IInv, JobOK
<1>4. h \in Handle
  BY <1>2, <1>3, Elements
<1>5. CASE Refuses(s, h, "packed")
  <2>1. (\E o : Fail(o)) /\ UNCHANGED code
    BY <1>5 DEF Refuses
  <2> QED
    BY <1>1, <2>1, FailFrame
<1>6. CASE Makes(s, h, "packed")
  <2> DEFINE made == {Link(n) : n \in Calls[s]}
  <2>1. /\ defined' = defined \cup {<<h, "packed">>}
        /\ toFinalize' = Append(toFinalize, <<h, "packed">>)
        /\ links' = [links EXCEPT ![h] = made]
        /\ job' = [job EXCEPT !.at = @ + 1]
        /\ UNCHANGED <<relocated, active, answer, leftover>>
    BY <1>6 DEF Makes
  <2>2. job' = [pc |-> "uncached", unit |-> job.unit, handles |-> job.handles, at |-> 2]
    BY <1>1, <1>2, <2>1 DEF Jobs
  <2>3. job' \in Jobs
    BY <1>2, <2>2 DEF Jobs
  <2>4. <<h, "packed">> \in ToSet(toFinalize')
    <3>1. toFinalize \in Seq(Code) /\ <<h, "packed">> \in Code
      BY <1>4 DEF IInv, Types, Code, Part
    <3> DEFINE c == <<h, "packed">>
    <3>2. c \in Code /\ toFinalize' = Append(toFinalize, c)
      BY <2>1, <3>1
    <3>3. ToSet(toFinalize') = ToSet(toFinalize) \cup {c}
      <4> HIDE DEF c
      <4> QED
        BY <3>1, <3>2, Appended
    <3> QED
      BY <3>3
  <2>5. \A l \in links'[h] : l[2] = 0
    BY <1>3, <1>4, <2>1, LinkTarget DEF IInv, Types
  <2>6. UNCHANGED <<handleOf, ready, nextHandle, functions, active, leftover>>
    BY <1>1, <2>1 DEF cache
  <2>7. JobOK'
    BY <1>2, <1>3, <2>2, <2>4, <2>5, <2>6 DEF JobOK
  <2> HIDE DEF made
  <2> QED
    BY <1>1, <1>3, <1>4, <2>1, <2>3, <2>7, DefineFrame
<1> HIDE DEF s, h
<1> QED
  BY <1>1, <1>5, <1>6, DefineCases

(* A finalization that panics: whoever has no body in the unit is set down. *)
LEMMA FinalizeFails ==
  ASSUME IInv, NEW o, Fail(o), NEW done \in SUBSET ToSet(toFinalize),
         toFinalize' = <<>>, relocated' = relocated \cup done,
         UNCHANGED <<cache, ready, functions, defined, links, hits>>
  PROVE  IInv'
<1>1. UNCHANGED <<handleOf, nextHandle, misses, ready, functions, defined, links, hits>>
  BY DEF cache
<1>2. /\ job' \in Jobs /\ leftover' \in SUBSET Spec /\ leftover \subseteq leftover' /\ JobOK'
      /\ \A s \in Spec : handleOf[s] # 0 /\ s \notin ready => s \in leftover'
  BY <1>1, FailedJob
<1>3. toFinalize' \in Seq(Code) /\ relocated' \in SUBSET Code
  BY EmptySeq, Elements DEF IInv, Types
<1>4. Types'
  BY <1>1, <1>2, <1>3 DEF IInv, Types
<1>5. HandlesUnique' /\ CodeOwned' /\ LinksLead'
  BY <1>1 DEF IInv, HandlesUnique, CodeOwned, LinksLead
<1>6. Relocations'
  BY <1>1, <1>2 DEF IInv, Relocations, Waiting, Cached
<1> QED
  BY <1>2, <1>4, <1>5, <1>6 DEF IInv

(* Where Finalize ends: what was waiting is relocated, or the request fails.*)
LEMMA Finalized ==
  ASSUME IInv, NEW publish, Finalize(publish),
         ~(\A i \in DOMAIN toFinalize : Resolves(toFinalize[i]))
  PROVE  IInv'
<1> DEFINE stuck == {i \in DOMAIN toFinalize : ~Resolves(toFinalize[i])}
           done == {toFinalize[i] : i \in {j \in DOMAIN toFinalize : \A k \in stuck : j < k}}
<1>1. stuck # {}
  OBVIOUS
<1>2. /\ toFinalize' = <<>> /\ relocated' = relocated \cup done
      /\ Fail("unresolved") /\ UNCHANGED <<functions, ready>>
      /\ UNCHANGED <<cache, defined, links, hits>>
  BY <1>1 DEF Finalize
<1>3. done \in SUBSET ToSet(toFinalize)
  BY DEF ToSet
<1> HIDE DEF done
<1> QED
  BY <1>2, <1>3, FinalizeFails

LEMMA FinishUnitKeeps ==
  ASSUME IInv, FinishUnit
  PROVE  IInv'
<1>1. job.pc = "define" /\ job.at > Len(job.unit) /\ Finalize(PublishUnit)
  BY DEF FinishUnit
<1>2. CASE ~(\A i \in DOMAIN toFinalize : Resolves(toFinalize[i]))
  BY <1>1, <1>2, Finalized
<1>3. CASE \A i \in DOMAIN toFinalize : Resolves(toFinalize[i])
  <2>1. {i \in DOMAIN toFinalize : ~Resolves(toFinalize[i])} = {}
    BY <1>3
  <2>2. /\ toFinalize' = <<>> /\ relocated' = relocated \cup ToSet(toFinalize)
        /\ PublishUnit /\ UNCHANGED <<cache, defined, links, hits>>
    BY <1>1, <2>1 DEF Finalize
  <2>3. /\ functions' = [h \in Handle |->
             IF \E s \in Pending : handleOf[s] = h
             THEN CHOOSE s \in Pending : handleOf[s] = h ELSE functions[h]]
        /\ ready' = ready \cup Pending /\ active' = {} /\ job' = Idle /\ UNCHANGED leftover
        /\ UNCHANGED <<handleOf, nextHandle, misses, defined, links, hits>>
    BY <2>2 DEF PublishUnit, cache
  <2>4. /\ job.unit \in Seq(Spec) /\ job.at \in Nat /\ handleOf \in [Spec -> 0..MaxHandle]
        /\ functions \in [Handle -> Spec \cup {NoSpec}] /\ toFinalize \in Seq(Code)
    BY DEF IInv, Types, Jobs
  <2>5. /\ \A k \in DOMAIN job.unit : handleOf[job.unit[k]] # 0 /\ Begun(k)
        /\ \A s \in Spec : handleOf[s] # 0 /\ s \notin ready /\ s \notin leftover => s \in ToSet(job.unit)
    <3>1. \A k \in DOMAIN job.unit : k < job.at
      BY <1>1, <2>4, Elements
    <3> QED
      BY <1>1, <3>1 DEF IInv, JobOK
  <2>6. ASSUME NEW s \in Pending
        PROVE  /\ s \in Spec /\ s \notin ready /\ handleOf[s] \in Handle /\ handleOf[s] # 0
               /\ functions[handleOf[s]] = NoSpec /\ functions'[handleOf[s]] = s
               /\ <<handleOf[s], "body">> \in ToSet(toFinalize)
               /\ \A l \in links[handleOf[s]] : l[2] = 0 \/ l[2] \in UnitHandles
    <3>1. s \in Spec /\ s \notin ready
      BY <2>4, Elements DEF Pending
    <3>2. PICK k \in DOMAIN job.unit : job.unit[k] = s
      BY DEF Pending, ToSet
    <3>3. handleOf[s] # 0 /\ <<handleOf[s], "body">> \in ToSet(toFinalize)
          /\ \A l \in links[handleOf[s]] : l[2] = 0 \/ l[2] \in UnitHandles
      BY <2>5, <3>1, <3>2 DEF Begun
    <3>4. handleOf[s] \in Handle
      BY <2>4, <3>1, <3>3, JitAssumption DEF Handle
    <3>5. functions[handleOf[s]] = NoSpec
      BY <3>1, <3>3 DEF IInv, HandlesUnique
    <3>6. \A t \in Pending : handleOf[t] = handleOf[s] => t = s
      <4>1. \A t \in Pending : t \in Spec
        BY <2>4, Elements DEF Pending
      <4> QED
        BY <3>1, <3>3, <4>1 DEF IInv, HandlesUnique
    <3>7. functions'[handleOf[s]] = s
      BY <2>3, <3>4, <3>6
    <3> QED
      BY <3>1, <3>3, <3>4, <3>5, <3>7
  <2>7. ASSUME NEW h \in Handle
        PROVE  \/ \E s \in Pending : handleOf[s] = h /\ functions'[h] = s
               \/ functions'[h] = functions[h]
    BY <2>3, <2>6
  <2>8. \A h \in Handle : functions[h] # NoSpec => functions'[h] = functions[h]
    BY <2>6, <2>7
  <2>9. Types'
    <3>1. functions' \in [Handle -> Spec \cup {NoSpec}]
      <4>1. \A h \in Handle : functions'[h] \in Spec \cup {NoSpec}
        BY <2>4, <2>6, <2>7
      <4>2. functions' = [h \in Handle |-> functions'[h]]
        BY <2>3
      <4> QED
        BY <4>1, <4>2
    <3>2. ready' \in SUBSET Spec
      BY <2>3, <2>6 DEF IInv, Types
    <3>3. Idle \in Jobs /\ <<>> \in Seq(Code)
      BY EmptySeq DEF Idle, Jobs
    <3>4. relocated' \in SUBSET Code
      BY <2>2, <2>4, Elements DEF IInv, Types
    <3> QED
      BY <2>2, <2>3, <3>1, <3>2, <3>3, <3>4 DEF IInv, Types
  <2>10. HandlesUnique'
    <3>1. ASSUME NEW h \in Handle, functions'[h] # NoSpec PROVE h < nextHandle
      <4>1. CASE \E s \in Pending : handleOf[s] = h
        BY <2>6, <4>1, ZenonT(60) DEF IInv, HandlesUnique
      <4>2. CASE functions'[h] = functions[h]
        BY <3>1, <4>2 DEF IInv, HandlesUnique
      <4> QED
        BY <2>7, <4>1, <4>2
    <3>2. ASSUME NEW s \in Spec, handleOf[s] # 0, functions'[handleOf[s]] # NoSpec
          PROVE  functions'[handleOf[s]] = s /\ s \in ready'
      <4>1. handleOf[s] \in Handle
        BY <2>4, <3>2, JitAssumption DEF Handle
      <4>2. CASE \E t \in Pending : handleOf[t] = handleOf[s] /\ functions'[handleOf[s]] = t
        <5>1. PICK t \in Pending : handleOf[t] = handleOf[s] /\ functions'[handleOf[s]] = t
          BY <4>2
        <5>2. t = s
          BY <2>6, <3>2, <5>1 DEF IInv, HandlesUnique
        <5> QED
          BY <2>3, <5>1, <5>2
      <4>3. CASE functions'[handleOf[s]] = functions[handleOf[s]]
        BY <2>3, <3>2, <4>3 DEF IInv, HandlesUnique
      <4> QED
        BY <2>7, <4>1, <4>2, <4>3
    <3>3. ASSUME NEW s \in ready'
          PROVE  handleOf[s] # 0 /\ functions'[handleOf[s]] = s
      <4>1. CASE s \in Pending
        BY <2>6, <4>1
      <4>2. CASE s \in ready
        <5>1. s \in Spec /\ handleOf[s] # 0 /\ functions[handleOf[s]] = s
          BY <4>2 DEF IInv, HandlesUnique, Types
        <5>2. handleOf[s] \in Handle /\ s # NoSpec
          BY <2>4, <5>1, JitAssumption DEF Handle
        <5> QED
          BY <2>8, <5>1, <5>2
      <4> QED
        BY <2>3, <3>3, <4>1, <4>2
    <3> QED
      BY <2>3, <3>1, <3>2, <3>3 DEF IInv, HandlesUnique
  <2>11. CodeOwned'
    BY <2>3 DEF IInv, CodeOwned
  <2>12. Relocations'
    <3>1. \A s \in ready' : <<handleOf[s], "body">> \in relocated'
      BY <2>2, <2>3, <2>6 DEF IInv, Relocations
    <3>2. \A s \in Spec : handleOf[s] # 0 /\ s \notin leftover => <<handleOf[s], "packed">> \in relocated'
      BY <2>2 DEF IInv, Relocations, Waiting
    <3>3. \A s \in ready' : s \in Spec /\ handleOf[s] # 0
      BY <2>3, <2>6 DEF IInv, HandlesUnique, Types
    <3>4. ASSUME NEW h \in Handle, functions'[h] # NoSpec, ~Cached(h)'
          PROVE  <<h, "packed">> \in relocated'
      <4>1. functions'[h] = functions[h]
        BY <2>3, <2>7, <3>4 DEF Cached
      <4> QED
        BY <2>2, <2>3, <3>4, <4>1 DEF IInv, Relocations, Cached
    <3> QED
      BY <2>3, <3>1, <3>2, <3>3, <3>4 DEF Relocations, Waiting
  <2>13. LinksLead'
    <3>1. \A g \in UnitHandles : g \in Handle /\ functions'[g] # NoSpec
      <4>1. ASSUME NEW s \in ToSet(job.unit) PROVE handleOf[s] \in Handle /\ functions'[handleOf[s]] # NoSpec
        <5>1. CASE s \in Pending
          BY <2>6, <5>1, JitAssumption
        <5>2. CASE s \in ready
          <6>1. s \in Spec /\ handleOf[s] # 0 /\ functions[handleOf[s]] = s
            BY <5>2 DEF IInv, HandlesUnique, Types
          <6>2. handleOf[s] \in Handle /\ s # NoSpec
            BY <2>4, <6>1, JitAssumption DEF Handle
          <6> QED
            BY <2>8, <6>1, <6>2
        <5> QED
          BY <5>1, <5>2 DEF Pending
      <4> QED
        BY <4>1 DEF UnitHandles
    <3>2. ASSUME NEW s \in Pending, NEW l \in links[handleOf[s]], l[2] = 0
          PROVE  l[1] \in Linker
      <4> DEFINE c == <<handleOf[s], "body">>
      <4>1. c \in ToSet(toFinalize)
        BY <2>6
      <4>2. Resolves(c)
        <5> HIDE DEF c
        <5> QED
          BY <1>3, <4>1 DEF ToSet
      <4> QED
        BY <3>2, <4>2 DEF Resolves
    <3>3. ASSUME NEW h \in Handle, functions'[h] # NoSpec, NEW l \in links[h]
          PROVE  IF l[2] = 0 THEN l[1] \in Linker ELSE l[2] \in Handle /\ functions'[l[2]] # NoSpec
      <4>1. CASE \E s \in Pending : handleOf[s] = h
        <5>1. PICK s \in Pending : handleOf[s] = h
          BY <4>1
        <5>2. l[2] = 0 \/ l[2] \in UnitHandles
          BY <2>6, <3>3, <5>1
        <5>3. l[2] = 0 => l[1] \in Linker
          BY <3>2, <3>3, <5>1
        <5> QED
          BY <3>1, <5>2, <5>3
      <4>2. CASE functions'[h] = functions[h]
        BY <2>8, <3>3, <4>2 DEF IInv, LinksLead
      <4> QED
        BY <2>7, <4>1, <4>2
    <3> QED
      BY <2>3, <3>3 DEF LinksLead
  <2>14. JobOK'
    <3>1. \A s \in Spec : ~(handleOf[s] # 0 /\ s \notin ready' /\ s \notin leftover)
      BY <2>3, <2>5 DEF Pending
    <3> QED
      BY <2>3, <3>1 DEF JobOK, Idle
  <2> QED
    BY <2>9, <2>10, <2>11, <2>12, <2>13, <2>14 DEF IInv
<1> QED
  BY <1>2, <1>3

LEMMA FinishUncachedKeeps ==
  ASSUME IInv, FinishUncached
  PROVE  IInv'
<1> DEFINE s == job.unit[1]
           h == job.handles[1]
<1>1. job.pc = "uncached" /\ job.at > 1 /\ Finalize(PublishUncached)
  BY DEF FinishUncached
<1>2. CASE ~(\A i \in DOMAIN toFinalize : Resolves(toFinalize[i]))
  BY <1>1, <1>2, Finalized
<1>3. CASE \A i \in DOMAIN toFinalize : Resolves(toFinalize[i])
  <2>1. {i \in DOMAIN toFinalize : ~Resolves(toFinalize[i])} = {}
    BY <1>3
  <2>2. /\ toFinalize' = <<>> /\ relocated' = relocated \cup ToSet(toFinalize)
        /\ PublishUncached /\ UNCHANGED <<cache, defined, links, hits>>
    BY <1>1, <2>1 DEF Finalize
  <2>3. /\ functions' = [functions EXCEPT ![h] = s] /\ job' = Idle
        /\ UNCHANGED <<ready, active, leftover>>
        /\ UNCHANGED <<handleOf, nextHandle, misses, defined, links, hits>>
    BY <2>2 DEF PublishUncached, cache
  <2>4. /\ job.unit \in Seq(Spec) /\ job.handles \in Seq(Handle)
        /\ functions \in [Handle -> Spec \cup {NoSpec}] /\ toFinalize \in Seq(Code)
        /\ handleOf \in [Spec -> 0..MaxHandle]
    BY DEF IInv, Types, Jobs
  <2>5. /\ Len(job.unit) = 1 /\ Len(job.handles) = 1
        /\ h < nextHandle /\ functions[h] = NoSpec /\ \A t \in Spec : handleOf[t] # h
        /\ <<h, "packed">> \in ToSet(toFinalize) /\ \A l \in links[h] : l[2] = 0
        /\ active = {}
        /\ \A t \in Spec : ~(handleOf[t] # 0 /\ t \notin ready /\ t \notin leftover)
    BY <1>1 DEF IInv, JobOK
  <2>6. h \in Handle /\ s \in Spec
    BY <2>4, <2>5, Elements
  <2>7. functions'[h] = s /\ s # NoSpec /\ \A g \in Handle : g # h => functions'[g] = functions[g]
    BY <2>3, <2>4, <2>6, JitAssumption
  <2>8. Types'
    <3>1. Idle \in Jobs /\ <<>> \in Seq(Code)
      BY EmptySeq DEF Idle, Jobs
    <3>2. relocated' \in SUBSET Code
      BY <2>2, <2>4, Elements DEF IInv, Types
    <3>3. functions' \in [Handle -> Spec \cup {NoSpec}]
      BY <2>3, <2>4, <2>6
    <3> QED
      BY <2>2, <2>3, <3>1, <3>2, <3>3 DEF IInv, Types
  <2>9. HandlesUnique'
    <3>1. \A g \in Handle : functions'[g] # NoSpec => g < nextHandle
      BY <2>5, <2>7 DEF IInv, HandlesUnique
    <3>2. \A t \in Spec : handleOf[t] # 0 => handleOf[t] \in Handle /\ functions'[handleOf[t]] = functions[handleOf[t]]
      BY <2>4, <2>5, <2>7, JitAssumption DEF Handle
    <3>3. ready \subseteq Spec
      BY DEF IInv, Types
    <3> QED
      BY <2>3, <3>1, <3>2, <3>3 DEF IInv, HandlesUnique
  <2>10. CodeOwned'
    BY <2>3 DEF IInv, CodeOwned
  <2>11. Relocations'
    <3>1. <<h, "packed">> \in relocated'
      BY <2>2, <2>5
    <3>2. \A t \in Spec : handleOf[t] # 0 /\ t \notin leftover => <<handleOf[t], "packed">> \in relocated'
      BY <2>2 DEF IInv, Relocations, Waiting
    <3>3. \A g \in Handle : functions'[g] # NoSpec /\ ~Cached(g)' => <<g, "packed">> \in relocated'
      BY <2>2, <2>3, <2>7, <3>1 DEF IInv, Relocations, Cached
    <3> QED
      BY <2>2, <2>3, <3>2, <3>3 DEF IInv, Relocations, Waiting
  <2>12. LinksLead'
    <3>1. \A l \in links[h] : l[1] \in Linker
      <4> DEFINE c == <<h, "packed">>
      <4>1. c \in ToSet(toFinalize)
        BY <2>5
      <4>2. Resolves(c)
        <5> HIDE DEF c
        <5> QED
          BY <1>3, <4>1 DEF ToSet
      <4>3. <<h, "entry">> \notin defined
        BY <2>5 DEF IInv, CodeOwned
      <4> QED
        BY <2>5, <4>2, <4>3 DEF Resolves
    <3>2. ASSUME NEW g \in Handle, functions'[g] # NoSpec, NEW l \in links[g]
          PROVE  IF l[2] = 0 THEN l[1] \in Linker ELSE l[2] \in Handle /\ functions'[l[2]] # NoSpec
      <4>1. CASE g = h
        BY <2>5, <3>1, <3>2, <4>1
      <4>2. CASE g # h
        BY <2>7, <3>2, <4>2 DEF IInv, LinksLead
      <4> QED
        BY <4>1, <4>2
    <3> QED
      BY <2>3, <3>2 DEF LinksLead
  <2>13. JobOK'
    BY <2>3, <2>5 DEF JobOK, Idle
  <2> QED
    BY <2>8, <2>9, <2>10, <2>11, <2>12, <2>13 DEF IInv
<1> QED
  BY <1>2, <1>3

LEMMA Stutters ==
  ASSUME IInv, UNCHANGED vars
  PROVE  IInv'
<1>1. JobOK'
  BY DEF IInv, JobOK, Begun, UnitHandles, vars, cache, code
<1>2. hits' \in 0..MaxCount /\ job' \in Jobs
  BY DEF IInv, Types, vars
<1> QED
  BY <1>1, <1>2, RequestFrame DEF vars

LEMMA StepKeeps == IInv /\ [Next]_vars => IInv'
BY RequestsKeep, DeclareKeeps, BeginBodiesKeeps, DefineBodyKeeps, DefineUncachedKeeps,
   FinishUnitKeeps, FinishUncachedKeeps, Stutters DEF Next, Step

LEMMA Invariant == JitSpec => []IInv
BY InitIInv, StepKeeps, PTL DEF JitSpec

-----------------------------------------------------------------------------
(* What the runs check, for every set of specs, units and bounds.           *)

(* The state of the JIT stays within its types: handles never pass their    *)
(* limit, whatever units are compiled and however they fail.                *)
THEOREM JitTypes == JitSpec => []TypeOK
<1>1. IInv => TypeOK
  BY Elements DEF IInv, Types, Jobs, TypeOK
<1> QED
  BY <1>1, Invariant, PTL

(* A callable handle has the machine code it needs, and its direct calls    *)
(* lead to callable handles or to symbols the linker knows.                 *)
THEOREM HandlesCallable == JitSpec => []CallSafe
<1>1. ASSUME IInv PROVE CallSafe
  <2>1. ASSUME NEW h \in Handle, functions[h] # NoSpec, Cached(h)
        PROVE  /\ functions[h] \in ready /\ <<h, "body">> \in relocated
               /\ functions[h] \notin leftover => <<h, "packed">> \in relocated
    <3>1. functions[h] \in Spec /\ handleOf[functions[h]] = h /\ h # 0
      BY <1>1, <2>1 DEF IInv, Types, Cached, Handle
    <3>2. functions[h] \in ready
      BY <1>1, <2>1, <3>1 DEF IInv, HandlesUnique
    <3> QED
      BY <1>1, <3>1, <3>2 DEF IInv, Relocations
  <2>2. \A h \in Handle : functions[h] # NoSpec /\ ~Cached(h) => <<h, "packed">> \in relocated
    BY <1>1 DEF IInv, Relocations
  <2>3. \A h \in Handle : functions[h] # NoSpec =>
          \A l \in links[h] : IF l[2] = 0 THEN l[1] \in Linker ELSE functions[l[2]] # NoSpec
    BY <1>1 DEF IInv, LinksLead
  <2> QED
    BY <2>1, <2>2, <2>3 DEF CallSafe
<1> QED
  BY <1>1, Invariant, PTL

(* No name of a unit stays bound once the unit is over, by success, error   *)
(* or panic.                                                                *)
THEOREM NamesAreForgotten == JitSpec => []NamesForgotten
<1>1. IInv => NamesForgotten
  BY DEF IInv, JobOK, NamesForgotten
<1> QED
  BY <1>1, Invariant, PTL

(* A handle once callable keeps its function, its code, its links and, if   *)
(* cached, the body in its cell: what is compiled, fails or is dumped later *)
(* never takes them away.                                                   *)
Kept ==
  \A h \in Handle : functions[h] # NoSpec =>
    /\ functions'[h] = functions[h]
    /\ links'[h] = links[h]
    /\ Cached(h) => functions[h] \in ready'

LEMMA RequestsTouchNoCode ==
  ASSUME Request
  PROVE  UNCHANGED <<ready, functions, links, handleOf, misses>>
<1>1. ASSUME NEW s \in Spec, CompileFunction(s) PROVE UNCHANGED <<ready, functions, links, handleOf, misses>>
  BY <1>1 DEF CompileFunction, cache, code
<1>2. ASSUME NEW u, CompileModule(u) PROVE UNCHANGED <<ready, functions, links, handleOf, misses>>
  BY <1>2 DEF CompileModule, cache, code
<1>3. ASSUME NEW s \in Spec, CompileUnoptimized(s) PROVE UNCHANGED <<ready, functions, links, handleOf, misses>>
  BY <1>3 DEF CompileUnoptimized, code
<1>4. ASSUME NEW s \in Spec, CompileSourceCode(s) \/ CompileSourceUnoptimized(s)
      PROVE  UNCHANGED <<ready, functions, links, handleOf, misses>>
  BY <1>1, <1>2, <1>3, <1>4 DEF CompileSourceCode, CompileSourceUnoptimized, cache, code
<1>5. ASSUME NEW u, NEW n, CompileEntry(u, n) PROVE UNCHANGED <<ready, functions, links, handleOf, misses>>
  BY <1>5 DEF CompileEntry, cache, code
<1>6. ASSUME NEW h, NEW a, Call(h, a) PROVE UNCHANGED <<ready, functions, links, handleOf, misses>>
  BY <1>6 DEF Call, cache, code
<1>7. ASSUME NEW s \in Spec, DumpDisasm(s) \/ DumpDisasmUnoptimized(s)
      PROVE  UNCHANGED <<ready, functions, links, handleOf, misses>>
  BY <1>7, DumpListed DEF Listed, cache, code
<1> QED
  BY <1>1, <1>2, <1>3, <1>4, <1>5, <1>6, <1>7 DEF Request

THEOREM HandlesAreKept == JitSpec => HandlesStay
<1>1. ASSUME IInv, UNCHANGED <<functions, links>>, ready \subseteq ready'
      PROVE  Kept
  <2>1. ASSUME NEW h \in Handle, functions[h] # NoSpec, Cached(h) PROVE functions[h] \in ready
    <3>1. functions[h] \in Spec /\ handleOf[functions[h]] = h /\ h # 0
      BY <1>1, <2>1 DEF IInv, Types, Cached, Handle
    <3> QED
      BY <1>1, <2>1, <3>1 DEF IInv, HandlesUnique
  <2> QED
    BY <1>1, <2>1 DEF Kept
<1>2. ASSUME IInv, UNCHANGED ready, UNCHANGED functions, NEW g \in Handle, functions[g] = NoSpec,
             NEW made, links' = [links EXCEPT ![g] = made]
      PROVE  Kept
  <2>1. \A h \in Handle : functions[h] # NoSpec => links'[h] = links[h]
    BY <1>2 DEF IInv, Types
  <2>2. ASSUME NEW h \in Handle, functions[h] # NoSpec, Cached(h) PROVE functions[h] \in ready
    <3>1. functions[h] \in Spec /\ handleOf[functions[h]] = h /\ h # 0
      BY <1>2, <2>2 DEF IInv, Types, Cached, Handle
    <3> QED
      BY <1>2, <2>2, <3>1 DEF IInv, HandlesUnique
  <2> QED
    BY <1>2, <2>1, <2>2 DEF Kept
<1>3. ASSUME IInv, UNCHANGED links, ready \subseteq ready',
             \A h \in Handle : functions[h] # NoSpec => functions'[h] = functions[h]
      PROVE  Kept
  <2>1. ASSUME NEW h \in Handle, functions[h] # NoSpec, Cached(h) PROVE functions[h] \in ready
    <3>1. functions[h] \in Spec /\ handleOf[functions[h]] = h /\ h # 0
      BY <1>3, <2>1 DEF IInv, Types, Cached, Handle
    <3> QED
      BY <1>3, <2>1, <3>1 DEF IInv, HandlesUnique
  <2> QED
    BY <1>3, <2>1 DEF Kept
<1>4. ASSUME IInv, Request \/ Declare \/ BeginBodies PROVE Kept
  <2>1. UNCHANGED <<ready, functions, links>>
    BY <1>4, RequestsTouchNoCode DEF Declare, BeginBodies, code
  <2> QED
    BY <1>1, <1>4, <2>1
<1>5. ASSUME IInv, NEW s, NEW g \in Handle, NEW part, functions[g] = NoSpec, Define(s, g, part),
             UNCHANGED <<ready, functions>>
      PROVE  Kept
  <2>1. CASE UNCHANGED code
    BY <1>1, <1>5, <2>1 DEF code
  <2>2. CASE links' = [links EXCEPT ![g] = {Link(n) : n \in Calls[s]}]
    BY <1>2, <1>5, <2>2
  <2> QED
    BY <1>5, <2>1, <2>2 DEF Define
<1>6. ASSUME IInv, DefineBody PROVE Kept
  <2> DEFINE s == job.unit[job.at]
  <2>1. job.pc = "define" /\ job.at <= Len(job.unit) /\ UNCHANGED <<ready, functions>>
    BY <1>6 DEF DefineBody
  <2>2. job.unit \in Seq(Spec) /\ job.at \in Nat /\ job.at >= 1 /\ handleOf \in [Spec -> 0..MaxHandle]
    BY <1>6, <2>1 DEF IInv, Types, Jobs, JobOK
  <2>3. job.at \in DOMAIN job.unit /\ s \in Spec
    BY <2>1, <2>2, Elements
  <2>4. CASE s \notin Pending
    <3>1. UNCHANGED code
      BY <1>6, <2>4 DEF DefineBody
    <3> QED
      BY <1>1, <1>6, <2>1, <3>1 DEF code
  <2>5. CASE s \in Pending
    <3>1. Define(s, handleOf[s], "body") /\ s \notin ready
      BY <1>6, <2>5 DEF DefineBody, Pending
    <3>2. handleOf[s] # 0
      BY <1>6, <2>1, <2>3 DEF IInv, JobOK
    <3>3. handleOf[s] \in Handle /\ functions[handleOf[s]] = NoSpec
      BY <1>6, <2>2, <2>3, <3>1, <3>2, JitAssumption DEF IInv, HandlesUnique, Handle
    <3> QED
      BY <1>5, <1>6, <2>1, <3>1, <3>3
  <2> QED
    BY <2>4, <2>5
<1>7. ASSUME IInv, DefineUncached PROVE Kept
  <2>1. /\ job.handles \in Seq(Handle) /\ Len(job.handles) = 1 /\ functions[job.handles[1]] = NoSpec
        /\ Define(job.unit[1], job.handles[1], "packed") /\ UNCHANGED <<ready, functions>>
    BY <1>7 DEF DefineUncached, IInv, Types, Jobs, JobOK
  <2>2. job.handles[1] \in Handle
    BY <2>1, Elements
  <2> QED
    BY <1>5, <1>7, <2>1, <2>2
<1>8. ASSUME IInv, FinishUnit PROVE Kept
  <2>1. UNCHANGED links /\ (UNCHANGED <<functions, ready>> \/ PublishUnit)
    BY <1>8 DEF FinishUnit, Finalize
  <2>2. CASE UNCHANGED <<functions, ready>>
    BY <1>1, <1>8, <2>1, <2>2
  <2>3. CASE PublishUnit
    <3>1. ready \subseteq ready'
      BY <2>3 DEF PublishUnit
    <3>2. ASSUME NEW h \in Handle, functions[h] # NoSpec PROVE functions'[h] = functions[h]
      <4>1. ~\E s \in Pending : handleOf[s] = h
        <5>1. \A s \in Pending : s \in Spec /\ s \notin ready
          BY <1>8, Elements DEF Pending, IInv, Types, Jobs
        <5>2. h # 0
          BY DEF Handle
        <5> QED
          BY <1>8, <3>2, <5>1, <5>2 DEF IInv, HandlesUnique
      <4> QED
        BY <2>3, <4>1 DEF PublishUnit
    <3> QED
      BY <1>3, <1>8, <2>1, <3>1, <3>2
  <2> QED
    BY <2>1, <2>2, <2>3
<1>9. ASSUME IInv, FinishUncached PROVE Kept
  <2>1. UNCHANGED links /\ (UNCHANGED <<functions, ready>> \/ PublishUncached)
    BY <1>9 DEF FinishUncached, Finalize
  <2>2. CASE UNCHANGED <<functions, ready>>
    BY <1>1, <1>9, <2>1, <2>2
  <2>3. CASE PublishUncached
    <3>1. UNCHANGED ready /\ functions' = [functions EXCEPT ![job.handles[1]] = job.unit[1]]
      BY <2>3 DEF PublishUncached
    <3>2. functions[job.handles[1]] = NoSpec
      BY <1>9 DEF FinishUncached, IInv, JobOK
    <3>3. \A h \in Handle : functions[h] # NoSpec => functions'[h] = functions[h]
      BY <1>9, <3>1, <3>2 DEF IInv, Types
    <3> QED
      BY <1>3, <1>9, <2>1, <3>1, <3>3
  <2> QED
    BY <2>1, <2>2, <2>3
<1>10. IInv /\ [Next]_vars => [Kept]_vars
  BY <1>4, <1>6, <1>7, <1>8, <1>9 DEF Next, Step
<1>11. JitSpec => [][Kept]_vars
  BY <1>10, Invariant, PTL DEF JitSpec
<1> QED
  BY <1>11 DEF HandlesStay, Kept

(* The number of compile misses is the number of records, up to the         *)
(* saturation of the counter.                                               *)
THEOREM MissesCounted == JitSpec => []MissesAreRecords
<1> DEFINE Records == {s \in Spec : handleOf[s] # 0}
           n == Cardinality(Records)
<1>1. IsFiniteSet(Records) /\ n \in Nat
  BY SpecAssumption, FS_Subset, FS_CardinalityType
<1>2. Init => MissesAreRecords
  <2> SUFFICES ASSUME Init PROVE MissesAreRecords
    OBVIOUS
  <2>1. Records = {} /\ misses = 0
    BY DEF Init
  <2>2. n = 0
    <3> HIDE DEF Records
    <3> QED
      BY <2>1, FS_EmptySet
  <2> QED
    BY <2>1, <2>2, JitAssumption DEF MissesAreRecords
<1>3. ASSUME IInv, MissesAreRecords, [Next]_vars PROVE MissesAreRecords'
  <2>1. ASSUME UNCHANGED <<handleOf, misses>> PROVE MissesAreRecords'
    BY <1>3, <2>1 DEF MissesAreRecords
  <2>2. CASE Declare
    <3> DEFINE s == job.unit[job.at]
    <3>1. UNCHANGED <<handleOf, misses>> \/ (handleOf[s] = 0 /\ DeclareRecord(s))
      BY <2>2 DEF Declare, FindRecord, cache
    <3>2. CASE handleOf[s] = 0 /\ DeclareRecord(s)
      <4>1. /\ handleOf' = [handleOf EXCEPT ![s] = nextHandle] /\ misses' = Saturating(misses)
            /\ nextHandle # 0 /\ handleOf \in [Spec -> 0..MaxHandle]
        BY <1>3, <3>2 DEF DeclareRecord, IInv, Types, Handle
      <4>2. s \in Spec
        <5>1. job.unit \in Seq(Spec) /\ job.at \in Nat /\ job.at >= 1 /\ job.at <= Len(job.unit)
          BY <1>3, <2>2 DEF Declare, IInv, Types, Jobs, JobOK
        <5>2. job.at \in DOMAIN job.unit
          BY <5>1, Elements
        <5> QED
          BY <5>1, <5>2, Elements
      <4>3. {t \in Spec : handleOf'[t] # 0} = Records \cup {s} /\ s \notin Records
        BY <3>2, <4>1, <4>2
      <4>4. Cardinality({t \in Spec : handleOf'[t] # 0}) = n + 1
        <5> HIDE DEF Records
        <5> QED
          BY <1>1, <4>3, FS_AddElement
      <4> QED
        BY <1>1, <1>3, <4>1, <4>4, JitAssumption DEF MissesAreRecords, Saturating
    <3> QED
      BY <2>1, <3>1, <3>2
  <2>3. CASE Request
    BY <2>1, <2>3, RequestsTouchNoCode
  <2>4. CASE BeginBodies \/ DefineBody \/ DefineUncached
    BY <2>1, <2>4 DEF BeginBodies, DefineBody, DefineUncached, cache
  <2>5. CASE FinishUnit \/ FinishUncached
    BY <2>1, <2>5 DEF FinishUnit, FinishUncached, Finalize, cache
  <2>6. CASE UNCHANGED vars
    BY <2>1, <2>6 DEF vars, cache
  <2> QED
    BY <1>3, <2>2, <2>3, <2>4, <2>5, <2>6 DEF Next, Step
<1> QED
  BY <1>2, <1>3, Invariant, PTL DEF JitSpec


(* What a unit in progress and its answer have to do with each other.       *)
Optimal(us) == \A k \in DOMAIN us : \E s \in Spec : us[k] = Optimized[s]
InUnit == job.pc \in {"declare", "define"}
Progress ==
  /\ InUnit => DistinctNames(job.unit) /\ Optimal(job.unit)
  /\ job.pc # "idle" => answer.outcome = "none"

(* As long as no unit has failed: a record has an entry; only a ready body   *)
(* or one of the unit in progress has been defined; what waits for the       *)
(* finalization belongs to the request in progress; and the links of the     *)
(* bodies that wait are calls of theirs, outside only when no function of    *)
(* the unit has the name.                                                    *)
Entered == \A s \in Spec : handleOf[s] # 0 => <<handleOf[s], "entry">> \in defined
Begins(k) == job.pc = "define" /\ k < job.at
BodyMade ==
  \A s \in Spec : handleOf[s] # 0 /\ <<handleOf[s], "body">> \in defined =>
    s \in ready \/ \E k \in DOMAIN job.unit : Begins(k) /\ job.unit[k] = s
OfUnit(c) ==
  /\ InUnit
  /\ \E k \in DOMAIN job.unit : /\ handleOf[job.unit[k]] = c[1] /\ job.unit[k] \notin ready
                                /\ c[2] = "body" => Begins(k)
OfSingle(c) == job.pc = "uncached" /\ job.at = 2 /\ c = <<job.handles[1], "packed">>
QueueOwned == \A c \in ToSet(toFinalize) : OfUnit(c) \/ OfSingle(c)
LinksOf(k) ==
  \A l \in links[handleOf[job.unit[k]]] :
    l[1] \in Calls[job.unit[k]] /\ (l[2] = 0 => \A t \in ToSet(job.unit) : NameOf[t] # l[1])
UnitCalls == \A k \in DOMAIN job.unit : Begins(k) /\ job.unit[k] \notin ready => LinksOf(k)
SingleCalls ==
  job.pc = "uncached" =>
    /\ job.at = 1 => <<job.handles[1], "packed">> \notin defined
    /\ job.at = 2 => \A l \in links[job.handles[1]] : l[1] \in Calls[job.unit[1]]

Undisturbed ==
  leftover = {} => Entered /\ BodyMade /\ QueueOwned /\ UnitCalls /\ SingleCalls

FInv == Progress /\ Undisturbed /\ FailuresExplained

(* A name means one function, and none of the linker's.                      *)
NamesMean ==
  /\ \A s, t \in Spec : NameOf[s] = NameOf[t] => Optimized[s] = Optimized[t]
  /\ \A s \in Spec : NameOf[s] \notin Linker

Leads(s, n) ==
  \E l \in links[handleOf[s]] :
    l = <<n, l[2]>> /\ (l[2] # 0 => \E t \in Spec : handleOf[t] = l[2] /\ NameOf[t] = n)
LeadsOn(s, n) ==
  \E l \in links[handleOf[s]] :
    /\ l = <<n, l[2]>>
    /\ l[2] # 0 => \E t \in Spec : handleOf[t] = l[2] /\ NameOf[t] = n
    /\ l[2] = 0 => n \in Linker
ReadyLinked == \A s \in ready : \A n \in Calls[s] : LeadsOn(s, n)
BegunLinked ==
  \A k \in DOMAIN job.unit : Begins(k) /\ job.unit[k] \notin ready =>
    \A n \in Calls[job.unit[k]] : Leads(job.unit[k], n)
RecordsOptimal == \A s \in Spec : handleOf[s] # 0 => \E t \in Spec : s = Optimized[t]
HandlesOf ==
  /\ job.pc = "declare" => Len(job.handles) = job.at - 1 /\ job.at <= Len(job.unit) + 1
  /\ job.pc = "define" => Len(job.handles) = Len(job.unit)
  /\ InUnit => \A k \in DOMAIN job.handles : k <= Len(job.unit) /\ job.handles[k] = handleOf[job.unit[k]]
LInv == Progress /\ RecordsOptimal /\ ReadyLinked /\ BegunLinked /\ HandlesOf /\ UnitLinks

-----------------------------------------------------------------------------
(* The steps, as these invariants see them.                                 *)

Refused == {"bad body", "declared otherwise", "defined already", "unresolved"}
Asked ==
  \/ /\ UNCHANGED job
     /\ answer'.outcome \notin Refused \/ FailuresExplained'
     /\ answer'.outcome = "ok" => answer'.handles = <<>>
  \/ /\ answer' = NoAnswer
     /\ \E us \in Seq(Spec) : /\ DistinctNames(us) /\ Optimal(us)
                              /\ job' = [pc |-> "declare", unit |-> us, handles |-> <<>>, at |-> 1]
  \/ /\ answer' = NoAnswer
     /\ \E s \in Spec : job' = [pc |-> "uncached", unit |-> <<s>>, handles |-> <<nextHandle>>, at |-> 1]

(* Optimised units are made of optimised functions.                         *)
LEMMA UnitsOptimal ==
  ASSUME NEW us \in Seq(Spec)
  PROVE  Optimal(Optimize(us))
<1>1. \A k \in DOMAIN us : us[k] \in Spec
  BY Elements
<1>2. DOMAIN Optimize(us) = DOMAIN us /\ \A k \in DOMAIN us : Optimize(us)[k] = Optimized[us[k]]
  BY DEF Optimize
<1> QED
  BY <1>1, <1>2 DEF Optimal

LEMMA AnswerMade ==
  ASSUME NEW o, NEW us, NEW hs, Answer(o, us, hs)
  PROVE  /\ answer'.outcome = o /\ answer'.unit = us /\ answer'.handles = hs
         /\ answer'.alone = (job.pc = "uncached") /\ answer'.clean = (leftover = {})
BY DEF Answer

(* What a request of the host changes.                                      *)
LEMMA RequestCases ==
  ASSUME Request
  PROVE  /\ job.pc = "idle" /\ Asked
         /\ UNCHANGED <<handleOf, ready, functions, code, hits, active, leftover>>
<1> DEFINE Frame == job.pc = "idle" /\ UNCHANGED <<handleOf, ready, functions, code, hits, active, leftover>>
           Asks == Frame /\ Asked
<1>1. ASSUME NEW us \in Seq(Spec), StartUnit(Optimize(us)) PROVE Asked
  <2>1. Optimize(us) \in Seq(Spec) /\ Optimal(Optimize(us))
    BY OptimizeIsUnit, UnitsOptimal
  <2>2. CASE DistinctNames(Optimize(us))
    <3>1. /\ answer' = NoAnswer
          /\ job' = [pc |-> "declare", unit |-> Optimize(us), handles |-> <<>>, at |-> 1]
      BY <1>1, <2>2 DEF StartUnit
    <3> QED
      BY <2>1, <2>2, <3>1 DEF Asked
  <2>3. CASE ~DistinctNames(Optimize(us))
    <3>1. Answer("duplicate name", Optimize(us), <<>>) /\ UNCHANGED job
      BY <1>1, <2>3 DEF StartUnit
    <3>2. answer'.outcome = "duplicate name"
      BY <3>1, AnswerMade
    <3> QED
      BY <3>1, <3>2 DEF Asked, Refused
  <2> QED
    BY <2>2, <2>3
<1>2. ASSUME NEW o, NEW us, NEW hs, Answer(o, us, hs), UNCHANGED job, o \notin Refused, o = "ok" => hs = <<>>
      PROVE  Asked
  <2>1. answer'.outcome = o /\ answer'.handles = hs
    BY <1>2, AnswerMade
  <2> QED
    BY <1>2, <2>1 DEF Asked
<1>3. ASSUME NEW s \in Spec PROVE <<s>> \in Seq(Spec)
  OBVIOUS
<1>4. ASSUME NEW s \in Spec, CompileFunction(s) PROVE Asks
  <2>1. Frame /\ StartUnit(Optimize(<<s>>))
    BY <1>4 DEF CompileFunction, cache
  <2> QED
    BY <1>1, <1>3, <2>1
<1>5. ASSUME NEW us \in Seq(Spec), CompileModule(us) PROVE Asks
  <2>1. Frame
    BY <1>5 DEF CompileModule, cache
  <2>2. CASE us = <<>>
    <3>1. Answer("ok", us, <<>>) /\ UNCHANGED job
      BY <1>5, <2>2 DEF CompileModule
    <3> QED
      BY <1>2, <2>1, <3>1 DEF Refused
  <2>3. CASE us # <<>>
    BY <1>1, <1>5, <2>1, <2>3 DEF CompileModule
  <2> QED
    BY <2>2, <2>3
<1>6. ASSUME NEW us \in Seq(Spec), NEW n, CompileEntry(us, n) PROVE Asks
  <2>1. Frame
    BY <1>6 DEF CompileEntry, cache
  <2>2. \/ Answer("duplicate name", us, <<>>) /\ UNCHANGED job
        \/ Answer("unknown entry", us, <<>>) /\ UNCHANGED job
        \/ StartUnit(Optimize(EntryClosure(us, n)))
    BY <1>6 DEF CompileEntry
  <2>3. EntryClosure(us, n) \in Seq(Spec)
    BY OrderedIsSequence DEF EntryClosure
  <2>4. "duplicate name" \notin Refused /\ "unknown entry" \notin Refused
    BY DEF Refused
  <2>5. CASE StartUnit(Optimize(EntryClosure(us, n)))
    BY <1>1, <2>1, <2>3, <2>5
  <2>6. CASE Answer("duplicate name", us, <<>>) /\ UNCHANGED job
    BY <1>2, <2>1, <2>4, <2>6
  <2>7. CASE Answer("unknown entry", us, <<>>) /\ UNCHANGED job
    BY <1>2, <2>1, <2>4, <2>7
  <2> QED
    BY <2>2, <2>5, <2>6, <2>7
<1>7. ASSUME NEW s \in Spec, CompileUnoptimized(s) PROVE Asks
  <2>1. Frame
    BY <1>7 DEF CompileUnoptimized, cache
  <2>2. CASE nextHandle = MaxHandle
    <3>1. Answer("overflow", <<s>>, <<>>) /\ UNCHANGED job
      BY <1>7, <2>2 DEF CompileUnoptimized
    <3> QED
      BY <1>2, <2>1, <3>1 DEF Refused
  <2>3. CASE nextHandle # MaxHandle
    BY <1>7, <2>1, <2>3 DEF CompileUnoptimized, Asked
  <2> QED
    BY <2>2, <2>3
<1>8. ASSUME NEW s \in Spec, CompileSourceCode(s) PROVE Asks
  BY <1>3, <1>4, <1>5, <1>8 DEF CompileSourceCode
<1>9. ASSUME NEW s \in Spec, CompileSourceUnoptimized(s) PROVE Asks
  <2>1. CASE HasDirectCall(s)
    <3>1. Answer("direct calls", <<s>>, <<>>) /\ UNCHANGED job /\ Frame
      BY <1>9, <2>1 DEF CompileSourceUnoptimized, cache
    <3> QED
      BY <1>2, <3>1 DEF Refused
  <2> QED
    BY <1>7, <1>9, <2>1 DEF CompileSourceUnoptimized
<1>10. ASSUME NEW s \in Spec, DumpDisasm(s) \/ DumpDisasmUnoptimized(s) PROVE Asks
  <2>1. PICK t \in Spec : Listed(t)
    BY <1>10, DumpListed
  <2>2. Frame /\ UNCHANGED job
    BY <2>1 DEF Listed, cache
  <2>3. PICK o \in {"ok", "bad body", "declared otherwise"} :
          /\ Answer(o, <<t>>, <<>>)
          /\ o = "bad body" => t \in Bad \/ Miscalls(t, {t})
          /\ o = "declared otherwise" => Clash(t, {t})
    BY <2>1 DEF Listed
  <2>4. /\ answer'.outcome = o /\ answer'.unit = <<t>> /\ answer'.handles = <<>>
        /\ answer'.alone = FALSE
    BY <2>2, <2>3, AnswerMade
  <2>5. ToSet(<<t>>) = {t}
    BY <2>1, Single
  <2>6. FailuresExplained'
    <3> DEFINE bound == IF answer'.alone THEN {} ELSE ToSet(answer'.unit)
    <3>1. bound = {t} /\ t \in ToSet(answer'.unit)
      BY <2>4, <2>5
    <3>2. o = "bad body" => \E r \in ToSet(answer'.unit) : r \in Bad \/ Miscalls(r, bound)
      BY <2>3, <3>1
    <3>3. o = "declared otherwise" =>
            \E r \in ToSet(answer'.unit) : \E c \in Outside(r, bound), d \in imports' : c[1] = d[1] /\ c[2] # d[2]
      BY <2>3, <3>1 DEF Clash
    <3> QED
      BY <2>3, <2>4, <3>2, <3>3 DEF FailuresExplained
  <2> QED
    BY <2>2, <2>4, <2>6 DEF Asked
<1>11. ASSUME NEW h, NEW a, Call(h, a) PROVE Asks
  <2>1. Frame /\ UNCHANGED job
    BY <1>11 DEF Call, cache
  <2>2. answer'.outcome \in {"unknown handle", "wrong arity", "lost", "trap", "ran"}
    BY <1>11 DEF Call, Answer, Run
  <2> QED
    BY <2>1, <2>2 DEF Asked, Refused
<1>12. Asks
  <2> HIDE DEF Asks
  <2> QED
    BY <1>4, <1>5, <1>6, <1>7, <1>8, <1>9, <1>10, <1>11, JitAssumption DEF Request
<1> QED
  BY <1>12


-----------------------------------------------------------------------------
(* Why a unit is refused: the invariant of FailuresExplained is kept.       *)

LEMMA JobShape ==
  ASSUME IInv
  PROVE  /\ job \in Jobs /\ job.unit \in Seq(Spec) /\ job.handles \in Seq(Handle) /\ job.at \in Nat
         /\ DOMAIN job.unit = 1..Len(job.unit) /\ Len(job.unit) \in Nat
         /\ \A k \in DOMAIN job.unit : job.unit[k] \in Spec /\ job.unit[k] \in ToSet(job.unit)
         /\ ToSet(job.unit) \subseteq Spec
         /\ toFinalize \in Seq(Code) /\ \A c \in ToSet(toFinalize) : c \in Code /\ c[1] # 0
         /\ defined \subseteq Code /\ handleOf \in [Spec -> 0..MaxHandle]
<1>1. job \in Jobs /\ toFinalize \in Seq(Code) /\ defined \subseteq Code /\ handleOf \in [Spec -> 0..MaxHandle]
  BY DEF IInv, Types
<1>2. job.unit \in Seq(Spec) /\ job.handles \in Seq(Handle) /\ job.at \in Nat
  BY <1>1 DEF Jobs
<1>3. \A c \in Code : c[1] # 0
  BY DEF Code, Handle
<1>4. ToSet(toFinalize) \subseteq Code
  BY <1>1, Elements
<1> QED
  BY <1>1, <1>2, <1>3, <1>4, Elements

(* A failure leaves no open record behind only when the unit made none.     *)
LEMMA FailedKeepsF ==
  ASSUME IInv, FInv, job.pc # "idle", NEW o, Fail(o),
         UNCHANGED <<handleOf, ready, links, defined>>,
         toFinalize' = <<>> \/ (toFinalize' = toFinalize /\ ~(job.pc = "uncached" /\ job.at = 2)),
         FailuresExplained'
  PROVE  FInv'
<1>1. job' = Idle /\ leftover' = leftover \cup {s \in ToSet(job.unit) : handleOf[s] # 0 /\ s \notin ready}
  BY DEF Fail
<1>2. Progress'
  BY <1>1 DEF Progress, InUnit, Idle
<1>3. ASSUME leftover' = {} PROVE Entered' /\ BodyMade' /\ QueueOwned' /\ UnitCalls' /\ SingleCalls'
  <2>1. leftover = {} /\ \A s \in ToSet(job.unit) : handleOf[s] = 0 \/ s \in ready
    BY <1>1, <1>3
  <2>2. Entered /\ BodyMade /\ QueueOwned
    BY <2>1 DEF FInv, Undisturbed
  <2>3. \A s \in Spec : handleOf[s] # 0 /\ <<handleOf[s], "body">> \in defined => s \in ready
    BY <2>1, <2>2, JobShape DEF BodyMade
  <2>4. ToSet(toFinalize') = {}
    <3>1. ASSUME NEW c \in ToSet(toFinalize), OfUnit(c) PROVE FALSE
      <4>1. PICK k \in DOMAIN job.unit : handleOf[job.unit[k]] = c[1] /\ job.unit[k] \notin ready
        BY <3>1 DEF OfUnit
      <4> QED
        BY <2>1, <4>1, JobShape
    <3>2. ~(job.pc = "uncached" /\ job.at = 2) => ToSet(toFinalize) = {}
      BY <2>2, <3>1 DEF QueueOwned, OfSingle
    <3>3. ToSet(<<>>) = {}
      BY DEF ToSet
    <3> QED
      BY <3>2, <3>3
  <2>5. job'.pc = "idle"
    BY <1>1 DEF Idle
  <2> QED
    BY <2>2, <2>3, <2>4, <2>5 DEF Entered, BodyMade, QueueOwned, UnitCalls, SingleCalls, Begins
<1> QED
  BY <1>2, <1>3 DEF FInv, Undisturbed

(* A request in progress has not answered yet.                              *)
LEMMA Unanswered ==
  ASSUME Progress, job.pc # "idle", UNCHANGED answer
  PROVE  FailuresExplained'
<1>1. answer'.outcome = "none"
  BY DEF Progress
<1> QED
  BY <1>1 DEF FailuresExplained

LEMMA RequestsKeepF ==
  ASSUME IInv, FInv, Request
  PROVE  FInv'
<1>1. /\ job.pc = "idle" /\ Asked
      /\ UNCHANGED <<handleOf, ready, functions, code, hits, active, leftover>>
  BY RequestCases
<1>2. UNCHANGED <<defined, toFinalize, links>>
  BY <1>1 DEF code
<1>3. FailuresExplained' /\ Progress'
  <2>1. "none" \notin Refused
    BY DEF Refused
  <2>2. (answer'.outcome \notin Refused \/ FailuresExplained') /\ (answer'.outcome = "none" \/ UNCHANGED job)
    BY <1>1, <2>1 DEF Asked, NoAnswer
  <2>3. FailuresExplained'
    BY <2>2 DEF FailuresExplained, Refused
  <2>4. CASE UNCHANGED job
    BY <1>1, <2>3, <2>4 DEF Progress, InUnit
  <2>5. CASE answer' = NoAnswer /\ \E us \in Seq(Spec) :
               /\ DistinctNames(us) /\ Optimal(us)
               /\ job' = [pc |-> "declare", unit |-> us, handles |-> <<>>, at |-> 1]
    <3>1. PICK us : /\ DistinctNames(us) /\ Optimal(us)
                    /\ job' = [pc |-> "declare", unit |-> us, handles |-> <<>>, at |-> 1]
      BY <2>5
    <3>2. job'.unit = us /\ answer'.outcome = "none"
      BY <2>5, <3>1 DEF NoAnswer
    <3>3. DistinctNames(job'.unit) /\ Optimal(job'.unit)
      BY <3>1, <3>2
    <3> QED
      BY <2>3, <3>2, <3>3 DEF Progress, DistinctNames, Optimal
  <2>6. CASE answer' = NoAnswer /\ \E s \in Spec :
               job' = [pc |-> "uncached", unit |-> <<s>>, handles |-> <<nextHandle>>, at |-> 1]
    <3>1. job'.pc = "uncached" /\ answer'.outcome = "none"
      BY <2>6 DEF NoAnswer
    <3> QED
      BY <2>3, <3>1 DEF Progress, InUnit
  <2>7. Progress'
    BY <1>1, <2>4, <2>5, <2>6 DEF Asked
  <2> QED
    BY <2>3, <2>7
<1>4. ASSUME leftover = {} PROVE Entered' /\ BodyMade' /\ QueueOwned' /\ UnitCalls' /\ SingleCalls'
  <2>1. Entered /\ BodyMade /\ QueueOwned
    BY <1>4 DEF FInv, Undisturbed
  <2>2. ToSet(toFinalize) = {}
    BY <1>1, <2>1 DEF QueueOwned, OfUnit, OfSingle, InUnit
  <2>3. \A s \in Spec : handleOf[s] # 0 /\ <<handleOf[s], "body">> \in defined => s \in ready
    BY <1>1, <2>1 DEF BodyMade, Begins
  <2>4. job'.pc # "define"
    BY <1>1 DEF Asked
  <2>5. job'.pc = "uncached" => job'.handles[1] = nextHandle /\ job'.at = 1
    BY <1>1 DEF Asked
  <2>6. <<nextHandle, "packed">> \notin defined
    <3>1. ~(nextHandle < nextHandle)
      BY DEF IInv, Types, Handle
    <3> QED
      BY <3>1 DEF IInv, CodeOwned
  <2> QED
    BY <1>1, <1>2, <2>1, <2>2, <2>3, <2>4, <2>5, <2>6
       DEF Entered, BodyMade, QueueOwned, UnitCalls, SingleCalls, Begins
<1> QED
  BY <1>1, <1>3, <1>4 DEF FInv, Undisturbed

LEMMA DeclareKeepsF ==
  ASSUME IInv, FInv, Declare
  PROVE  FInv'
<1> DEFINE s == job.unit[job.at]
<1>1. /\ job.pc = "declare" /\ job.at <= Len(job.unit) /\ job.at >= 1
      /\ UNCHANGED <<ready, functions, relocated, links>>
  BY DEF Declare, IInv, JobOK
<1>2. job.at \in DOMAIN job.unit /\ s \in Spec /\ job \in Jobs
  BY <1>1, JobShape
<1>3. ASSUME NEW h, job' = [job EXCEPT !.handles = Append(@, h), !.at = @ + 1], UNCHANGED answer
      PROVE  /\ job'.pc = "declare" /\ job'.unit = job.unit /\ job'.at = job.at + 1
             /\ Progress' /\ FailuresExplained'
  <2>1. job' = [pc |-> job.pc, unit |-> job.unit, handles |-> Append(job.handles, h), at |-> job.at + 1]
    BY <1>2, <1>3 DEF Jobs
  <2>2. job'.pc = "declare" /\ job'.unit = job.unit /\ job'.at = job.at + 1
    BY <1>1, <2>1
  <2> QED
    BY <1>1, <1>3, <2>2, Unanswered DEF FInv, Progress, InUnit, DistinctNames, Optimal
<1>4. CASE handleOf[s] # 0
  <2>1. FindRecord(s)
    BY <1>4 DEF Declare
  <2>2. /\ job' = [job EXCEPT !.handles = Append(@, handleOf[s]), !.at = @ + 1]
        /\ UNCHANGED <<handleOf, defined, toFinalize, answer, leftover>>
    BY <2>1 DEF FindRecord, cache
  <2>3. job'.pc = "declare" /\ job'.unit = job.unit /\ Progress' /\ FailuresExplained'
    BY <1>3, <2>2
  <2> QED
    BY <1>1, <2>2, <2>3 DEF FInv, Undisturbed, Entered, BodyMade, QueueOwned, OfUnit, OfSingle, UnitCalls,
                            SingleCalls, Begins, InUnit
<1>5. CASE handleOf[s] = 0 /\ nextHandle = MaxHandle
  <2>1. Fail("overflow") /\ UNCHANGED <<cache, defined, toFinalize, hits>>
    BY <1>5 DEF Declare
  <2>2. answer'.outcome = "overflow"
    BY <2>1 DEF Fail, Answer
  <2>3. FailuresExplained'
    BY <2>2 DEF FailuresExplained
  <2> QED
    BY <1>1, <2>1, <2>3, FailedKeepsF DEF cache
<1>6. CASE handleOf[s] = 0 /\ nextHandle # MaxHandle
  <2> DEFINE entry == <<nextHandle, "entry">>
             packed == <<nextHandle, "packed">>
  <2>1. DeclareRecord(s)
    BY <1>6 DEF Declare
  <2>2. /\ handleOf' = [handleOf EXCEPT ![s] = nextHandle]
        /\ defined' = defined \cup {entry, packed}
        /\ toFinalize' = toFinalize \o <<entry, packed>>
        /\ job' = [job EXCEPT !.handles = Append(@, nextHandle), !.at = @ + 1]
        /\ UNCHANGED <<answer, leftover>>
    BY <2>1 DEF DeclareRecord
  <2>3. job'.pc = "declare" /\ job'.unit = job.unit /\ Progress' /\ FailuresExplained'
    BY <1>3, <2>2
  <2>4. /\ handleOf'[s] = nextHandle /\ \A t \in Spec : t # s => handleOf'[t] = handleOf[t]
    BY <1>2, <2>2, JobShape
  <2>5. ToSet(toFinalize') = ToSet(toFinalize) \cup {entry, packed}
    <3>1. entry \in Code /\ packed \in Code
      BY DEF Code, Part, IInv, Types
    <3>2. toFinalize \in Seq(Code)
      BY JobShape
    <3> HIDE DEF entry, packed
    <3> QED
      BY <2>2, <3>1, <3>2, PairAppended
  <2>6. nextHandle # 0 /\ <<nextHandle, "body">> \notin defined
    <3>1. nextHandle \in Int /\ ~(nextHandle < nextHandle) /\ nextHandle # 0
      BY DEF IInv, Types, Handle
    <3> QED
      BY <3>1 DEF IInv, CodeOwned
  <2>7. s \notin ready
    BY <1>6 DEF IInv, HandlesUnique
  <2>8. ASSUME leftover = {} PROVE Entered' /\ BodyMade' /\ QueueOwned' /\ UnitCalls' /\ SingleCalls'
    <3>1. Entered /\ BodyMade /\ QueueOwned
      BY <2>8 DEF FInv, Undisturbed
    <3>2. Entered'
      <4>1. entry \in defined' /\ defined \subseteq defined'
        BY <2>2
      <4>2. ASSUME NEW t \in Spec, handleOf'[t] # 0 PROVE <<handleOf'[t], "entry">> \in defined'
        BY <2>4, <3>1, <4>1, <4>2 DEF Entered
      <4> QED
        BY <4>2 DEF Entered
    <3>3. BodyMade'
      <4>1. ASSUME NEW t \in Spec, handleOf'[t] # 0, <<handleOf'[t], "body">> \in defined' PROVE t \in ready
        <5>1. <<handleOf'[t], "body">> \in defined
          BY <2>2, <4>1
        <5>2. t # s
          BY <2>4, <2>6, <5>1
        <5> QED
          BY <1>1, <2>4, <3>1, <4>1, <5>1, <5>2 DEF BodyMade, Begins
      <4> QED
        BY <1>1, <4>1 DEF BodyMade
    <3>4. QueueOwned'
      <4>1. ASSUME NEW c \in ToSet(toFinalize) PROVE OfUnit(c)'
        <5>1. OfUnit(c)
          BY <1>1, <3>1 DEF QueueOwned, OfSingle
        <5>2. PICK k \in DOMAIN job.unit : handleOf[job.unit[k]] = c[1] /\ job.unit[k] \notin ready /\ c[2] # "body"
          BY <1>1, <5>1 DEF OfUnit, Begins
        <5>3. job.unit[k] # s /\ job.unit[k] \in Spec
          BY <1>6, <5>2, JobShape
        <5> QED
          BY <1>1, <2>3, <2>4, <5>2, <5>3 DEF OfUnit, InUnit
      <4>2. ASSUME NEW c \in {entry, packed} PROVE OfUnit(c)'
        <5>1. c[1] = nextHandle /\ c[2] # "body"
          BY <4>2
        <5> QED
          BY <1>1, <1>2, <2>3, <2>4, <2>7, <5>1 DEF OfUnit, InUnit
      <4> QED
        BY <2>5, <4>1, <4>2 DEF QueueOwned
    <3> QED
      BY <2>3, <3>2, <3>3, <3>4 DEF UnitCalls, SingleCalls, Begins
  <2> QED
    BY <2>2, <2>3, <2>8 DEF FInv, Undisturbed
<1> QED
  BY <1>4, <1>5, <1>6 DEF Declare

LEMMA BeginBodiesKeepsF ==
  ASSUME IInv, FInv, BeginBodies
  PROVE  FInv'
<1>1. /\ job.pc = "declare" /\ job.at > Len(job.unit)
      /\ UNCHANGED <<handleOf, ready, defined, toFinalize, links, leftover>>
  BY DEF BeginBodies, cache, code
<1>2. CASE Pending = {}
  <2>1. job' = Idle /\ answer'.outcome = "ok"
    BY <1>2, AnswerMade DEF BeginBodies
  <2>2. job'.pc = "idle"
    BY <2>1 DEF Idle
  <2>3. \A k \in DOMAIN job.unit : job.unit[k] \in ready
    BY <1>2, JobShape DEF Pending
  <2> QED
    BY <1>1, <2>1, <2>2, <2>3 DEF FInv, Progress, FailuresExplained, Undisturbed, Entered, BodyMade, QueueOwned,
                                  OfUnit, OfSingle, UnitCalls, SingleCalls, Begins, InUnit
<1>3. CASE Pending # {}
  <2>1. job' = [job EXCEPT !.pc = "define", !.at = 1] /\ UNCHANGED answer
    BY <1>3 DEF BeginBodies
  <2>2. job' = [pc |-> "define", unit |-> job.unit, handles |-> job.handles, at |-> 1]
    BY <2>1, JobShape DEF Jobs
  <2>3. job'.pc = "define" /\ job'.unit = job.unit /\ job'.at = 1
    BY <2>2
  <2>4. \A k \in DOMAIN job.unit : ~(k < 1)
    BY JobShape
  <2>5. Progress' /\ FailuresExplained'
    BY <1>1, <2>1, <2>3, Unanswered DEF FInv, Progress, InUnit, DistinctNames, Optimal
  <2> QED
    BY <1>1, <2>3, <2>4, <2>5 DEF FInv, Undisturbed, Entered, BodyMade, QueueOwned,
                                  OfUnit, OfSingle, UnitCalls, SingleCalls, Begins, InUnit
<1> QED
  BY <1>2, <1>3


(* What a link of a name of the unit is, and of any other name.             *)
LEMMA LinkOf ==
  ASSUME NEW n
  PROVE  /\ Link(n)[1] = n
         /\ active = {<<NameOf[s], handleOf[s]>> : s \in ToSet(job.unit)} =>
              /\ (\E s \in ToSet(job.unit) : NameOf[s] = n) =>
                   \E s \in ToSet(job.unit) : NameOf[s] = n /\ Link(n)[2] = handleOf[s]
              /\ (\A s \in ToSet(job.unit) : NameOf[s] # n) => Link(n)[2] = 0
<1> DEFINE bound == \E p \in active : p[1] = n
<1>1. CASE bound
  <2> DEFINE q == CHOOSE p \in active : p[1] = n
  <2>1. q \in active /\ q[1] = n
    BY <1>1
  <2>2. Link(n) = <<n, q[2]>>
    BY <1>1 DEF Link
  <2>3. ASSUME active = {<<NameOf[s], handleOf[s]>> : s \in ToSet(job.unit)}
        PROVE  \E s \in ToSet(job.unit) : NameOf[s] = n /\ q[2] = handleOf[s]
    <3> HIDE DEF q
    <3> QED
      BY <2>1, <2>3
  <2> HIDE DEF q
  <2> QED
    BY <2>2, <2>3
<1>2. CASE ~bound
  <2>1. Link(n) = <<n, 0>>
    BY <1>2 DEF Link
  <2>2. active = {<<NameOf[s], handleOf[s]>> : s \in ToSet(job.unit)} =>
          \A s \in ToSet(job.unit) : NameOf[s] # n
    <3> SUFFICES ASSUME active = {<<NameOf[s], handleOf[s]>> : s \in ToSet(job.unit)}, NEW s \in ToSet(job.unit)
                 PROVE  NameOf[s] # n
      OBVIOUS
    <3>1. <<NameOf[s], handleOf[s]>> \in active
      OBVIOUS
    <3>2. <<NameOf[s], handleOf[s]>>[1] # n
      BY <1>2, <3>1
    <3> QED
      BY <3>2
  <2> QED
    BY <2>1, <2>2
<1> QED
  BY <1>1, <1>2

(* What the definition of a function that is not refused changes.           *)
LEMMA CodeMade ==
  ASSUME IInv, NEW s, NEW h \in Handle, NEW part \in {"body", "packed"}, Makes(s, h, part)
  PROVE  /\ defined' = defined \cup {<<h, part>>}
         /\ ToSet(toFinalize') = ToSet(toFinalize) \cup {<<h, part>>}
         /\ links'[h] = {Link(n) : n \in Calls[s]} /\ \A g \in Handle : g # h => links'[g] = links[g]
         /\ job'.pc = job.pc /\ job'.unit = job.unit /\ job'.handles = job.handles /\ job'.at = job.at + 1
         /\ UNCHANGED <<relocated, active, answer, leftover>>
<1> DEFINE c == <<h, part>>
<1>1. /\ defined' = defined \cup {c}
      /\ toFinalize' = Append(toFinalize, c)
      /\ links' = [links EXCEPT ![h] = {Link(n) : n \in Calls[s]}]
      /\ job' = [job EXCEPT !.at = @ + 1]
      /\ UNCHANGED <<relocated, active, answer, leftover>>
  BY DEF Makes
<1>2. c \in Code /\ toFinalize \in Seq(Code)
  BY JobShape DEF Code, Part
<1>3. ToSet(toFinalize') = ToSet(toFinalize) \cup {c}
  <2> HIDE DEF c
  <2> QED
    BY <1>1, <1>2, Appended
<1>4. job' = [pc |-> job.pc, unit |-> job.unit, handles |-> job.handles, at |-> job.at + 1]
  BY <1>1, JobShape DEF Jobs
<1>5. links'[h] = {Link(n) : n \in Calls[s]} /\ \A g \in Handle : g # h => links'[g] = links[g]
  BY <1>1 DEF IInv, Types
<1> QED
  BY <1>1, <1>3, <1>4, <1>5

(* The names bound are those of the unit, or none.                          *)
LEMMA NamedUnit ==
  ASSUME IInv
  PROVE  /\ job.pc = "define" => Named = ToSet(job.unit)
         /\ job.pc = "uncached" => Named = {}
<1>1. ASSUME job.pc = "define" PROVE Named = ToSet(job.unit)
  <2>1. active = {<<NameOf[t], handleOf[t]>> : t \in ToSet(job.unit)}
    BY <1>1 DEF IInv, JobOK
  <2>2. ASSUME NEW t \in ToSet(job.unit) PROVE \E p \in active : p[1] = NameOf[t]
    <3>1. <<NameOf[t], handleOf[t]>> \in active
      BY <2>1
    <3> QED
      BY <3>1
  <2> QED
    BY <2>2 DEF Named
<1>2. ASSUME job.pc = "uncached" PROVE Named = {}
  BY <1>2 DEF IInv, JobOK, Named
<1> QED
  BY <1>1, <1>2

(* A refusal is explained by the function refused.                          *)
LEMMA RefusalTold ==
  ASSUME IInv, job.pc \in {"define", "uncached"}, NEW s \in ToSet(job.unit), NEW h, NEW part,
         Refuses(s, h, part), leftover = {} => <<h, part>> \notin defined
  PROVE  FailuresExplained'
<1>1. PICK o \in {"bad body", "declared otherwise", "defined already"} :
        /\ Fail(o)
        /\ o = "bad body" => s \in Bad \/ Miscalls(s, Named)
        /\ o = "declared otherwise" => Clash(s, Named)
        /\ o = "defined already" => <<h, part>> \in defined
  BY DEF Refuses
<1>2. /\ answer'.outcome = o /\ answer'.unit = job.unit /\ answer'.alone = (job.pc = "uncached")
      /\ answer'.clean = (leftover = {})
  BY <1>1, AnswerMade DEF Fail
<1> DEFINE bound == IF answer'.alone THEN {} ELSE ToSet(answer'.unit)
<1>3. bound = Named
  BY <1>2, NamedUnit
<1>4. o = "bad body" => \E t \in ToSet(answer'.unit) : t \in Bad \/ Miscalls(t, bound)
  BY <1>1, <1>2, <1>3
<1>5. o = "declared otherwise" =>
        \E t \in ToSet(answer'.unit) : \E c \in Outside(t, bound), d \in imports' : c[1] = d[1] /\ c[2] # d[2]
  BY <1>1, <1>2, <1>3 DEF Clash
<1>6. o = "defined already" => ~answer'.clean
  BY <1>1, <1>2
<1> QED
  BY <1>1, <1>2, <1>4, <1>5, <1>6 DEF FailuresExplained

LEMMA PlaceInUnit ==
  ASSUME IInv, job.pc = "define", job.at <= Len(job.unit)
  PROVE  /\ job.at \in DOMAIN job.unit /\ job.unit[job.at] \in Spec /\ job.unit[job.at] \in ToSet(job.unit)
         /\ handleOf[job.unit[job.at]] \in Handle
         /\ \A k \in DOMAIN job.unit : /\ k < job.at => k < job.at + 1
                                       /\ k < job.at + 1 => k < job.at \/ k = job.at
<1>1. job.at >= 1
  BY DEF IInv, JobOK
<1>2. job.at \in DOMAIN job.unit
  BY <1>1, JobShape
<1>3. handleOf[job.unit[job.at]] # 0
  BY <1>2 DEF IInv, JobOK
<1>4. job.unit[job.at] \in Spec /\ handleOf[job.unit[job.at]] \in Handle
  BY <1>2, <1>3, JobShape, JitAssumption DEF Handle
<1>5. \A k \in DOMAIN job.unit : (k < job.at => k < job.at + 1) /\ (k < job.at + 1 => k < job.at \/ k = job.at)
  BY JobShape
<1> QED
  BY <1>2, <1>4, <1>5, JobShape

LEMMA OwnHandle ==
  ASSUME IInv, NEW s \in Spec, NEW t \in Spec, handleOf[s] = handleOf[t], handleOf[s] # 0
  PROVE  s = t
BY DEF IInv, HandlesUnique

(* In a unit without names twice no function comes twice.                   *)
LEMMA NoSpecTwice ==
  ASSUME Progress, InUnit, NEW i \in DOMAIN job.unit, NEW k \in DOMAIN job.unit, job.unit[i] = job.unit[k]
  PROVE  i = k
BY DEF Progress, DistinctNames

LEMMA DefineBodyKeepsF ==
  ASSUME IInv, FInv, DefineBody
  PROVE  FInv'
<1> DEFINE s == job.unit[job.at]
           h == handleOf[s]
<1>1. /\ job.pc = "define" /\ job.at <= Len(job.unit) /\ InUnit
      /\ UNCHANGED <<handleOf, ready>>
  BY DEF DefineBody, InUnit, cache
<1>2. /\ job.at \in DOMAIN job.unit /\ s \in Spec /\ s \in ToSet(job.unit) /\ h \in Handle
      /\ \A k \in DOMAIN job.unit : (k < job.at => k < job.at + 1) /\ (k < job.at + 1 => k < job.at \/ k = job.at)
  BY <1>1, PlaceInUnit
<1>3. Progress
  BY DEF FInv
<1>4. CASE s \notin Pending
  <2>1. job' = [job EXCEPT !.at = @ + 1] /\ UNCHANGED <<code, answer, leftover>>
    BY <1>4 DEF DefineBody
  <2>2. s \in ready
    BY <1>2, <1>4 DEF Pending
  <2>3. job' = [pc |-> job.pc, unit |-> job.unit, handles |-> job.handles, at |-> job.at + 1]
    BY <2>1, JobShape DEF Jobs
  <2>4. job'.pc = "define" /\ job'.unit = job.unit /\ job'.at = job.at + 1
    BY <1>1, <2>3
  <2>5. Progress' /\ FailuresExplained'
    BY <1>1, <1>3, <2>1, <2>4, Unanswered DEF Progress, InUnit, DistinctNames, Optimal
  <2>6. UNCHANGED <<defined, toFinalize, links>>
    BY <2>1 DEF code
  <2>7. ASSUME leftover = {} PROVE Entered' /\ BodyMade' /\ QueueOwned' /\ UnitCalls' /\ SingleCalls'
    <3>1. Entered /\ BodyMade /\ QueueOwned /\ UnitCalls
      BY <2>7 DEF FInv, Undisturbed
    <3>2. Entered' /\ BodyMade'
      BY <1>1, <1>2, <2>4, <2>6, <3>1 DEF Entered, BodyMade, Begins
    <3>3. QueueOwned'
      BY <1>1, <1>2, <2>4, <2>6, <3>1 DEF QueueOwned, OfUnit, OfSingle, Begins, InUnit
    <3>4. UnitCalls'
      BY <1>1, <1>2, <2>2, <2>4, <2>6, <3>1 DEF UnitCalls, LinksOf, Begins
    <3> QED
      BY <2>4, <3>2, <3>3, <3>4 DEF SingleCalls
  <2> QED
    BY <2>1, <2>5, <2>7 DEF FInv, Undisturbed
<1>5. CASE s \in Pending /\ Refuses(s, h, "body")
  <2>1. s \notin ready
    BY <1>5 DEF Pending
  <2>2. ASSUME leftover = {} PROVE <<h, "body">> \notin defined
    <3> SUFFICES ASSUME <<h, "body">> \in defined PROVE FALSE
      OBVIOUS
    <3>1. BodyMade
      BY <2>2 DEF FInv, Undisturbed
    <3>2. PICK k \in DOMAIN job.unit : k < job.at /\ job.unit[k] = s
      BY <1>2, <2>1, <3>1 DEF BodyMade, Begins, Handle
    <3>3. k = job.at
      BY <1>1, <1>2, <1>3, <3>2, NoSpecTwice
    <3> QED
      BY <1>2, <3>2, <3>3, JobShape
  <2>3. FailuresExplained'
    <3> HIDE DEF s, h
    <3> QED
      BY <1>1, <1>2, <1>5, <2>2, RefusalTold
  <2>4. PICK o : Fail(o) /\ UNCHANGED <<defined, toFinalize, links>>
    BY <1>5 DEF Refuses, code
  <2> QED
    BY <1>1, <2>3, <2>4, FailedKeepsF
<1>6. CASE s \in Pending /\ Makes(s, h, "body")
  <2>1. s \notin ready
    BY <1>6 DEF Pending
  <2>2. /\ defined' = defined \cup {<<h, "body">>}
        /\ ToSet(toFinalize') = ToSet(toFinalize) \cup {<<h, "body">>}
        /\ links'[h] = {Link(n) : n \in Calls[s]} /\ \A g \in Handle : g # h => links'[g] = links[g]
        /\ job'.pc = "define" /\ job'.unit = job.unit /\ job'.handles = job.handles /\ job'.at = job.at + 1
        /\ UNCHANGED <<answer, leftover>>
    <3> HIDE DEF s, h
    <3> QED
      BY <1>1, <1>2, <1>6, CodeMade
  <2>3. Progress' /\ FailuresExplained'
    BY <1>1, <1>3, <2>2, Unanswered DEF Progress, InUnit, DistinctNames, Optimal
  <2>4. ASSUME leftover = {} PROVE Entered' /\ BodyMade' /\ QueueOwned' /\ UnitCalls' /\ SingleCalls'
    <3>1. Entered /\ BodyMade /\ QueueOwned /\ UnitCalls
      BY <2>4 DEF FInv, Undisturbed
    <3>2. Entered'
      BY <1>1, <2>2, <3>1 DEF Entered
    <3>3. BodyMade'
      <4>1. ASSUME NEW t \in Spec, handleOf[t] # 0, <<handleOf[t], "body">> \in defined', t \notin ready
            PROVE  \E k \in DOMAIN job.unit : k < job.at + 1 /\ job.unit[k] = t
        <5>1. CASE <<handleOf[t], "body">> \in defined
          BY <1>2, <3>1, <4>1, <5>1 DEF BodyMade, Begins
        <5>2. CASE <<handleOf[t], "body">> = <<h, "body">>
          <6>1. t = s
            BY <1>2, <4>1, <5>2, OwnHandle
          <6> QED
            BY <1>2, <6>1, JobShape
        <5> QED
          BY <2>2, <4>1, <5>1, <5>2
      <4> QED
        BY <1>1, <2>2, <4>1 DEF BodyMade, Begins
    <3>4. QueueOwned'
      <4>1. ASSUME NEW c \in ToSet(toFinalize) PROVE OfUnit(c)'
        <5>1. OfUnit(c)
          BY <1>1, <3>1 DEF QueueOwned, OfSingle
        <5> QED
          BY <1>1, <1>2, <2>2, <5>1 DEF OfUnit, InUnit, Begins
      <4>2. ASSUME NEW c, c = <<h, "body">> PROVE OfUnit(c)'
        <5>1. PICK i \in DOMAIN job.unit : i = job.at
          BY <1>2
        <5>2. i < job.at + 1
          BY <5>1, JobShape
        <5>3. Begins(i)'
          BY <2>2, <5>2 DEF Begins
        <5>4. handleOf'[job'.unit[i]] = c[1] /\ job'.unit[i] \notin ready'
          BY <1>1, <2>1, <2>2, <4>2, <5>1
        <5>5. \E k \in DOMAIN job'.unit : /\ handleOf'[job'.unit[k]] = c[1] /\ job'.unit[k] \notin ready'
                                          /\ c[2] = "body" => Begins(k)'
          BY <2>2, <5>3, <5>4
        <5> QED
          BY <2>2, <5>5 DEF OfUnit, InUnit
      <4>3. \A c \in ToSet(toFinalize') : c \in ToSet(toFinalize) \/ c = <<h, "body">>
        BY <2>2
      <4> QED
        BY <4>1, <4>2, <4>3 DEF QueueOwned
    <3>5. UnitCalls'
      <4>1. ASSUME NEW k \in DOMAIN job.unit, k < job.at + 1, job.unit[k] \notin ready
            PROVE  \A l \in links'[handleOf[job.unit[k]]] :
                     l[1] \in Calls[job.unit[k]] /\ (l[2] = 0 => \A t \in ToSet(job.unit) : NameOf[t] # l[1])
        <5>1. CASE k = job.at
          <6>1. active = {<<NameOf[t], handleOf[t]>> : t \in ToSet(job.unit)}
            BY <1>1 DEF IInv, JobOK
          <6>2. \A t \in ToSet(job.unit) : handleOf[t] # 0
            BY <1>1 DEF IInv, JobOK, ToSet
          <6>3. ASSUME NEW n \in Calls[s]
                PROVE  Link(n)[1] \in Calls[s] /\ (Link(n)[2] = 0 => \A t \in ToSet(job.unit) : NameOf[t] # Link(n)[1])
            BY <6>1, <6>2, LinkOf
          <6> QED
            BY <2>2, <5>1, <6>3
        <5>2. CASE k < job.at
          <6>1. job.unit[k] # s
            <7>1. k # job.at
              BY <5>2, JobShape
            <7> QED
              BY <1>1, <1>2, <1>3, <7>1, NoSpecTwice
          <6>2. handleOf[job.unit[k]] \in Handle
            <7>1. handleOf[job.unit[k]] # 0
              BY <1>1 DEF IInv, JobOK
            <7> QED
              BY <7>1, JobShape, JitAssumption DEF Handle
          <6>3. handleOf[job.unit[k]] # h
            BY <1>2, <6>1, <6>2, JobShape, OwnHandle DEF Handle
          <6>4. links'[handleOf[job.unit[k]]] = links[handleOf[job.unit[k]]]
            BY <2>2, <6>2, <6>3
          <6>5. LinksOf(k)
            BY <1>1, <3>1, <4>1, <5>2 DEF UnitCalls, Begins
          <6> QED
            BY <6>4, <6>5 DEF LinksOf
        <5> QED
          BY <1>2, <4>1, <5>1, <5>2
      <4> QED
        BY <1>1, <2>2, <4>1 DEF UnitCalls, LinksOf, Begins
    <3> QED
      BY <2>2, <3>2, <3>3, <3>4, <3>5 DEF SingleCalls
  <2> QED
    BY <2>2, <2>3, <2>4 DEF FInv, Undisturbed
<1>7. s \in Pending => Define(s, h, "body")
  BY DEF DefineBody
<1> HIDE DEF s, h
<1> QED
  BY <1>4, <1>5, <1>6, <1>7, DefineCases


LEMMA DefineUncachedKeepsF ==
  ASSUME IInv, FInv, DefineUncached
  PROVE  FInv'
<1> DEFINE s == job.unit[1]
           h == job.handles[1]
<1>1. /\ job.pc = "uncached" /\ job.at = 1 /\ Define(s, h, "packed")
      /\ UNCHANGED <<handleOf, ready>>
  BY DEF DefineUncached, cache
<1>2. Len(job.unit) = 1 /\ Len(job.handles) = 1 /\ \A t \in Spec : handleOf[t] # h
  BY <1>1 DEF IInv, JobOK
<1>3. s \in ToSet(job.unit) /\ h \in Handle
  BY <1>2, JobShape, Elements
<1>4. CASE Refuses(s, h, "packed")
  <2>1. leftover = {} => <<h, "packed">> \notin defined
    BY <1>1 DEF FInv, Undisturbed, SingleCalls
  <2>2. FailuresExplained'
    <3> HIDE DEF s, h
    <3> QED
      BY <1>1, <1>3, <1>4, <2>1, RefusalTold
  <2>3. PICK o : Fail(o) /\ UNCHANGED <<defined, toFinalize, links>>
    BY <1>4 DEF Refuses, code
  <2>4. job.pc # "idle" /\ job.at # 2 /\ UNCHANGED <<handleOf, ready>>
    BY <1>1
  <2> HIDE DEF s, h
  <2> QED
    BY <2>2, <2>3, <2>4, FailedKeepsF
<1>5. CASE Makes(s, h, "packed")
  <2>1. /\ defined' = defined \cup {<<h, "packed">>}
        /\ ToSet(toFinalize') = ToSet(toFinalize) \cup {<<h, "packed">>}
        /\ links'[h] = {Link(n) : n \in Calls[s]} /\ \A g \in Handle : g # h => links'[g] = links[g]
        /\ job'.pc = job.pc /\ job'.unit = job.unit /\ job'.handles = job.handles /\ job'.at = job.at + 1
        /\ UNCHANGED <<answer, leftover>>
    <3> HIDE DEF s, h
    <3> QED
      BY <1>3, <1>5, CodeMade
  <2>9. job'.pc = "uncached" /\ job'.at = 2
    BY <1>1, <2>1
  <2>2. Progress' /\ FailuresExplained'
    BY <1>1, <2>9, <2>1, Unanswered DEF FInv, Progress, InUnit
  <2>3. ASSUME leftover = {} PROVE Entered' /\ BodyMade' /\ QueueOwned' /\ UnitCalls' /\ SingleCalls'
    <3>1. Entered /\ BodyMade /\ QueueOwned
      BY <2>3 DEF FInv, Undisturbed
    <3>2. Entered'
      BY <1>1, <2>1, <3>1 DEF Entered
    <3>3. BodyMade'
      BY <1>1, <2>9, <2>1, <3>1 DEF BodyMade, Begins
    <3>4. QueueOwned'
      BY <1>1, <2>9, <2>1, <3>1 DEF QueueOwned, OfUnit, OfSingle, InUnit
    <3>5. SingleCalls'
      <4>1. \A n : Link(n)[1] = n
        BY LinkOf
      <4>2. \A l \in links'[h] : l[1] \in Calls[s]
        BY <2>1, <4>1
      <4> QED
        BY <2>9, <2>1, <4>2 DEF SingleCalls
    <3> QED
      BY <2>9, <2>1, <3>2, <3>3, <3>4, <3>5 DEF UnitCalls, Begins
  <2> QED
    BY <2>1, <2>2, <2>3 DEF FInv, Undisturbed
<1> HIDE DEF s, h
<1> QED
  BY <1>1, <1>4, <1>5, DefineCases

(* What stops a finalization is explained by a call of the unit.            *)
LEMMA StuckExplained ==
  ASSUME IInv, FInv, job.pc # "idle", leftover = {},
         ~(\A i \in DOMAIN toFinalize : Resolves(toFinalize[i]))
  PROVE  \E s \in ToSet(job.unit) :
           \E c \in Outside(s, IF job.pc = "uncached" THEN {} ELSE ToSet(job.unit)) : c[1] \notin Linker
<1>1. Entered /\ QueueOwned /\ UnitCalls /\ SingleCalls
  BY DEF FInv, Undisturbed
<1>2. PICK c \in ToSet(toFinalize) : ~Resolves(c)
  BY JobShape, Elements
<1>3. PICK l \in links[c[1]] : l[2] = 0 /\ l[1] \notin Linker
  BY <1>2 DEF Resolves
<1>4. c[2] = "body" \/ (c[2] = "packed" /\ <<c[1], "entry">> \notin defined)
  BY <1>2 DEF Resolves
<1>5. CASE OfUnit(c)
  <2>1. PICK k \in DOMAIN job.unit : /\ handleOf[job.unit[k]] = c[1] /\ job.unit[k] \notin ready
                                     /\ c[2] = "body" => Begins(k)
    BY <1>5 DEF OfUnit
  <2>2. <<c[1], "entry">> \in defined
    BY <1>1, <1>2, <2>1, JobShape DEF Entered
  <2>3. Begins(k)
    BY <1>4, <2>1, <2>2
  <2>4. LinksOf(k) /\ job.pc = "define"
    BY <1>1, <2>1, <2>3 DEF UnitCalls, Begins
  <2>5. l[1] \in Calls[job.unit[k]] /\ \A t \in ToSet(job.unit) : NameOf[t] # l[1]
    BY <1>3, <2>1, <2>4 DEF LinksOf
  <2>6. job.unit[k] \in ToSet(job.unit) /\ job.unit[k] \in Spec
    BY <2>1, JobShape
  <2>7. \E a \in CallsAs[job.unit[k]] : a[1] = l[1]
    BY <2>5, <2>6, JitAssumption
  <2>8. \E a \in Outside(job.unit[k], ToSet(job.unit)) : a[1] \notin Linker
    BY <1>3, <2>5, <2>7 DEF Outside
  <2> QED
    BY <2>4, <2>6, <2>8
<1>6. CASE OfSingle(c)
  <2>1. job.pc = "uncached" /\ job.at = 2 /\ c[1] = job.handles[1]
    BY <1>6 DEF OfSingle
  <2>2. l[1] \in Calls[job.unit[1]]
    BY <1>1, <1>3, <2>1 DEF SingleCalls
  <2>3. job.unit[1] \in ToSet(job.unit) /\ job.unit[1] \in Spec
    BY <2>1, JobShape DEF IInv, JobOK
  <2>4. \E a \in CallsAs[job.unit[1]] : a[1] = l[1]
    BY <2>2, <2>3, JitAssumption
  <2>5. \E a \in Outside(job.unit[1], {}) : a[1] \notin Linker
    BY <1>3, <2>4 DEF Outside
  <2> QED
    BY <2>1, <2>3, <2>5
<1> QED
  BY <1>1, <1>2, <1>5, <1>6 DEF QueueOwned

LEMMA StuckKeepsF ==
  ASSUME IInv, FInv, job.pc # "idle", Fail("unresolved"), toFinalize' = <<>>,
         UNCHANGED <<handleOf, ready, links, defined>>,
         ~(\A i \in DOMAIN toFinalize : Resolves(toFinalize[i]))
  PROVE  FInv'
<1>1. /\ answer'.outcome = "unresolved" /\ answer'.unit = job.unit
      /\ answer'.alone = (job.pc = "uncached") /\ answer'.clean = (leftover = {})
  BY AnswerMade DEF Fail
<1>2. leftover = {} => \E s \in ToSet(job.unit) :
        \E c \in Outside(s, IF job.pc = "uncached" THEN {} ELSE ToSet(job.unit)) : c[1] \notin Linker
  BY StuckExplained
<1>3. FailuresExplained'
  BY <1>1, <1>2 DEF FailuresExplained
<1> QED
  BY <1>3, FailedKeepsF

(* Bodies that are published are ready, whoever asks later.                 *)
LEMMA FinishedKeepsF ==
  ASSUME IInv, FInv, job' = Idle, answer'.outcome = "ok", toFinalize' = <<>>,
         UNCHANGED <<handleOf, links, defined, leftover>>, ready \subseteq ready',
         job.pc = "define" => \A s \in ToSet(job.unit) : s \in ready'
  PROVE  FInv'
<1>1. job'.pc = "idle"
  BY DEF Idle
<1>2. Progress' /\ FailuresExplained'
  BY <1>1 DEF Progress, InUnit, FailuresExplained
<1>3. ASSUME leftover = {} PROVE Entered' /\ BodyMade' /\ QueueOwned'
  <2>1. Entered /\ BodyMade
    BY <1>3 DEF FInv, Undisturbed
  <2>2. ToSet(toFinalize') = {}
    BY DEF ToSet
  <2>3. BodyMade'
    BY <2>1, JobShape DEF BodyMade, Begins
  <2> QED
    BY <2>1, <2>2, <2>3 DEF Entered, QueueOwned
<1> QED
  BY <1>1, <1>2, <1>3 DEF FInv, Undisturbed, UnitCalls, SingleCalls, Begins

LEMMA FinishKeepsF ==
  ASSUME IInv, FInv, FinishUnit \/ FinishUncached
  PROVE  FInv'
<1>1. job.pc # "idle" /\ toFinalize' = <<>> /\ UNCHANGED <<handleOf, links, defined>>
  BY DEF FinishUnit, FinishUncached, Finalize, cache
<1>2. CASE ~(\A i \in DOMAIN toFinalize : Resolves(toFinalize[i]))
  <2>1. {i \in DOMAIN toFinalize : ~Resolves(toFinalize[i])} # {}
    BY <1>2
  <2>2. Fail("unresolved") /\ UNCHANGED ready
    BY <2>1 DEF FinishUnit, FinishUncached, Finalize
  <2> QED
    BY <1>1, <1>2, <2>2, StuckKeepsF
<1>3. CASE \A i \in DOMAIN toFinalize : Resolves(toFinalize[i])
  <2>1. {i \in DOMAIN toFinalize : ~Resolves(toFinalize[i])} = {}
    BY <1>3
  <2>2. CASE FinishUnit
    <3>1. PublishUnit
      BY <2>1, <2>2 DEF FinishUnit, Finalize
    <3>2. job' = Idle /\ ready' = ready \cup Pending /\ UNCHANGED leftover /\ answer'.outcome = "ok"
      BY <3>1, AnswerMade DEF PublishUnit
    <3>3. \A s \in ToSet(job.unit) : s \in ready'
      BY <3>2 DEF Pending
    <3> QED
      BY <1>1, <3>2, <3>3, FinishedKeepsF
  <2>3. CASE FinishUncached
    <3>1. PublishUncached /\ job.pc = "uncached"
      BY <2>1, <2>3 DEF FinishUncached, Finalize
    <3>2. job' = Idle /\ UNCHANGED <<ready, leftover>> /\ answer'.outcome = "ok"
      BY <3>1, AnswerMade DEF PublishUncached
    <3> QED
      BY <1>1, <3>1, <3>2, FinishedKeepsF
  <2> QED
    BY <2>2, <2>3
<1> QED
  BY <1>2, <1>3

LEMMA InitFInv == Init => FInv
<1> SUFFICES ASSUME Init PROVE FInv
  OBVIOUS
<1>1. job.pc = "idle" /\ answer.outcome = "none" /\ toFinalize = <<>> /\ \A s \in Spec : handleOf[s] = 0
  BY DEF Init, Idle, NoAnswer
<1>2. ToSet(toFinalize) = {}
  BY <1>1 DEF ToSet
<1> QED
  BY <1>1, <1>2 DEF FInv, Progress, InUnit, FailuresExplained, Undisturbed, Entered, BodyMade, QueueOwned,
                    UnitCalls, SingleCalls, Begins

LEMMA StutterKeepsF ==
  ASSUME FInv, UNCHANGED vars
  PROVE  FInv'
<1>1. UNCHANGED <<handleOf, ready, defined, toFinalize, links, imports, job, answer, leftover>>
  BY DEF vars, cache, code
<1>2. FailuresExplained'
  BY <1>1 DEF FInv, FailuresExplained
<1>3. Progress'
  BY <1>1 DEF FInv, Progress, InUnit, DistinctNames, Optimal
<1>4. Undisturbed'
  BY <1>1 DEF FInv, Undisturbed, Entered, BodyMade, QueueOwned, OfUnit, OfSingle, UnitCalls, LinksOf,
              SingleCalls, Begins, InUnit
<1> QED
  BY <1>2, <1>3, <1>4 DEF FInv

(* What an earlier request can do to a later one is bounded: a function is  *)
(* refused because its own body is bad or miscalls its unit, or because a   *)
(* name it calls from outside is declared in the module with another        *)
(* signature; code is found defined already, or an import unresolved that   *)
(* nothing of the request calls, only after a unit failed and left records  *)
(* without a body.                                                          *)
THEOREM RefusalsExplained == JitSpec => []FailuresExplained
<1>1. IInv /\ FInv /\ [Next]_vars => FInv'
  BY RequestsKeepF, DeclareKeepsF, BeginBodiesKeepsF, DefineBodyKeepsF, DefineUncachedKeepsF,
     FinishKeepsF, StutterKeepsF DEF Next, Step
<1>2. FInv => FailuresExplained
  BY DEF FInv
<1> QED
  BY <1>1, <1>2, InitFInv, Invariant, PTL DEF JitSpec


-----------------------------------------------------------------------------
(* What a compiled unit is linked to: the invariant of UnitLinks is kept.   *)

LEMMA ReadyIn ==
  ASSUME IInv
  PROVE  ready \subseteq Spec /\ \A s \in ready : handleOf[s] # 0
BY DEF IInv, Types, HandlesUnique

(* What the invariant says of the code made so far, the request aside.      *)
CodeLinked == RecordsOptimal /\ ReadyLinked
LEMMA CodeLinkedStays ==
  ASSUME CodeLinked, UNCHANGED <<handleOf, ready, links>>
  PROVE  CodeLinked'
BY DEF CodeLinked, RecordsOptimal, ReadyLinked, LeadsOn

LEMMA RequestsKeepL ==
  ASSUME IInv, LInv, Request
  PROVE  LInv'
<1>1. /\ job.pc = "idle" /\ Asked
      /\ UNCHANGED <<handleOf, ready, functions, code, hits, active, leftover>>
  BY RequestCases
<1>2. UNCHANGED <<handleOf, ready, links>>
  BY <1>1 DEF code
<1>3. CodeLinked'
  BY <1>2, CodeLinkedStays DEF LInv, CodeLinked
<1>4. job'.pc # "define"
  BY <1>1 DEF Asked
<1>5. UnitLinks'
  <2>1. answer'.outcome # "ok" \/ answer'.handles = <<>>
    BY <1>1 DEF Asked, NoAnswer
  <2>2. answer'.handles = <<>> => DOMAIN answer'.handles = {}
    OBVIOUS
  <2> QED
    BY <2>1, <2>2 DEF UnitLinks
<1>6. Progress' /\ HandlesOf'
  <2>1. CASE UNCHANGED job
    BY <1>1, <2>1 DEF Progress, HandlesOf, InUnit
  <2>2. CASE answer' = NoAnswer /\ \E us \in Seq(Spec) :
               /\ DistinctNames(us) /\ Optimal(us)
               /\ job' = [pc |-> "declare", unit |-> us, handles |-> <<>>, at |-> 1]
    <3>1. PICK us \in Seq(Spec) : /\ DistinctNames(us) /\ Optimal(us)
                    /\ job' = [pc |-> "declare", unit |-> us, handles |-> <<>>, at |-> 1]
      BY <2>2
    <3>2. job'.pc = "declare" /\ job'.unit = us /\ job'.handles = <<>> /\ job'.at = 1 /\ answer'.outcome = "none"
      BY <2>2, <3>1 DEF NoAnswer
    <3>3. DistinctNames(job'.unit) /\ Optimal(job'.unit)
      BY <3>1, <3>2
    <3>4. Len(<<>>) = 0 /\ DOMAIN <<>> = {} /\ 1 <= Len(us) + 1
      BY LenProperties
    <3>5. HandlesOf'
      BY <3>2, <3>4 DEF HandlesOf, InUnit
    <3>6. Progress'
      BY <3>2, <3>3 DEF Progress, DistinctNames, Optimal
    <3> QED
      BY <3>5, <3>6
  <2>3. CASE answer' = NoAnswer /\ \E s \in Spec :
               job' = [pc |-> "uncached", unit |-> <<s>>, handles |-> <<nextHandle>>, at |-> 1]
    <3>1. job'.pc = "uncached" /\ answer'.outcome = "none"
      BY <2>3 DEF NoAnswer
    <3> QED
      BY <3>1 DEF Progress, HandlesOf, InUnit
  <2> QED
    BY <1>1, <2>1, <2>2, <2>3 DEF Asked
<1> QED
  BY <1>3, <1>4, <1>5, <1>6 DEF LInv, CodeLinked, BegunLinked, Begins

(* A failure changes no code that is ready.                                 *)
LEMMA FailedKeepsL ==
  ASSUME LInv, NEW o, Fail(o), o # "ok", UNCHANGED <<handleOf, ready, links>>
  PROVE  LInv'
<1>1. job' = Idle /\ answer'.outcome = o
  BY AnswerMade DEF Fail
<1>2. job'.pc = "idle"
  BY <1>1 DEF Idle
<1>3. CodeLinked'
  BY CodeLinkedStays DEF LInv, CodeLinked
<1> QED
  BY <1>1, <1>2, <1>3 DEF LInv, CodeLinked, Progress, BegunLinked, Begins, HandlesOf, UnitLinks, InUnit

(* A request in progress has not answered yet.                              *)
LEMMA UnansweredLinks ==
  ASSUME Progress, job.pc # "idle", UNCHANGED answer
  PROVE  UnitLinks'
<1>1. answer'.outcome = "none"
  BY DEF Progress
<1> QED
  BY <1>1 DEF UnitLinks

(* One more handle for one more function of the unit.                       *)
LEMMA HandleAdded ==
  ASSUME IInv, LInv, job.pc = "declare", job.at <= Len(job.unit), NEW h \in Handle,
         job' = [job EXCEPT !.handles = Append(@, h), !.at = @ + 1], UNCHANGED answer,
         handleOf'[job.unit[job.at]] = h,
         \A t \in Spec : handleOf[t] # 0 => handleOf'[t] = handleOf[t]
  PROVE  job'.pc = "declare" /\ job'.unit = job.unit /\ Progress' /\ HandlesOf' /\ BegunLinked' /\ UnitLinks'
<1>1. job' = [pc |-> job.pc, unit |-> job.unit, handles |-> Append(job.handles, h), at |-> job.at + 1]
  BY JobShape DEF Jobs
<1>2. job'.pc = "declare" /\ job'.unit = job.unit /\ job'.handles = Append(job.handles, h) /\ job'.at = job.at + 1
  BY <1>1
<1>3. Progress' /\ UnitLinks' /\ BegunLinked'
  BY <1>2, UnansweredLinks DEF LInv, Progress, InUnit, DistinctNames, Optimal, BegunLinked, Begins
<1>4. /\ Len(job.handles) = job.at - 1 /\ job.at >= 1 /\ InUnit
      /\ \A k \in DOMAIN job.handles : k <= Len(job.unit) /\ job.handles[k] = handleOf[job.unit[k]]
      /\ \A k \in DOMAIN job.unit : k < job.at => handleOf[job.unit[k]] # 0
  BY DEF LInv, HandlesOf, InUnit, IInv, JobOK
<1>5. /\ Append(job.handles, h) \in Seq(Handle) /\ Len(Append(job.handles, h)) = Len(job.handles) + 1
      /\ \A i \in 1..Len(job.handles) : Append(job.handles, h)[i] = job.handles[i]
      /\ Append(job.handles, h)[Len(job.handles) + 1] = h
  BY JobShape, AppendProperties
<1>6. DOMAIN job.handles = 1..Len(job.handles) /\ DOMAIN job'.handles = 1..job.at /\ job.at \in Nat
  BY <1>2, <1>4, <1>5, JobShape, Elements
<1>7. ASSUME NEW k \in DOMAIN job'.handles PROVE k <= Len(job.unit) /\ job'.handles[k] = handleOf'[job.unit[k]]
  <2>1. CASE k = job.at
    BY <1>2, <1>4, <1>5, <1>6, <2>1
  <2>2. CASE k # job.at
    <3>4. k \in 1..job.at
      BY <1>6, <1>7
    <3>5. k \in 1..job.at - 1 /\ k < job.at
      BY <1>6, <2>2, <3>4
    <3>6. k \in DOMAIN job.handles
      BY <1>4, <1>6, <3>5
    <3>7. k \in DOMAIN job.unit
      <4>1. job.at <= Len(job.unit) /\ Len(job.unit) \in Nat /\ DOMAIN job.unit = 1..Len(job.unit)
        BY JobShape
      <4> QED
        BY <1>6, <3>5, <4>1
    <3>1. k \in DOMAIN job.handles /\ k < job.at /\ k \in DOMAIN job.unit
      BY <3>5, <3>6, <3>7
    <3>2. handleOf[job.unit[k]] # 0 /\ job.unit[k] \in Spec /\ job.handles[k] = handleOf[job.unit[k]]
      BY <1>4, <3>1, JobShape
    <3>3. job'.handles[k] = job.handles[k]
      BY <1>2, <1>5, <1>6, <3>1
    <3> QED
      BY <1>4, <3>1, <3>2, <3>3
  <2> QED
    BY <2>1, <2>2
<1>8. Len(job'.handles) = job'.at - 1 /\ job'.at <= Len(job'.unit) + 1
  BY <1>2, <1>4, <1>5, JobShape
<1>9. HandlesOf'
  BY <1>2, <1>7, <1>8 DEF HandlesOf
<1> QED
  BY <1>2, <1>3, <1>9

LEMMA DeclareKeepsL ==
  ASSUME IInv, LInv, Declare
  PROVE  LInv'
<1> DEFINE s == job.unit[job.at]
<1>1. /\ job.pc = "declare" /\ job.at <= Len(job.unit) /\ job.at >= 1
      /\ UNCHANGED <<ready, links>>
  BY DEF Declare, IInv, JobOK
<1>2. job.at \in DOMAIN job.unit /\ s \in Spec
  BY <1>1, JobShape
<1>3. CASE handleOf[s] # 0
  <2>1. FindRecord(s)
    BY <1>3 DEF Declare
  <2>2. /\ job' = [job EXCEPT !.handles = Append(@, handleOf[s]), !.at = @ + 1]
        /\ UNCHANGED <<handleOf, answer>>
    BY <2>1 DEF FindRecord, cache
  <2>3. handleOf[s] \in Handle
    BY <1>2, <1>3, JobShape, JitAssumption DEF Handle
  <2>4. Progress' /\ HandlesOf' /\ BegunLinked' /\ UnitLinks'
    BY <1>1, <2>2, <2>3, HandleAdded
  <2>5. CodeLinked'
    BY <1>1, <2>2, CodeLinkedStays DEF LInv, CodeLinked
  <2> QED
    BY <2>4, <2>5 DEF LInv, CodeLinked
<1>4. CASE handleOf[s] = 0 /\ nextHandle = MaxHandle
  <2>1. Fail("overflow") /\ UNCHANGED <<handleOf, ready, links>>
    BY <1>1, <1>4 DEF Declare, cache
  <2> QED
    BY <2>1, FailedKeepsL
<1>5. CASE handleOf[s] = 0 /\ nextHandle # MaxHandle
  <2>1. DeclareRecord(s)
    BY <1>5 DEF Declare
  <2>2. /\ handleOf' = [handleOf EXCEPT ![s] = nextHandle]
        /\ job' = [job EXCEPT !.handles = Append(@, nextHandle), !.at = @ + 1]
        /\ UNCHANGED answer
    BY <2>1 DEF DeclareRecord
  <2>3. /\ handleOf'[s] = nextHandle /\ \A t \in Spec : t # s => handleOf'[t] = handleOf[t]
        /\ nextHandle \in Handle
    BY <1>2, <2>2, JobShape DEF IInv, Types
  <2>4. \A t \in Spec : handleOf[t] # 0 => handleOf'[t] = handleOf[t]
    BY <1>5, <2>3
  <2>5. Progress' /\ HandlesOf' /\ BegunLinked' /\ UnitLinks'
    <3> HIDE DEF s
    <3>1. handleOf'[job.unit[job.at]] = nextHandle
      BY <2>3 DEF s
    <3> QED
      BY <1>1, <2>2, <2>3, <2>4, <3>1, HandleAdded
  <2>6. RecordsOptimal'
    <3>1. \E t \in Spec : s = Optimized[t]
      BY <1>1, <1>2 DEF LInv, Progress, InUnit, Optimal
    <3> QED
      BY <2>3, <3>1 DEF LInv, RecordsOptimal
  <2>7. ReadyLinked'
    <3>1. ASSUME NEW t \in ready, NEW n \in Calls[t] PROVE LeadsOn(t, n)'
      <4>1. LeadsOn(t, n)
        BY <3>1 DEF LInv, ReadyLinked
      <4>2. handleOf'[t] = handleOf[t]
        BY <2>4, ReadyIn
      <4>3. PICK l \in links[handleOf[t]] :
               /\ l = <<n, l[2]>>
               /\ l[2] # 0 => \E r \in Spec : handleOf[r] = l[2] /\ NameOf[r] = n
               /\ l[2] = 0 => n \in Linker
        BY <4>1 DEF LeadsOn
      <4>4. l[2] # 0 => \E r \in Spec : handleOf'[r] = l[2] /\ NameOf[r] = n
        BY <2>4, <4>3
      <4> QED
        BY <1>1, <4>2, <4>3, <4>4 DEF LeadsOn
    <3> QED
      BY <1>1, <3>1 DEF ReadyLinked
  <2> QED
    BY <2>5, <2>6, <2>7 DEF LInv
<1> QED
  BY <1>3, <1>4, <1>5 DEF Declare


(* Once all of a unit leads on, its code calls the unit's own functions.    *)
LEMMA UnitCallsItself ==
  ASSUME NamesMean, IInv, Progress, InUnit, RecordsOptimal, HandlesOf,
         \A k \in DOMAIN job.unit : handleOf[job.unit[k]] # 0,
         \A s \in ToSet(job.unit) : \A n \in Calls[s] : LeadsOn(s, n),
         NEW i \in DOMAIN job.handles, NEW j \in DOMAIN job.handles,
         NameOf[job.unit[j]] \in Calls[job.unit[i]]
  PROVE  <<NameOf[job.unit[j]], job.handles[j]>> \in links[job.handles[i]]
<1> DEFINE n == NameOf[job.unit[j]]
<1>1. /\ i \in DOMAIN job.unit /\ job.handles[i] = handleOf[job.unit[i]]
      /\ j \in DOMAIN job.unit /\ job.handles[j] = handleOf[job.unit[j]]
  <2>1. DOMAIN job.handles = 1..Len(job.handles) /\ Len(job.handles) \in Nat
    BY JobShape, Elements
  <2> QED
    BY <2>1, JobShape DEF HandlesOf
<1>2. LeadsOn(job.unit[i], n)
  BY <1>1, JobShape
<1>3. PICK l \in links[handleOf[job.unit[i]]] :
         /\ l = <<n, l[2]>>
         /\ l[2] # 0 => \E t \in Spec : handleOf[t] = l[2] /\ NameOf[t] = n
         /\ l[2] = 0 => n \in Linker
  BY <1>2 DEF LeadsOn
<1>4. l[2] # 0
  BY <1>1, <1>3, JobShape DEF NamesMean
<1>5. PICK t \in Spec : handleOf[t] = l[2] /\ NameOf[t] = n
  BY <1>3, <1>4
<1>6. PICK a \in Spec : t = Optimized[a]
  BY <1>4, <1>5 DEF RecordsOptimal
<1>7. PICK b \in Spec : job.unit[j] = Optimized[b]
  BY <1>1 DEF Progress, Optimal
<1>8. NameOf[a] = NameOf[b]
  BY <1>5, <1>6, <1>7, JitAssumption
<1>9. t = job.unit[j]
  BY <1>6, <1>7, <1>8 DEF NamesMean
<1> QED
  BY <1>1, <1>3, <1>5, <1>9

LEMMA BeginBodiesKeepsL ==
  ASSUME NamesMean, IInv, LInv, BeginBodies
  PROVE  LInv'
<1>1. /\ job.pc = "declare" /\ job.at > Len(job.unit) /\ InUnit /\ Progress /\ HandlesOf /\ RecordsOptimal
      /\ UNCHANGED <<handleOf, ready, links>>
  BY DEF BeginBodies, cache, code, LInv, InUnit
<1>2. CodeLinked'
  BY <1>1, CodeLinkedStays DEF LInv, CodeLinked
<1>3. CASE Pending = {}
  <2>1. job' = Idle /\ Answer("ok", job.unit, job.handles)
    BY <1>3 DEF BeginBodies
  <2>2. answer'.unit = job.unit /\ answer'.handles = job.handles
    BY <2>1, AnswerMade
  <2>3. \A s \in ToSet(job.unit) : \A n \in Calls[s] : LeadsOn(s, n)
    BY <1>3 DEF Pending, LInv, ReadyLinked
  <2>4. \A k \in DOMAIN job.unit : handleOf[job.unit[k]] # 0
    BY <1>3, ReadyIn, JobShape DEF Pending
  <2>5. ASSUME NEW i \in DOMAIN job.handles, NEW j \in DOMAIN job.handles,
               NameOf[job.unit[j]] \in Calls[job.unit[i]]
        PROVE  <<NameOf[job.unit[j]], job.handles[j]>> \in links[job.handles[i]]
    BY <1>1, <2>3, <2>4, <2>5, UnitCallsItself
  <2>6. UnitLinks'
    BY <1>1, <2>2, <2>5 DEF UnitLinks
  <2>7. job'.pc = "idle"
    BY <2>1 DEF Idle
  <2> QED
    BY <1>2, <2>6, <2>7 DEF LInv, CodeLinked, Progress, BegunLinked, Begins, HandlesOf, InUnit
<1>4. CASE Pending # {}
  <2>1. job' = [job EXCEPT !.pc = "define", !.at = 1] /\ UNCHANGED answer
    BY <1>4 DEF BeginBodies
  <2>2. job' = [pc |-> "define", unit |-> job.unit, handles |-> job.handles, at |-> 1]
    BY <2>1, JobShape DEF Jobs
  <2>3. job'.pc = "define" /\ job'.unit = job.unit /\ job'.handles = job.handles /\ job'.at = 1
    BY <2>2
  <2>4. \A k \in DOMAIN job.unit : ~(k < 1)
    BY JobShape
  <2>5. Progress' /\ UnitLinks'
    BY <1>1, <2>1, <2>3, UnansweredLinks DEF Progress, InUnit, DistinctNames, Optimal
  <2>6. Len(job.handles) = Len(job.unit)
    <3>1. Len(job.handles) = job.at - 1 /\ job.at <= Len(job.unit) + 1
      BY <1>1 DEF HandlesOf
    <3> QED
      BY <1>1, <3>1, JobShape
  <2>7. HandlesOf'
    BY <1>1, <2>3, <2>6 DEF HandlesOf
  <2>8. BegunLinked'
    BY <2>3, <2>4 DEF BegunLinked, Begins
  <2> QED
    BY <1>2, <2>5, <2>7, <2>8 DEF LInv, CodeLinked
<1> QED
  BY <1>3, <1>4

(* The links of new code for a handle of its own disturb no other's.        *)
LEMMA OthersLead ==
  ASSUME IInv, NEW h, \A g \in Handle : g # h => links'[g] = links[g], UNCHANGED handleOf,
         NEW s \in Spec, handleOf[s] # 0, handleOf[s] # h, NEW n
  PROVE  (LeadsOn(s, n) => LeadsOn(s, n)') /\ (Leads(s, n) => Leads(s, n)')
<1>1. handleOf[s] \in Handle
  BY JobShape, JitAssumption DEF Handle
<1>2. links'[handleOf'[s]] = links[handleOf[s]]
  BY <1>1
<1> QED
  BY <1>2 DEF LeadsOn, Leads

LEMMA DefineBodyKeepsL ==
  ASSUME IInv, LInv, DefineBody
  PROVE  LInv'
<1> DEFINE s == job.unit[job.at]
           h == handleOf[s]
<1>1. /\ job.pc = "define" /\ job.at <= Len(job.unit) /\ InUnit /\ Progress /\ HandlesOf
      /\ UNCHANGED <<handleOf, ready>>
  BY DEF DefineBody, InUnit, cache, LInv
<1>2. /\ job.at \in DOMAIN job.unit /\ s \in Spec /\ s \in ToSet(job.unit) /\ h \in Handle
      /\ \A k \in DOMAIN job.unit : (k < job.at => k < job.at + 1) /\ (k < job.at + 1 => k < job.at \/ k = job.at)
  BY <1>1, PlaceInUnit
<1>3. ASSUME job'.pc = job.pc, job'.unit = job.unit, job'.handles = job.handles, UNCHANGED answer
      PROVE  Progress' /\ HandlesOf' /\ UnitLinks'
  <2>1. Progress' /\ UnitLinks'
    BY <1>1, <1>3, UnansweredLinks DEF Progress, InUnit, DistinctNames, Optimal
  <2>2. HandlesOf'
    BY <1>1, <1>3 DEF HandlesOf
  <2> QED
    BY <2>1, <2>2
<1>4. CASE s \notin Pending
  <2>1. job' = [job EXCEPT !.at = @ + 1] /\ UNCHANGED <<code, answer, leftover>>
    BY <1>4 DEF DefineBody
  <2>2. s \in ready
    BY <1>2, <1>4 DEF Pending
  <2>3. job' = [pc |-> job.pc, unit |-> job.unit, handles |-> job.handles, at |-> job.at + 1]
    BY <2>1, JobShape DEF Jobs
  <2>4. job'.pc = job.pc /\ job'.unit = job.unit /\ job'.handles = job.handles /\ job'.at = job.at + 1
    BY <1>1, <2>3
  <2>5. Progress' /\ HandlesOf' /\ UnitLinks'
    BY <1>3, <2>1, <2>4
  <2>6. UNCHANGED links
    BY <2>1 DEF code
  <2>7. CodeLinked'
    BY <1>1, <2>6, CodeLinkedStays DEF LInv, CodeLinked
  <2>8. BegunLinked'
    <3>1. ASSUME NEW t, NEW k \in DOMAIN job.unit, k < job.at + 1, job.unit[k] = t, t \notin ready,
                 NEW n \in Calls[t]
          PROVE  Leads(t, n)'
      <4>1. k < job.at
        BY <1>2, <2>2, <3>1
      <4>2. Leads(t, n)
        BY <1>1, <3>1, <4>1 DEF LInv, BegunLinked, Begins
      <4> QED
        BY <1>1, <2>6, <4>2 DEF Leads
    <3> QED
      BY <1>1, <2>4, <3>1 DEF BegunLinked, Begins
  <2> QED
    BY <2>5, <2>7, <2>8 DEF LInv, CodeLinked
<1>5. CASE s \in Pending /\ Refuses(s, h, "body")
  <2>1. PICK o : Fail(o) /\ UNCHANGED links /\ o # "ok"
    BY <1>5 DEF Refuses, code
  <2> QED
    BY <1>1, <2>1, FailedKeepsL
<1>6. CASE s \in Pending /\ Makes(s, h, "body")
  <2>1. s \notin ready
    BY <1>6 DEF Pending
  <2>2. /\ links'[h] = {Link(n) : n \in Calls[s]} /\ \A g \in Handle : g # h => links'[g] = links[g]
        /\ job'.pc = job.pc /\ job'.unit = job.unit /\ job'.handles = job.handles /\ job'.at = job.at + 1
        /\ UNCHANGED answer
    <3> HIDE DEF s, h
    <3> QED
      BY <1>1, <1>2, <1>6, CodeMade
  <2>3. Progress' /\ HandlesOf' /\ UnitLinks'
    BY <1>3, <2>2
  <2>4. RecordsOptimal'
    BY <1>1 DEF LInv, RecordsOptimal
  <2>5. \A t \in Spec : t # s /\ handleOf[t] # 0 => handleOf[t] # h
    BY <1>2, OwnHandle
  <2>6. ReadyLinked'
    <3>1. ASSUME NEW t \in ready, NEW n \in Calls[t] PROVE LeadsOn(t, n)'
      <4>1. LeadsOn(t, n) /\ t \in Spec /\ handleOf[t] # 0 /\ t # s
        BY <2>1, <3>1, ReadyIn DEF LInv, ReadyLinked
      <4>2. handleOf[t] # h
        BY <2>5, <4>1
      <4> HIDE DEF h
      <4> QED
        BY <1>1, <2>2, <4>1, <4>2, OthersLead
    <3> QED
      BY <1>1, <3>1 DEF ReadyLinked
  <2>7. ASSUME NEW t, t = s, NEW n \in Calls[t] PROVE Leads(t, n)'
    <3>1. active = {<<NameOf[r], handleOf[r]>> : r \in ToSet(job.unit)}
      BY <1>1 DEF IInv, JobOK
    <3>2. \/ Link(n)[2] = 0
          \/ \E r \in Spec : handleOf[r] = Link(n)[2] /\ NameOf[r] = n
      BY <3>1, LinkOf, JobShape
    <3>3. PICK l : l = Link(n)
      OBVIOUS
    <3>4. l = <<n, l[2]>>
      BY <3>3 DEF Link
    <3>5. l \in links'[handleOf'[t]]
      BY <1>1, <2>2, <2>7, <3>3
    <3>6. l[2] # 0 => \E r \in Spec : handleOf'[r] = l[2] /\ NameOf[r] = n
      BY <1>1, <3>2, <3>3
    <3> QED
      BY <1>1, <2>7, <3>4, <3>5, <3>6 DEF Leads
  <2>8. BegunLinked'
    <3>1. ASSUME NEW t \in Spec, NEW k \in DOMAIN job.unit, k < job.at + 1, job.unit[k] = t, t \notin ready,
                 NEW n \in Calls[t]
          PROVE  Leads(t, n)'
      <4>1. CASE t = s
        BY <2>7, <3>1, <4>1
      <4>2. CASE t # s
        <5>1. k < job.at
          BY <1>2, <3>1, <4>2
        <5>2. Leads(t, n) /\ handleOf[t] # 0
          <6>1. Leads(t, n)
            BY <1>1, <3>1, <5>1 DEF LInv, BegunLinked, Begins
          <6>2. handleOf[t] # 0
            BY <1>1, <3>1 DEF IInv, JobOK
          <6> QED
            BY <6>1, <6>2
        <5>3. handleOf[t] # h
          BY <2>5, <4>2, <5>2
        <5> HIDE DEF h
        <5> QED
          BY <1>1, <2>2, <5>2, <5>3, OthersLead
      <4> QED
        BY <4>1, <4>2
    <3> QED
      BY <1>1, <2>2, <3>1, JobShape DEF BegunLinked, Begins
  <2> QED
    BY <2>3, <2>4, <2>6, <2>8 DEF LInv
<1>7. s \in Pending => Define(s, h, "body")
  BY DEF DefineBody
<1> HIDE DEF s, h
<1> QED
  BY <1>4, <1>5, <1>6, <1>7, DefineCases


LEMMA DefineUncachedKeepsL ==
  ASSUME IInv, LInv, DefineUncached
  PROVE  LInv'
<1> DEFINE s == job.unit[1]
           h == job.handles[1]
<1>1. /\ job.pc = "uncached" /\ job.at = 1 /\ Define(s, h, "packed")
      /\ UNCHANGED <<handleOf, ready>>
  BY DEF DefineUncached, cache
<1>2. Len(job.unit) = 1 /\ Len(job.handles) = 1 /\ \A t \in Spec : handleOf[t] # h
  BY <1>1 DEF IInv, JobOK
<1>3. s \in ToSet(job.unit) /\ h \in Handle
  BY <1>2, JobShape, Elements
<1>4. CASE Refuses(s, h, "packed")
  <2>1. PICK o : Fail(o) /\ UNCHANGED links /\ o # "ok"
    BY <1>4 DEF Refuses, code
  <2> QED
    BY <1>1, <2>1, FailedKeepsL
<1>5. CASE Makes(s, h, "packed")
  <2>1. /\ \A g \in Handle : g # h => links'[g] = links[g]
        /\ job'.pc = job.pc
        /\ UNCHANGED answer
    <3> HIDE DEF s, h
    <3> QED
      BY <1>3, <1>5, CodeMade
  <2>2. Progress' /\ UnitLinks'
    BY <1>1, <2>1, UnansweredLinks DEF LInv, Progress, InUnit
  <2>3. ReadyLinked'
    <3>1. ASSUME NEW t \in ready, NEW n \in Calls[t] PROVE LeadsOn(t, n)'
      <4>1. LeadsOn(t, n) /\ t \in Spec /\ handleOf[t] # 0 /\ handleOf[t] # h
        BY <1>2, <3>1, ReadyIn DEF LInv, ReadyLinked
      <4> HIDE DEF h
      <4> QED
        BY <1>1, <2>1, <4>1, OthersLead
    <3> QED
      BY <1>1, <3>1 DEF ReadyLinked
  <2> QED
    BY <1>1, <2>1, <2>2, <2>3 DEF LInv, RecordsOptimal, BegunLinked, Begins, HandlesOf, InUnit
<1> HIDE DEF s, h
<1> QED
  BY <1>1, <1>4, <1>5, DefineCases

(* What the finalization accepts leads on.                                  *)
LEMMA PublishedLead ==
  ASSUME IInv, LInv, FinishUnit, \A i \in DOMAIN toFinalize : Resolves(toFinalize[i]),
         NEW s \in ToSet(job.unit), NEW n \in Calls[s]
  PROVE  LeadsOn(s, n)
<1>1. CASE s \in ready
  BY <1>1 DEF LInv, ReadyLinked
<1>2. CASE s \notin ready
  <2>1. PICK k \in DOMAIN job.unit : job.unit[k] = s
    BY DEF ToSet
  <2>2. job.pc = "define" /\ k < job.at
    BY JobShape DEF FinishUnit
  <2>3. PICK l \in links[handleOf[s]] :
          l = <<n, l[2]>> /\ (l[2] # 0 => \E t \in Spec : handleOf[t] = l[2] /\ NameOf[t] = n)
    BY <1>2, <2>1, <2>2 DEF LInv, BegunLinked, Begins, Leads
  <2>4. <<handleOf[s], "body">> \in ToSet(toFinalize)
    BY <1>2, <2>1, <2>2 DEF IInv, JobOK, Begun
  <2>5. PICK c : c = <<handleOf[s], "body">>
    OBVIOUS
  <2>6. Resolves(c)
    BY <2>4, <2>5 DEF ToSet
  <2>7. l[2] = 0 => n \in Linker
    BY <2>3, <2>5, <2>6 DEF Resolves
  <2> QED
    BY <2>3, <2>7 DEF LeadsOn
<1> QED
  BY <1>1, <1>2

LEMMA FinishKeepsL ==
  ASSUME NamesMean, IInv, LInv, FinishUnit \/ FinishUncached
  PROVE  LInv'
<1>1. UNCHANGED <<handleOf, links>>
  BY DEF FinishUnit, FinishUncached, Finalize, cache
<1>2. CASE ~(\A i \in DOMAIN toFinalize : Resolves(toFinalize[i]))
  <2>1. {i \in DOMAIN toFinalize : ~Resolves(toFinalize[i])} # {}
    BY <1>2
  <2>2. Fail("unresolved") /\ UNCHANGED ready
    BY <2>1 DEF FinishUnit, FinishUncached, Finalize
  <2> QED
    BY <1>1, <2>2, FailedKeepsL
<1>3. CASE \A i \in DOMAIN toFinalize : Resolves(toFinalize[i])
  <2>1. {i \in DOMAIN toFinalize : ~Resolves(toFinalize[i])} = {}
    BY <1>3
  <2>2. CASE FinishUnit
    <3>1. PublishUnit /\ job.pc = "define" /\ InUnit
      BY <2>1, <2>2 DEF FinishUnit, Finalize, InUnit
    <3>2. job' = Idle /\ ready' = ready \cup Pending /\ Answer("ok", job.unit, job.handles)
      BY <3>1 DEF PublishUnit
    <3>3. answer'.unit = job.unit /\ answer'.handles = job.handles /\ job'.pc = "idle"
      BY <3>2, AnswerMade DEF Idle
    <3>4. \A s \in ToSet(job.unit) : \A n \in Calls[s] : LeadsOn(s, n)
      BY <1>3, <2>2, PublishedLead
    <3>5. Progress /\ RecordsOptimal /\ HandlesOf
      BY DEF LInv
    <3>6. \A k \in DOMAIN job.unit : handleOf[job.unit[k]] # 0
      BY <3>1 DEF IInv, JobOK
    <3>7. ASSUME NEW i \in DOMAIN job.handles, NEW j \in DOMAIN job.handles,
                 NameOf[job.unit[j]] \in Calls[job.unit[i]]
          PROVE  <<NameOf[job.unit[j]], job.handles[j]>> \in links[job.handles[i]]
      BY <3>1, <3>4, <3>5, <3>6, <3>7, UnitCallsItself
    <3>8. UnitLinks'
      BY <1>1, <3>3, <3>7 DEF UnitLinks
    <3>9. ReadyLinked'
      <4>1. \A s \in ready' : \A n \in Calls[s] : LeadsOn(s, n)
        BY <3>2, <3>4 DEF LInv, ReadyLinked, Pending
      <4> QED
        BY <1>1, <4>1 DEF ReadyLinked, LeadsOn
    <3> QED
      BY <1>1, <3>3, <3>5, <3>8, <3>9 DEF LInv, Progress, RecordsOptimal, BegunLinked, Begins, HandlesOf, InUnit
  <2>3. CASE FinishUncached
    <3>1. PublishUncached /\ job.pc = "uncached"
      BY <2>1, <2>3 DEF FinishUncached, Finalize
    <3>2. job' = Idle /\ UNCHANGED ready /\ Answer("ok", job.unit, job.handles)
      BY <3>1 DEF PublishUncached
    <3>3. answer'.unit = job.unit /\ answer'.handles = job.handles /\ job'.pc = "idle"
      BY <3>2, AnswerMade DEF Idle
    <3>4. Len(job.handles) = 1 /\ Len(job.unit) = 1 /\ \A t \in Spec : handleOf[t] # job.handles[1]
      BY <3>1 DEF IInv, JobOK
    <3>5. \A i \in DOMAIN job.handles : i = 1
      BY <3>4, JobShape, Elements
    <3>6. job.unit[1] \in Spec
      BY <3>4, JobShape
    <3>7. UnitLinks'
      BY <1>1, <3>3, <3>4, <3>5, <3>6 DEF UnitLinks
    <3>8. CodeLinked'
      BY <1>1, <3>2, CodeLinkedStays DEF LInv, CodeLinked
    <3> QED
      BY <3>3, <3>7, <3>8 DEF LInv, CodeLinked, Progress, BegunLinked, Begins, HandlesOf, InUnit
  <2> QED
    BY <2>2, <2>3
<1> QED
  BY <1>2, <1>3

LEMMA InitLInv == Init => LInv
<1> SUFFICES ASSUME Init PROVE LInv
  OBVIOUS
<1>1. job.pc = "idle" /\ answer.outcome = "none" /\ ready = {} /\ \A s \in Spec : handleOf[s] = 0
  BY DEF Init, Idle, NoAnswer
<1> QED
  BY <1>1 DEF LInv, Progress, InUnit, RecordsOptimal, ReadyLinked, BegunLinked, Begins, HandlesOf, UnitLinks

LEMMA StutterKeepsL ==
  ASSUME LInv, UNCHANGED vars
  PROVE  LInv'
<1>1. UNCHANGED <<handleOf, ready, links, job, answer>>
  BY DEF vars, cache, code
<1>2. Progress' /\ UnitLinks' /\ HandlesOf'
  BY <1>1 DEF LInv, Progress, UnitLinks, HandlesOf, InUnit, DistinctNames, Optimal
<1>3. CodeLinked'
  BY <1>1, CodeLinkedStays DEF LInv, CodeLinked
<1>4. BegunLinked'
  BY <1>1 DEF LInv, BegunLinked, Leads, Begins
<1> QED
  BY <1>2, <1>3, <1>4 DEF LInv, CodeLinked

(* Where a name means one function and none of the linker's, a unit that    *)
(* was compiled is linked to itself, whichever of its functions had been    *)
(* compiled before.  Without the hypothesis it is not: that is the run in   *)
(* which two functions share a name.                                        *)
THEOREM LinkedToItself == NamesMean => (JitSpec => []UnitLinks)
<1>1. NamesMean /\ IInv /\ LInv /\ [Next]_vars => LInv'
  BY RequestsKeepL, DeclareKeepsL, BeginBodiesKeepsL, DefineBodyKeepsL, DefineUncachedKeepsL,
     FinishKeepsL, StutterKeepsL DEF Next, Step
<1>2. LInv => UnitLinks
  BY DEF LInv
<1> SUFFICES ASSUME NamesMean PROVE JitSpec => []UnitLinks
  OBVIOUS
<1>3. IInv /\ LInv /\ [Next]_vars => LInv'
  BY <1>1
<1> QED
  BY <1>2, <1>3, InitLInv, Invariant, PTL DEF JitSpec
=============================================================================
