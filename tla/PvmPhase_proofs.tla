-------------------------- MODULE PvmPhase_proofs --------------------------
(***************************************************************************)
(* Theorems about PvmPhase, for every set of nodes and consumers, every    *)
(* output and every bound.                                                 *)
(***************************************************************************)
EXTENDS PvmPhase, SequenceTheorems, FiniteSetTheorems, TLAPS

-----------------------------------------------------------------------------
(* Sequences *)

(* A function on 1..n is a sequence of length n. *)
LEMMA FunctionIsSequence ==
  ASSUME NEW S, NEW n \in Nat, NEW f \in [1..n -> S]
  PROVE  f \in Seq(S) /\ Len(f) = n
<1>1. f \in Seq(S)
  BY SeqDef
<1>2. DOMAIN f = 1..n
  OBVIOUS
<1> QED
  BY <1>1, <1>2, LenProperties

(* The first k elements of a sequence. *)
LEMMA InitialSegment ==
  ASSUME NEW S, NEW s \in Seq(S), NEW k \in 0..Len(s)
  PROVE  /\ SubSeq(s, 1, k) \in Seq(S)
         /\ Len(SubSeq(s, 1, k)) = k
         /\ \A j \in 1..k : SubSeq(s, 1, k)[j] = s[j]
<1>1. k \in Int /\ 1 \in Int /\ k >= 0 /\ \A j \in 1..k : s[j] \in S
  BY LenProperties, ElementOfSeq
<1>2. /\ SubSeq(s, 1, k) \in Seq(S)
      /\ Len(SubSeq(s, 1, k)) = IF 1 <= k THEN k - 1 + 1 ELSE 0
      /\ \A j \in 1..k - 1 + 1 : SubSeq(s, 1, k)[j] = s[1 + j - 1]
  BY <1>1, SubSeqProperties
<1>3. k - 1 + 1 = k /\ \A j \in 1..k : 1 + j - 1 = j
  BY <1>1
<1> QED
  BY <1>1, <1>2, <1>3

(* Growing a buffer that is a prefix of its source, up to k elements of    *)
(* it, gives the prefix of length k.                                       *)
LEMMA GrownProperties ==
  ASSUME NEW b \in Seq(Value), NEW s \in Seq(Value), IsPrefixOf(b, s),
         NEW k \in Len(b)..Len(s)
  PROVE  /\ Grown(b, s, k) \in Seq(Value)
         /\ Len(Grown(b, s, k)) = k
         /\ \A i \in 1..k : Grown(b, s, k)[i] = s[i]
         /\ IsPrefixOf(Grown(b, s, k), s)
         /\ IsPrefixOf(b, Grown(b, s, k))
<1>1. k \in Nat
  BY LenProperties
<1>2. /\ Len(b) \in Nat /\ Len(s) \in Nat
      /\ \A i \in 1..Len(s) : s[i] \in Value
      /\ \A i \in 1..Len(b) : b[i] = s[i]
  BY LenProperties, ElementOfSeq DEF IsPrefixOf
<1>3. Grown(b, s, k) \in [1..k -> Value]
  BY <1>1, <1>2 DEF Grown
<1>4. Grown(b, s, k) \in Seq(Value)
  BY <1>1, <1>3, SeqDef
<1>5. DOMAIN Grown(b, s, k) = 1..k
  BY DEF Grown
<1>6. Len(Grown(b, s, k)) = k
  BY <1>1, <1>4, <1>5, LenProperties
<1>7. \A i \in 1..k : Grown(b, s, k)[i] = s[i]
  BY <1>1, <1>2 DEF Grown
<1>8. IsPrefixOf(Grown(b, s, k), s) /\ IsPrefixOf(b, Grown(b, s, k))
  BY <1>1, <1>2, <1>6, <1>7 DEF IsPrefixOf
<1> QED
  BY <1>4, <1>6, <1>7, <1>8

-----------------------------------------------------------------------------
(* Recordings *)

(* The parts of a recording have their types. *)
LEMMA SourceType ==
  ASSUME TypeOK, NEW e \in 1..Len(entries)
  PROVE  /\ entries[e] \in EntryType
         /\ Buf(e) \in Seq(Value)
         /\ Source(e) \in Seq(Value)
<1>1. entries[e] \in EntryType
  BY ElementOfSeq DEF TypeOK
<1> QED
  BY <1>1, OutputAssumption DEF EntryType, Buf, Source

(* A buffer never leaves its source, and a finished one has all of it. *)
BuffersExact ==
  \A e \in 1..Len(entries) :
    /\ IsPrefixOf(Buf(e), Source(e))
    /\ entries[e].done => Len(Buf(e)) = Len(Source(e))

(* What a consumer's triplet may be: a position in a recording, finished   *)
(* if it is read as a cached array.                                        *)
Holding(c, es) ==
  c.st # "idle" =>
    /\ c.src \in 1..Len(es)
    /\ c.kind = "seq" => es[c.src].done
    /\ c.i <= Len(es[c.src].buf)
    /\ c.hi <= Len(es[c.src].buf)

Held ==
  /\ \A r \in Reader : Holding(readers[r], entries)
  /\ \A j \in 1..Len(stack) : readers[stack[j]].st = "open"
  /\ \A j, k \in 1..Len(stack) : stack[j] = stack[k] => j = k

EntriesOK ==
  /\ cache \in [Gen -> [Node -> Nat]]
  /\ pending \in [Gen -> [Node -> Nat]]
  /\ entries \in Seq(EntryType)
  /\ BuffersExact
  /\ Filed

ConsumersOK ==
  /\ readers \in [Reader -> ReaderType]
  /\ stack \in Seq(Reader)
  /\ Held

CountersOK ==
  /\ gen \in Gen
  /\ stats \in [calls : Nat, hits : Nat, shared : Nat]
  /\ errors \in Nat

(* The inductive invariant. *)
IInv == EntriesOK /\ ConsumersOK /\ CountersOK

(* The inductive invariant includes the type invariant. *)
LEMMA IInvTypeOK == IInv => TypeOK
BY DEF IInv, EntriesOK, ConsumersOK, CountersOK, TypeOK

(* What any step does to the recordings: it may begin new ones in the      *)
(* current generation and grow buffers, and leaves finished ones alone.    *)
Grows ==
  /\ Len(entries) <= Len(entries')
  /\ \A e \in 1..Len(entries') : e > Len(entries) => entries'[e].gen = gen
  /\ \A e \in 1..Len(entries) :
       /\ entries'[e].gen = entries[e].gen
       /\ entries'[e].node = entries[e].node
       /\ IsPrefixOf(Buf(e), entries'[e].buf)
       /\ entries[e].done => entries'[e] = entries[e]

(* A step that leaves the recordings and tables alone keeps what the       *)
(* invariant says of them.                                                 *)
LEMMA EntriesUnchanged ==
  ASSUME IInv, UNCHANGED <<cache, pending, entries>>
  PROVE  EntriesOK' /\ Grows
<1>1. \A e \in 1..Len(entries) : IsPrefixOf(Buf(e), Buf(e))
  BY IInvTypeOK, SourceType, LenProperties DEF IsPrefixOf
<1>2. Len(entries) \in Nat
  BY LenProperties DEF IInv, EntriesOK
<1>3. Grows
  BY <1>1, <1>2 DEF Grows, Buf
<1>4. EntriesOK'
  BY DEF IInv, EntriesOK, BuffersExact, Filed, Buf, Source
<1> QED
  BY <1>3, <1>4

(* So does one that only replaces a recording in flight by one that holds  *)
(* more of its source.                                                     *)
LEMMA EntryReplaced ==
  ASSUME IInv, NEW e \in 1..Len(entries), ~entries[e].done,
         NEW b \in Seq(Value), NEW d \in BOOLEAN,
         IsPrefixOf(Buf(e), b), IsPrefixOf(b, Source(e)),
         d => Len(b) = Len(Source(e)),
         entries' = [entries EXCEPT ![e].buf = b, ![e].done = d]
  PROVE  /\ entries' \in Seq(EntryType)
         /\ Len(entries') = Len(entries)
         /\ entries'[e] = [entries[e] EXCEPT !.buf = b, !.done = d]
         /\ \A f \in 1..Len(entries) : f # e => entries'[f] = entries[f]
         /\ BuffersExact'
         /\ Grows
<1> DEFINE x == [entries[e] EXCEPT !.buf = b, !.done = d]
<1>1. TypeOK
  BY IInvTypeOK
<1>2. entries \in Seq(EntryType) /\ entries[e] \in EntryType /\ Len(entries) \in Nat
  BY <1>1, SourceType, LenProperties DEF TypeOK
<1>3. x \in EntryType
  BY <1>2 DEF EntryType
<1>4. entries' = [entries EXCEPT ![e] = x]
  BY <1>2, LenProperties DEF EntryType
<1>5. /\ entries' \in Seq(EntryType)
      /\ Len(entries') = Len(entries)
      /\ \A j \in 1..Len(entries) : entries'[j] = IF j = e THEN x ELSE entries[j]
  <2> HIDE DEF x
  <2>1. entries \in [1..Len(entries) -> EntryType]
    BY <1>2, LenProperties
  <2>2. entries' \in [1..Len(entries) -> EntryType]
    BY <2>1, <1>3, <1>4
  <2>3. entries' \in Seq(EntryType)
    BY <2>2, <1>2, FunctionIsSequence, Zenon
  <2>4. Len(entries') = Len(entries)
    BY <2>2, <2>3, <1>2, LenProperties
  <2> QED
    BY <2>1, <2>3, <2>4, <1>4
<1>6. /\ x.buf = b /\ x.done = d
      /\ x.gen = entries[e].gen /\ x.node = entries[e].node
  BY <1>2 DEF EntryType
<1> HIDE DEF x
<1>7. BuffersExact'
  <2> SUFFICES ASSUME NEW f \in 1..Len(entries)
               PROVE  /\ IsPrefixOf(entries'[f].buf, Out[entries'[f].gen][entries'[f].node])
                      /\ entries'[f].done => Len(entries'[f].buf) = Len(Out[entries'[f].gen][entries'[f].node])
    BY <1>5 DEF BuffersExact, Buf, Source
  <2>1. CASE f = e
    BY <2>1, <1>5, <1>6 DEF Source
  <2>2. CASE f # e
    BY <2>2, <1>5 DEF IInv, EntriesOK, BuffersExact, Buf, Source
  <2> QED
    BY <2>1, <2>2
<1>8. Grows
  <2>1. \A f \in 1..Len(entries) : IsPrefixOf(Buf(f), Buf(f))
    BY <1>1, SourceType, LenProperties DEF IsPrefixOf
  <2> SUFFICES ASSUME NEW f \in 1..Len(entries)
               PROVE  /\ entries'[f].gen = entries[f].gen
                      /\ entries'[f].node = entries[f].node
                      /\ IsPrefixOf(Buf(f), entries'[f].buf)
                      /\ entries[f].done => entries'[f] = entries[f]
    BY <1>2, <1>5 DEF Grows
  <2> QED
    BY <2>1, <1>5, <1>6 DEF Buf
<1> QED
  BY <1>5, <1>7, <1>8 DEF x

(* advance_recording, as far as it goes without the end of the source. *)
LEMMA AdvanceStep ==
  ASSUME IInv, NEW e \in 1..Len(entries), ~entries[e].done,
         NEW k \in Len(Buf(e))..Len(Source(e)), AdvanceRecording(e, k)
  PROVE  /\ EntriesOK' /\ Grows
         /\ Len(entries') = Len(entries)
         /\ entries'[e].buf = Grown(Buf(e), Source(e), k)
         /\ Len(entries'[e].buf) = k
<1> DEFINE b == Grown(Buf(e), Source(e), k)
<1>1. /\ entries[e] \in EntryType /\ Buf(e) \in Seq(Value) /\ Source(e) \in Seq(Value)
      /\ entries \in Seq(EntryType) /\ Len(entries) \in Nat
  BY IInvTypeOK, SourceType, LenProperties DEF TypeOK
<1>2. IsPrefixOf(Buf(e), Source(e))
  BY DEF IInv, EntriesOK, BuffersExact
<1>3. /\ b \in Seq(Value) /\ Len(b) = k
      /\ IsPrefixOf(b, Source(e)) /\ IsPrefixOf(Buf(e), b)
  BY <1>1, <1>2, GrownProperties
<1>4. entries' = [entries EXCEPT ![e].buf = b, ![e].done = FALSE]
  <2>1. entries' = [entries EXCEPT ![e].buf = b]
    BY DEF AdvanceRecording
  <2>2. [entries[e] EXCEPT !.buf = b] = [entries[e] EXCEPT !.buf = b, !.done = FALSE]
    BY <1>1 DEF EntryType
  <2> QED
    BY <2>1, <2>2
<1> HIDE DEF b
<1>5. /\ entries' \in Seq(EntryType)
      /\ Len(entries') = Len(entries)
      /\ entries'[e] = [entries[e] EXCEPT !.buf = b, !.done = FALSE]
      /\ \A f \in 1..Len(entries) : f # e => entries'[f] = entries[f]
      /\ BuffersExact'
      /\ Grows
  BY <1>3, <1>4, EntryReplaced
<1>6. entries'[e].buf = b /\ entries'[e].done = FALSE
  BY <1>1, <1>5 DEF EntryType
<1>7. \A f \in 1..Len(entries) : /\ entries'[f].done = entries[f].done
                                 /\ entries'[f].gen = entries[f].gen
                                 /\ entries'[f].node = entries[f].node
  BY <1>1, <1>5, <1>6 DEF Grows, EntryType
<1>8. UNCHANGED <<cache, pending>>
  BY DEF AdvanceRecording
<1>9. Filed'
  <2>1. ASSUME NEW f \in 1..Len(entries)
        PROVE  LET h == entries'[f].gen
                   m == entries'[f].node IN
               /\ cache'[h][m] = IF entries'[f].done THEN f ELSE Nil
               /\ pending'[h][m] = IF entries'[f].done THEN Nil ELSE f
    <3>1. Filed
      BY DEF IInv, EntriesOK
    <3> QED
      BY ONLY <1>7, <1>8, <3>1, f \in 1..Len(entries) DEF Filed
  <2>2. ASSUME NEW h \in Gen, NEW m \in Node, NEW f \in {cache[h][m], pending[h][m]} \ {Nil}
        PROVE  f <= Len(entries) /\ entries'[f].gen = h /\ entries'[f].node = m
    <3>1. f <= Len(entries) /\ entries[f].gen = h /\ entries[f].node = m
      BY DEF IInv, EntriesOK, Filed
    <3>2. f \in 1..Len(entries)
      BY <3>1, <1>1 DEF IInv, EntriesOK, Nil
    <3> QED
      BY <3>1, <3>2, <1>7
  <2> QED
    BY <2>1, <2>2, <1>5, <1>8 DEF Filed
<1> QED
  BY <1>3, <1>5, <1>6, <1>8, <1>9 DEF IInv, EntriesOK, b

(* advance_recording at the end of the source: finish_recording. *)
LEMMA FinishStep ==
  ASSUME IInv, NEW e \in 1..Len(entries), ~entries[e].done,
         NEW b \in Seq(Value), IsPrefixOf(Buf(e), b), IsPrefixOf(b, Source(e)),
         Len(b) = Len(Source(e)), FinishRecording(e, b)
  PROVE  /\ EntriesOK' /\ Grows
         /\ Len(entries') = Len(entries)
         /\ entries'[e].buf = b
         /\ entries'[e].done
<1> DEFINE g == entries[e].gen
           n == entries[e].node
<1>1. /\ entries[e] \in EntryType /\ g \in Gen /\ n \in Node
      /\ entries \in Seq(EntryType) /\ Len(entries) \in Nat
  BY IInvTypeOK, SourceType, LenProperties DEF TypeOK, EntryType
<1>2. /\ entries' = [entries EXCEPT ![e].buf = b, ![e].done = TRUE]
      /\ cache' = [cache EXCEPT ![g][n] = e]
      /\ pending' = [pending EXCEPT ![g][n] = Nil]
  BY DEF FinishRecording
<1>3. /\ entries' \in Seq(EntryType)
      /\ Len(entries') = Len(entries)
      /\ entries'[e] = [entries[e] EXCEPT !.buf = b, !.done = TRUE]
      /\ \A f \in 1..Len(entries) : f # e => entries'[f] = entries[f]
      /\ BuffersExact'
      /\ Grows
  BY <1>2, EntryReplaced
<1>4. /\ entries'[e].buf = b /\ entries'[e].done = TRUE
      /\ entries'[e].gen = g /\ entries'[e].node = n
  BY <1>1, <1>3 DEF EntryType
<1> HIDE DEF g, n
<1>5. /\ cache \in [Gen -> [Node -> Nat]]
      /\ pending \in [Gen -> [Node -> Nat]]
  BY DEF IInv, EntriesOK
<1>6. /\ cache' \in [Gen -> [Node -> Nat]]
      /\ pending' \in [Gen -> [Node -> Nat]]
  BY <1>1, <1>2, <1>5 DEF Nil
<1>7. \A h \in Gen, m \in Node :
        /\ cache'[h][m] = IF h = g /\ m = n THEN e ELSE cache[h][m]
        /\ pending'[h][m] = IF h = g /\ m = n THEN Nil ELSE pending[h][m]
  BY <1>1, <1>2, <1>5
<1>8. pending[g][n] = e /\ e # Nil
  BY DEF IInv, EntriesOK, Filed, g, n, Nil
<1>9. Filed'
  <2>1. ASSUME NEW f \in 1..Len(entries)
        PROVE  LET h == entries'[f].gen
                   m == entries'[f].node IN
               /\ cache'[h][m] = IF entries'[f].done THEN f ELSE Nil
               /\ pending'[h][m] = IF entries'[f].done THEN Nil ELSE f
    <3>1. CASE f = e
      BY <3>1, <1>1, <1>4, <1>7
    <3>2. CASE f # e
      <4>1. entries'[f] = entries[f] /\ entries[f].gen \in Gen /\ entries[f].node \in Node
        BY <3>2, <1>3, IInvTypeOK, SourceType DEF EntryType
      <4>2. /\ cache[entries[f].gen][entries[f].node] = IF entries[f].done THEN f ELSE Nil
            /\ pending[entries[f].gen][entries[f].node] = IF entries[f].done THEN Nil ELSE f
        BY DEF IInv, EntriesOK, Filed
      <4>3. /\ cache[g][n] = Nil
            /\ entries[f].gen # g \/ entries[f].node # n
        BY <3>2, <4>2, <1>8 DEF IInv, EntriesOK, Filed, g, n, Nil
      <4> QED
        BY <4>1, <4>2, <4>3, <1>7
    <3> QED
      BY <3>1, <3>2
  <2>2. ASSUME NEW h \in Gen, NEW m \in Node, NEW f \in {cache'[h][m], pending'[h][m]} \ {Nil}
        PROVE  f <= Len(entries) /\ entries'[f].gen = h /\ entries'[f].node = m
    <3>1. CASE h = g /\ m = n
      BY <3>1, <1>1, <1>4, <1>7
    <3>2. CASE ~(h = g /\ m = n)
      <4>1. f \in {cache[h][m], pending[h][m]} \ {Nil}
        BY <3>2, <1>7
      <4>2. f <= Len(entries) /\ entries[f].gen = h /\ entries[f].node = m
        BY <4>1 DEF IInv, EntriesOK, Filed
      <4>3. f \in 1..Len(entries)
        BY <4>1, <4>2, <1>1, <1>5 DEF Nil
      <4> QED
        BY <4>2, <4>3, <1>3, <1>4 DEF Grows
    <3> QED
      BY <3>1, <3>2
  <2> QED
    BY <2>1, <2>2, <1>3 DEF Filed
<1> QED
  BY <1>3, <1>4, <1>6, <1>9 DEF EntriesOK

(* A miss: a new recording in the pending table. *)
LEMMA BeginStep ==
  ASSUME IInv, NEW r \in Reader, NEW n \in Node, CallMiss(r, n)
  PROVE  /\ EntriesOK' /\ Grows
         /\ Len(entries') = Len(entries) + 1
         /\ entries'[Len(entries) + 1].buf = <<>>
<1> DEFINE x == [gen |-> gen, node |-> n, buf |-> <<>>, done |-> FALSE]
           e == Len(entries) + 1
<1>1. /\ entries \in Seq(EntryType) /\ Len(entries) \in Nat /\ gen \in Gen
      /\ cache \in [Gen -> [Node -> Nat]]
      /\ pending \in [Gen -> [Node -> Nat]]
  BY LenProperties DEF IInv, EntriesOK, CountersOK
<1>2. <<>> \in Seq(Value) /\ Len(<<>>) = 0
  BY EmptySeq
<1>3. x \in EntryType
  BY <1>1, <1>2 DEF EntryType
<1>4. /\ entries' = Append(entries, x)
      /\ pending' = [pending EXCEPT ![gen][n] = e]
      /\ cache' = cache
      /\ cache[gen][n] = Nil /\ pending[gen][n] = Nil
  BY DEF CallMiss, Misses
<1>5. /\ x.gen = gen /\ x.node = n /\ x.buf = <<>> /\ x.done = FALSE
  OBVIOUS
<1> HIDE DEF x
<1>6. /\ entries' \in Seq(EntryType)
      /\ Len(entries') = e
      /\ \A f \in 1..Len(entries) : entries'[f] = entries[f]
      /\ entries'[e] = x
  BY <1>1, <1>3, <1>4, AppendProperties
<1>7. BuffersExact'
  <2> SUFFICES ASSUME NEW f \in 1..e
               PROVE  /\ IsPrefixOf(entries'[f].buf, Out[entries'[f].gen][entries'[f].node])
                      /\ entries'[f].done => Len(entries'[f].buf) = Len(Out[entries'[f].gen][entries'[f].node])
    BY <1>6 DEF BuffersExact, Buf, Source
  <2>1. CASE f = e
    <3>1. Len(Out[gen][n]) \in Nat
      BY <1>1, OutputAssumption, LenProperties
    <3> QED
      BY <2>1, <3>1, <1>2, <1>5, <1>6 DEF IsPrefixOf
  <2>2. CASE f \in 1..Len(entries)
    BY <2>2, <1>6 DEF IInv, EntriesOK, BuffersExact, Buf, Source
  <2> QED
    BY <2>1, <2>2, <1>1
<1>8. Grows
  <2>1. \A f \in 1..Len(entries) : IsPrefixOf(Buf(f), Buf(f))
    BY IInvTypeOK, SourceType, LenProperties DEF IsPrefixOf
  <2>2. \A f \in 1..Len(entries') : f > Len(entries) => entries'[f].gen = gen
    <3>1. \A f \in 1..Len(entries') : f > Len(entries) => f = e
      BY <1>1, <1>6
    <3> QED
      BY <3>1, <1>5, <1>6
  <2>3. Len(entries) <= Len(entries')
    BY <1>1, <1>6
  <2> QED
    BY <2>1, <2>2, <2>3, <1>6 DEF Grows, Buf
<1>9. \A h \in Gen, m \in Node :
        pending'[h][m] = IF h = gen /\ m = n THEN e ELSE pending[h][m]
  BY <1>1, <1>4
<1>10. pending' \in [Gen -> [Node -> Nat]]
  BY <1>1, <1>4
<1>11. Filed'
  <2>1. ASSUME NEW f \in 1..e
        PROVE  LET h == entries'[f].gen
                   m == entries'[f].node IN
               /\ cache'[h][m] = IF entries'[f].done THEN f ELSE Nil
               /\ pending'[h][m] = IF entries'[f].done THEN Nil ELSE f
    <3>1. CASE f = e
      BY <3>1, <1>1, <1>4, <1>5, <1>6, <1>9
    <3>2. CASE f \in 1..Len(entries)
      <4>1. entries'[f] = entries[f] /\ entries[f].gen \in Gen /\ entries[f].node \in Node
        BY <3>2, <1>6, IInvTypeOK, SourceType DEF EntryType
      <4>2. /\ cache[entries[f].gen][entries[f].node] = IF entries[f].done THEN f ELSE Nil
            /\ pending[entries[f].gen][entries[f].node] = IF entries[f].done THEN Nil ELSE f
        BY <3>2 DEF IInv, EntriesOK, Filed
      <4>3. entries[f].gen # gen \/ entries[f].node # n
        BY <3>2, <4>2, <1>1, <1>4 DEF Nil
      <4> QED
        BY <4>1, <4>2, <4>3, <1>4, <1>9
    <3> QED
      BY <3>1, <3>2, <1>1
  <2>2. ASSUME NEW h \in Gen, NEW m \in Node, NEW f \in {cache'[h][m], pending'[h][m]} \ {Nil}
        PROVE  f <= e /\ entries'[f].gen = h /\ entries'[f].node = m
    <3>1. CASE f = e /\ h = gen /\ m = n
      BY <3>1, <1>1, <1>5, <1>6
    <3>2. CASE ~(f = e /\ h = gen /\ m = n)
      <4>1. f \in {cache[h][m], pending[h][m]} \ {Nil}
        BY <3>2, <1>4, <1>9
      <4>2. f <= Len(entries) /\ entries[f].gen = h /\ entries[f].node = m
        BY <4>1 DEF IInv, EntriesOK, Filed
      <4>3. f \in 1..Len(entries)
        BY <4>1, <4>2, <1>1 DEF Nil
      <4> QED
        BY <4>2, <4>3, <1>1, <1>6
    <3> QED
      BY <3>1, <3>2
  <2> QED
    BY <2>1, <2>2, <1>6 DEF Filed
<1> QED
  BY <1>1, <1>4, <1>5, <1>6, <1>7, <1>8, <1>10, <1>11 DEF EntriesOK

-----------------------------------------------------------------------------
(* Consumers *)

(* A position in a recording stays good while recordings grow. *)
LEMMA HoldingStable ==
  ASSUME IInv, Grows, EntriesOK', NEW c \in ReaderType, Holding(c, entries)
  PROVE  Holding(c, entries')
<1> SUFFICES ASSUME c.st # "idle"
             PROVE  /\ c.src \in 1..Len(entries')
                    /\ c.kind = "seq" => entries'[c.src].done
                    /\ c.i <= Len(entries'[c.src].buf)
                    /\ c.hi <= Len(entries'[c.src].buf)
  BY DEF Holding
<1>1. /\ c.src \in 1..Len(entries)
      /\ c.kind = "seq" => entries[c.src].done
      /\ c.i <= Len(Buf(c.src))
      /\ c.hi <= Len(Buf(c.src))
  BY DEF Holding, Buf
<1>2. Len(entries) \in Nat /\ Len(entries') \in Nat
  BY LenProperties DEF IInv, EntriesOK
<1>3. c.src \in 1..Len(entries')
  BY <1>1, <1>2 DEF Grows
<1>4. Len(Buf(c.src)) \in Nat /\ Len(entries'[c.src].buf) \in Nat
  <2>1. entries'[c.src] \in EntryType
    BY <1>3, ElementOfSeq DEF EntriesOK
  <2> QED
    BY <2>1, <1>1, IInvTypeOK, SourceType, LenProperties DEF EntryType
<1>5. Len(Buf(c.src)) <= Len(entries'[c.src].buf)
  BY <1>1 DEF Grows, IsPrefixOf
<1>6. c.i \in Nat /\ c.hi \in Nat
  BY DEF ReaderType
<1> QED
  BY <1>1, <1>3, <1>4, <1>5, <1>6 DEF Grows

(* Consumers are unchanged but for r, which now holds c; a loop on the     *)
(* stack is one that was there, or r's, which then is open.                *)
LEMMA ConsumerReplaced ==
  ASSUME IInv, Grows, EntriesOK', NEW r \in Reader, NEW c \in ReaderType,
         readers' = [readers EXCEPT ![r] = c], Holding(c, entries'),
         stack' \in Seq(Reader),
         \A j, k \in 1..Len(stack') : stack'[j] = stack'[k] => j = k,
         \A j \in 1..Len(stack') :
           IF stack'[j] = r THEN c.st = "open" ELSE \E k \in 1..Len(stack) : stack'[j] = stack[k]
  PROVE  ConsumersOK'
<1>1. readers \in [Reader -> ReaderType] /\ stack \in Seq(Reader) /\ Held
  BY DEF IInv, ConsumersOK
<1>2. readers' \in [Reader -> ReaderType]
  BY <1>1
<1>3. \A q \in Reader : Holding(readers[q], entries')
  BY <1>1, HoldingStable DEF Held
<1>4. \A q \in Reader : readers'[q] = IF q = r THEN c ELSE readers[q]
  BY <1>1
<1>5. \A q \in Reader : Holding(readers'[q], entries')
  BY <1>3, <1>4
<1>6. \A j \in 1..Len(stack') : readers'[stack'[j]].st = "open"
  <2> SUFFICES ASSUME NEW j \in 1..Len(stack')
               PROVE  readers'[stack'[j]].st = "open"
    OBVIOUS
  <2>1. stack'[j] \in Reader
    BY ElementOfSeq
  <2>2. CASE stack'[j] = r
    BY <2>2, <1>4
  <2>3. CASE stack'[j] # r
    BY <2>1, <2>3, <1>1, <1>4 DEF Held
  <2> QED
    BY <2>2, <2>3
<1> QED
  BY <1>2, <1>5, <1>6 DEF ConsumersOK, Held

(* The loops are left alone, and r is in none of them. *)
LEMMA FreeReplaced ==
  ASSUME IInv, Grows, EntriesOK', NEW r \in Reader, NEW c \in ReaderType,
         readers' = [readers EXCEPT ![r] = c], Holding(c, entries'),
         stack' = stack, ~Looping(r)
  PROVE  ConsumersOK'
<1>1. stack' \in Seq(Reader)
  BY DEF IInv, ConsumersOK
<1>2. \A j \in 1..Len(stack) : stack[j] # r
  BY DEF Looping
<1>3. \A j, k \in 1..Len(stack') : stack'[j] = stack'[k] => j = k
  BY DEF IInv, ConsumersOK, Held
<1> QED
  BY <1>1, <1>2, <1>3, ConsumerReplaced

(* Consumers that do nothing still hold positions in recordings that only  *)
(* grow.                                                                   *)
LEMMA ConsumersUnchanged ==
  ASSUME IInv, Grows, EntriesOK', UNCHANGED <<readers, stack>>
  PROVE  ConsumersOK'
<1>1. readers \in [Reader -> ReaderType] /\ stack \in Seq(Reader) /\ Held
  BY DEF IInv, ConsumersOK
<1>2. \A q \in Reader : Holding(readers[q], entries')
  BY <1>1, HoldingStable DEF Held
<1> QED
  BY <1>1, <1>2 DEF ConsumersOK, Held

(* What is known of the triplet of a consumer that holds one. *)
LEMMA HeldFacts ==
  ASSUME IInv, NEW r \in Reader, readers[r].st # "idle"
  PROVE  LET c == readers[r]
             e == c.src IN
         /\ c \in ReaderType /\ Holding(c, entries)
         /\ c.i \in Nat /\ c.hi \in Nat /\ c.got \in Seq(Value)
         /\ e \in 1..Len(entries)
         /\ Buf(e) \in Seq(Value) /\ Len(Buf(e)) \in Nat
         /\ Source(e) \in Seq(Value) /\ Len(Source(e)) \in Nat
         /\ \A i \in 1..Len(Buf(e)) : Buf(e)[i] \in Value
         /\ \A i \in 1..Len(Source(e)) : Source(e)[i] \in Value
         /\ IsPrefixOf(Buf(e), Source(e)) /\ Len(Buf(e)) <= Len(Source(e))
         /\ entries[e].done \in BOOLEAN
         /\ entries[e].done => Len(Buf(e)) = Len(Source(e))
         /\ c.kind = "seq" => entries[e].done
         /\ c.i <= Len(Buf(e)) /\ c.hi <= Len(Buf(e))
<1> DEFINE c == readers[r]
           e == c.src
<1>1. c \in ReaderType /\ Holding(c, entries)
  BY DEF IInv, ConsumersOK, Held
<1>2. c.i \in Nat /\ c.hi \in Nat /\ c.got \in Seq(Value)
  BY <1>1 DEF ReaderType
<1>3. /\ e \in 1..Len(entries)
      /\ c.kind = "seq" => entries[e].done
      /\ c.i <= Len(Buf(e)) /\ c.hi <= Len(Buf(e))
  BY <1>1 DEF Holding, Buf
<1>4. entries[e] \in EntryType /\ Buf(e) \in Seq(Value) /\ Source(e) \in Seq(Value)
  BY <1>3, IInvTypeOK, SourceType
<1>5. /\ IsPrefixOf(Buf(e), Source(e))
      /\ entries[e].done => Len(Buf(e)) = Len(Source(e))
  BY <1>3 DEF IInv, EntriesOK, BuffersExact
<1>6. /\ Len(Buf(e)) \in Nat /\ Len(Source(e)) \in Nat
      /\ \A i \in 1..Len(Buf(e)) : Buf(e)[i] \in Value
      /\ \A i \in 1..Len(Source(e)) : Source(e)[i] \in Value
  BY <1>4, LenProperties, ElementOfSeq
<1>7. Len(Buf(e)) <= Len(Source(e)) /\ entries[e].done \in BOOLEAN
  BY <1>4, <1>5 DEF IsPrefixOf, EntryType
<1> QED
  BY <1>1, <1>2, <1>3, <1>4, <1>5, <1>6, <1>7

(* A measured hit is no longer than its buffer. *)
LEMMA HitLengthsBound ==
  ASSUME NEW e, Buf(e) \in Seq(Value), NEW n \in HitLengths(e)
  PROVE  n \in 0..Len(Buf(e))
BY LenProperties DEF HitLengths, Borders

(* An idle consumer holds nothing. *)
LEMMA IdleFacts == Idle \in ReaderType /\ \A es : Holding(Idle, es)
BY EmptySeq DEF Idle, ReaderType, Holding

(* The fields of a triplet after an update. *)
LEMMA Delivered ==
  ASSUME IInv, NEW r \in Reader, readers[r].st # "idle",
         NEW ii \in Nat, NEW h \in Nat, NEW w \in {"pull", "each"},
         NEW st \in {"open", "done"}, NEW t \in Seq(Value),
         NEW c, c = [readers[r] EXCEPT !.st = st, !.how = w, !.i = ii, !.hi = h, !.got = t]
  PROVE  /\ c \in ReaderType
         /\ c.st = st /\ c.how = w /\ c.i = ii /\ c.hi = h /\ c.got = t
         /\ c.src = readers[r].src /\ c.kind = readers[r].kind
BY HeldFacts DEF ReaderType

-----------------------------------------------------------------------------
(* Calls *)

Invariance == EntriesOK' /\ Grows /\ ConsumersOK'

(* A consumer is given a triplet on a recording that is there. *)
LEMMA HoldStep ==
  ASSUME IInv, Grows, EntriesOK', NEW r \in Reader, NEW k \in {"seq", "rec"},
         NEW e \in 1..Len(entries'), k = "seq" => entries'[e].done,
         Hold(r, k, e), stack' = stack
  PROVE  ConsumersOK'
<1> DEFINE c == [st |-> "open", kind |-> k, how |-> "pull", src |-> e, i |-> 0, hi |-> 0, got |-> <<>>]
<1>1. /\ readers[r].st = "idle"
      /\ readers' = [readers EXCEPT ![r] = c]
  BY DEF Hold
<1>2. /\ Len(entries') \in Nat /\ entries'[e] \in EntryType
  BY LenProperties, ElementOfSeq DEF EntriesOK
<1>3. Len(entries'[e].buf) \in Nat
  BY <1>2, LenProperties DEF EntryType
<1>4. e \in Nat /\ <<>> \in Seq(Value)
  BY <1>2, EmptySeq
<1>5. c \in ReaderType
  BY <1>4 DEF ReaderType
<1>6. Holding(c, entries')
  BY <1>3, <1>4 DEF Holding
<1>7. ~Looping(r)
  BY <1>1 DEF Looping, IInv, ConsumersOK, Held
<1> HIDE DEF c
<1> QED
  BY <1>1, <1>5, <1>6, <1>7, FreeReplaced

(* A call of the phase keeps the invariant. *)
LEMMA CallInvariance ==
  ASSUME IInv, NEW r \in Reader, NEW n \in Node, Call(r, n)
  PROVE  Invariance
<1>1. /\ entries \in Seq(EntryType) /\ Len(entries) \in Nat /\ gen \in Gen
      /\ cache[gen][n] \in Nat /\ pending[gen][n] \in Nat
  BY LenProperties DEF IInv, EntriesOK, CountersOK
<1>2. CASE CallHit(r, n)
  <2>1. EntriesOK' /\ Grows /\ stack' = stack /\ entries' = entries
    BY <1>2, EntriesUnchanged DEF CallHit, tables
  <2>2. cache[gen][n] \in 1..Len(entries) /\ entries[cache[gen][n]].done
    <3>1. /\ cache[gen][n] # Nil /\ cache[gen][n] <= Len(entries)
          /\ entries[cache[gen][n]].gen = gen /\ entries[cache[gen][n]].node = n
      BY <1>1, <1>2 DEF CallHit, IInv, EntriesOK, Filed
    <3>2. cache[gen][n] \in 1..Len(entries)
      BY <1>1, <3>1 DEF Nil
    <3> QED
      BY <3>1, <3>2 DEF IInv, EntriesOK, Filed
  <2> QED
    BY <1>2, <2>1, <2>2, HoldStep DEF CallHit, Invariance
<1>3. CASE CallShared(r, n)
  <2>1. EntriesOK' /\ Grows /\ stack' = stack /\ entries' = entries
    BY <1>3, EntriesUnchanged DEF CallShared, tables
  <2>2. pending[gen][n] \in 1..Len(entries)
    BY <1>1, <1>3 DEF CallShared, IInv, EntriesOK, Filed, Nil
  <2> QED
    BY <1>3, <2>1, <2>2, HoldStep DEF CallShared, Invariance
<1>4. CASE CallMiss(r, n)
  <2>1. /\ EntriesOK' /\ Grows
        /\ Len(entries') = Len(entries) + 1
    BY <1>4, BeginStep
  <2>2. stack' = stack /\ Hold(r, "rec", Len(entries) + 1)
    BY <1>4 DEF CallMiss
  <2> QED
    BY <1>1, <2>1, <2>2, HoldStep DEF Invariance
<1> QED
  BY <1>2, <1>3, <1>4 DEF Call

-----------------------------------------------------------------------------
(* Pulling *)

(* A consumer gets an element of its recording. *)
LEMMA DeliverStep ==
  ASSUME IInv, Grows, EntriesOK', NEW r \in Reader, Free(r), stack' = stack,
         NEW v \in Value, Deliver(r, v),
         readers[r].i + 1 <= Len(entries'[readers[r].src].buf)
  PROVE  ConsumersOK'
<1> DEFINE c == [readers[r] EXCEPT !.st = "open", !.how = readers[r].how, !.i = readers[r].i + 1,
                                   !.hi = readers[r].hi, !.got = Append(readers[r].got, v)]
<1>1. readers[r] \in ReaderType /\ readers[r].st = "open" /\ ~Looping(r)
  BY HeldFacts DEF Free
<1>2. /\ readers[r].i + 1 \in Nat /\ readers[r].hi \in Nat
      /\ Append(readers[r].got, v) \in Seq(Value) /\ readers[r].how \in {"pull", "each"}
  BY <1>1, AppendProperties DEF ReaderType
<1>3. readers' = [readers EXCEPT ![r] = c]
  BY <1>1 DEF Deliver, ReaderType
<1>4. /\ c \in ReaderType
      /\ c.st = "open" /\ c.i = readers[r].i + 1 /\ c.hi = readers[r].hi
      /\ c.src = readers[r].src /\ c.kind = readers[r].kind
  BY <1>1, <1>2 DEF ReaderType
<1>5. Holding(readers[r], entries')
  BY <1>1, HeldFacts, HoldingStable
<1>6. Holding(c, entries')
  BY <1>1, <1>4, <1>5 DEF Holding
<1> HIDE DEF c
<1> QED
  BY <1>1, <1>3, <1>4, <1>6, FreeReplaced

(* A free consumer reaches its end, possibly with more handed to it. *)
LEMMA EndStep ==
  ASSUME IInv, Grows, EntriesOK', NEW r \in Reader, Free(r), stack' = stack,
         NEW t \in Seq(Value),
         readers' = [readers EXCEPT ![r].st = "done", ![r].got = t]
  PROVE  ConsumersOK'
<1> DEFINE c == [readers[r] EXCEPT !.st = "done", !.got = t]
<1>1. readers[r] \in ReaderType /\ readers[r].st = "open" /\ ~Looping(r)
  BY HeldFacts DEF Free
<1>2. readers' = [readers EXCEPT ![r] = c]
  BY <1>1 DEF ReaderType
<1>3. /\ c \in ReaderType
      /\ c.st = "done" /\ c.i = readers[r].i /\ c.hi = readers[r].hi
      /\ c.src = readers[r].src /\ c.kind = readers[r].kind
  BY <1>1 DEF ReaderType
<1>4. Holding(readers[r], entries')
  BY <1>1, HeldFacts, HoldingStable
<1>5. Holding(c, entries')
  BY <1>1, <1>3, <1>4 DEF Holding
<1> HIDE DEF c
<1> QED
  BY <1>1, <1>2, <1>3, <1>5, FreeReplaced

(* A consumer finds its recording at the end. *)
LEMMA FinishReaderStep ==
  ASSUME IInv, Grows, EntriesOK', NEW r \in Reader, Free(r), stack' = stack, Finish(r)
  PROVE  ConsumersOK'
<1>1. readers[r] \in ReaderType /\ readers[r].got \in Seq(Value)
  BY HeldFacts DEF Free
<1>2. readers' = [readers EXCEPT ![r].st = "done", ![r].got = readers[r].got]
  BY <1>1 DEF Finish, ReaderType
<1> QED
  BY <1>1, <1>2, EndStep

(* A consumer that is in no loop lets go. *)
LEMMA LetGoStep ==
  ASSUME IInv, Grows, EntriesOK', NEW r \in Reader, ~Looping(r), stack' = stack,
         readers' = [readers EXCEPT ![r] = Idle]
  PROVE  ConsumersOK'
BY FreeReplaced, IdleFacts

(* A pull keeps the invariant. *)
LEMMA PullInvariance ==
  ASSUME IInv, NEW r \in Reader, Pull(r)
  PROVE  Invariance
<1> DEFINE c == readers[r]
           e == c.src
<1>1. Free(r) /\ c.st # "idle" /\ stack' = stack
  BY DEF Pull, PullSeq, PullRecorded, PullSource, PullEnd, Free
<1>2. /\ c.i \in Nat /\ e \in 1..Len(entries)
      /\ Len(Buf(e)) \in Nat /\ Len(Source(e)) \in Nat
      /\ Buf(e) \in Seq(Value)
      /\ \A i \in 1..Len(Buf(e)) : Buf(e)[i] \in Value
      /\ \A i \in 1..Len(Source(e)) : Source(e)[i] \in Value
      /\ IsPrefixOf(Buf(e), Source(e))
  BY <1>1, HeldFacts
<1>r. IsPrefixOf(Buf(e), Buf(e))
  BY <1>2 DEF IsPrefixOf
<1>3. CASE PullSeq(r)
  <2>1. EntriesOK' /\ Grows /\ entries' = entries
    BY <1>3, EntriesUnchanged DEF PullSeq, tables
  <2>2. PICK n \in HitLengths(e) : IF c.i + 1 > n THEN Finish(r) ELSE Deliver(r, Buf(e)[c.i + 1])
    BY <1>3 DEF PullSeq
  <2>3. n \in 0..Len(Buf(e))
    BY <1>2, HitLengthsBound
  <2>4. CASE c.i + 1 > n
    BY <2>1, <2>2, <2>4, <1>1, FinishReaderStep DEF Invariance
  <2>5. CASE ~(c.i + 1 > n)
    <3>1. c.i + 1 \in 1..Len(Buf(e)) /\ Buf(e)[c.i + 1] \in Value
      BY <2>3, <2>5, <1>2
    <3> QED
      BY <2>1, <2>2, <2>5, <3>1, <1>1, <1>2, DeliverStep DEF Invariance, Buf
  <2> QED
    BY <2>4, <2>5
<1>4. CASE PullRecorded(r)
  <2>1. EntriesOK' /\ Grows /\ entries' = entries
    BY <1>4, EntriesUnchanged DEF PullRecorded, tables
  <2>2. c.i + 1 \in 1..Len(Buf(e)) /\ Buf(e)[c.i + 1] \in Value /\ Deliver(r, Buf(e)[c.i + 1])
    BY <1>2, <1>4 DEF PullRecorded
  <2> QED
    BY <2>1, <2>2, <1>1, DeliverStep DEF Invariance, Buf
<1>5. CASE PullSource(r)
  <2> DEFINE n == Len(Buf(e)) + 1
  <2>1. /\ ~entries[e].done /\ n \in Len(Buf(e))..Len(Source(e)) /\ n = c.i + 1
        /\ AdvanceRecording(e, n) /\ Deliver(r, Source(e)[n])
    BY <1>2, <1>5 DEF PullSource
  <2>2. EntriesOK' /\ Grows /\ Len(entries'[e].buf) = n
    BY <2>1, <1>2, AdvanceStep
  <2>3. Source(e)[n] \in Value
    BY <2>1, <1>2
  <2>4. c.i + 1 <= Len(entries'[e].buf)
    BY <2>1, <2>2, <1>2
  <2> HIDE DEF n
  <2> QED
    BY <2>1, <2>2, <2>3, <2>4, <1>1, DeliverStep DEF Invariance
<1>6. CASE PullEnd(r)
  <2>1. EntriesOK' /\ Grows
    <3>1. CASE UNCHANGED <<cache, pending, entries>>
      BY <3>1, EntriesUnchanged
    <3>2. CASE ~entries[e].done /\ Len(Buf(e)) = Len(Source(e)) /\ FinishRecording(e, Buf(e))
      BY <3>2, <1>2, <1>r, FinishStep
    <3> QED
      BY <3>1, <3>2, <1>6 DEF PullEnd
  <2>2. Finish(r)
    BY <1>6 DEF PullEnd
  <2> QED
    BY <2>1, <2>2, <1>1, FinishReaderStep DEF Invariance
<1> QED
  BY <1>3, <1>4, <1>5, <1>6 DEF Pull

-----------------------------------------------------------------------------
(* Draining and pvm.one *)

(* What drain copies are values. *)
LEMMA ReadOnType ==
  ASSUME NEW got \in Seq(Value), NEW t \in Seq(Value), NEW i \in Nat, NEW n \in 0..Len(t)
  PROVE  ReadOn(got, t, i, n) \in Seq(Value)
<1>1. SubSeq(t, i + 1, n) \in Seq(Value)
  <2>1. Len(t) \in Nat
    BY LenProperties
  <2>2. CASE i + 1 <= n
    <3>1. i + 1 \in 1..Len(t) /\ n \in i + 1..Len(t)
      BY <2>1, <2>2
    <3> QED
      BY <3>1, SubSeqProperties
  <2>3. CASE i + 1 > n
    <3>1. i + 1 \in Int /\ n \in Int
      OBVIOUS
    <3>2. SubSeq(t, i + 1, n) = <<>>
      BY <3>1, <2>3, SubSeqEmpty
    <3> QED
      BY <3>2, EmptySeq
  <2> QED
    BY <2>1, <2>2, <2>3
<1> QED
  BY <1>1, ConcatProperties DEF ReadOn

(* drain, drain_into, one and warm keep the invariant. *)
LEMMA TakeInvariance ==
  ASSUME IInv, NEW r \in Reader, Take(r)
  PROVE  Invariance
<1> DEFINE c == readers[r]
           e == c.src
           i == c.i + 1
<1>1. Free(r) /\ ~Looping(r) /\ c.st # "idle" /\ stack' = stack
  BY DEF Take, DrainSeq, DrainRec, OneSeq, OneRec, Free
<1>2. /\ c.i \in Nat /\ e \in 1..Len(entries) /\ c.got \in Seq(Value)
      /\ c.i <= Len(Buf(e)) /\ Len(Buf(e)) <= Len(Source(e))
      /\ Len(Buf(e)) \in Nat /\ Len(Source(e)) \in Nat
      /\ Buf(e) \in Seq(Value) /\ Source(e) \in Seq(Value)
      /\ \A j \in 1..Len(Buf(e)) : Buf(e)[j] \in Value
      /\ \A j \in 1..Len(Source(e)) : Source(e)[j] \in Value
      /\ IsPrefixOf(Buf(e), Source(e))
      /\ entries[e].done \in BOOLEAN
      /\ entries[e].done => Len(Buf(e)) = Len(Source(e))
  BY <1>1, HeldFacts
<1>3. IsPrefixOf(Buf(e), Buf(e))
  BY <1>2 DEF IsPrefixOf
<1>4. \A k \in Len(Buf(e))..Len(Source(e)) :
        LET b == Grown(Buf(e), Source(e), k) IN
        /\ b \in Seq(Value) /\ Len(b) = k
        /\ \A j \in 1..k : b[j] = Source(e)[j]
        /\ IsPrefixOf(b, Source(e)) /\ IsPrefixOf(Buf(e), b)
  BY <1>2, GrownProperties
<1>5. CASE DrainSeq(r)
  <2>1. EntriesOK' /\ Grows
    BY <1>5, EntriesUnchanged DEF DrainSeq, tables
  <2>2. PICK n \in HitLengths(e) :
          readers' = [readers EXCEPT ![r].st = "done", ![r].got = ReadOn(c.got, Buf(e), c.i, n)]
    BY <1>5 DEF DrainSeq
  <2>3. ReadOn(c.got, Buf(e), c.i, n) \in Seq(Value)
    BY <1>2, HitLengthsBound, ReadOnType
  <2> QED
    BY <2>1, <2>2, <2>3, <1>1, EndStep DEF Invariance
<1>6. CASE DrainRec(r)
  <2> DEFINE b == IF entries[e].done THEN Buf(e) ELSE Grown(Buf(e), Source(e), Len(Source(e)))
  <2>1. /\ b \in Seq(Value) /\ Len(b) = Len(Source(e))
        /\ ~entries[e].done => IsPrefixOf(b, Source(e)) /\ IsPrefixOf(Buf(e), b)
    BY <1>2, <1>4
  <2>2. /\ entries[e].done => UNCHANGED <<cache, pending, entries>>
        /\ ~entries[e].done => FinishRecording(e, b)
        /\ readers' = [readers EXCEPT ![r].st = "done", ![r].got = ReadOn(c.got, b, c.i, Len(b))]
    BY <1>6 DEF DrainRec
  <2> HIDE DEF b
  <2>3. EntriesOK' /\ Grows
    BY <2>1, <2>2, <1>2, FinishStep, EntriesUnchanged
  <2>4. ReadOn(c.got, b, c.i, Len(b)) \in Seq(Value)
    <3>1. Len(b) \in 0..Len(b)
      BY <2>1, <1>2
    <3> QED
      BY <3>1, <2>1, <1>2, ReadOnType
  <2> QED
    BY <2>2, <2>3, <2>4, <1>1, EndStep DEF Invariance
<1>7. CASE OneSeq(r)
  <2>1. EntriesOK' /\ Grows
    BY <1>7, EntriesUnchanged DEF OneSeq, tables
  <2>2. PICK n \in HitLengths(e) :
          IF i = n
            THEN readers' = [readers EXCEPT ![r].st = "done", ![r].got = Append(c.got, Buf(e)[i])]
            ELSE readers' = [readers EXCEPT ![r] = Idle]
    BY <1>7 DEF OneSeq
  <2>3. CASE i = n
    <3>1. Buf(e)[i] \in Value
      BY <2>3, <1>2, HitLengthsBound
    <3>2. Append(c.got, Buf(e)[i]) \in Seq(Value)
      BY <3>1, <1>2, AppendProperties
    <3> QED
      BY <2>1, <2>2, <2>3, <3>2, <1>1, EndStep DEF Invariance
  <2>4. CASE i # n
    BY <2>1, <2>2, <2>4, <1>1, LetGoStep DEF Invariance
  <2> QED
    BY <2>3, <2>4
<1>8. CASE OneRec(r)
  <2> DEFINE total == IF entries[e].done THEN Len(Buf(e)) ELSE Len(Source(e))
             b == Grown(Buf(e), Source(e), i)
  <2>1. total = Len(Source(e))
    BY <1>2
  <2>2. CASE /\ i > total
             /\ IF entries[e].done THEN UNCHANGED <<cache, pending, entries>> ELSE FinishRecording(e, Buf(e))
             /\ readers' = [readers EXCEPT ![r] = Idle]
    <3>1. Len(Buf(e)) = Len(Source(e))
      BY <2>1, <2>2, <1>2
    <3>2. EntriesOK' /\ Grows
      BY <2>2, <3>1, <1>2, <1>3, FinishStep, EntriesUnchanged
    <3> QED
      BY <2>2, <3>2, <1>1, LetGoStep DEF Invariance
  <2>3. CASE /\ i < total
             /\ IF i < Len(Buf(e)) THEN UNCHANGED <<cache, pending, entries>> ELSE AdvanceRecording(e, i + 1)
             /\ readers' = [readers EXCEPT ![r] = Idle]
    <3>1. CASE i < Len(Buf(e))
      BY <2>3, <3>1, <1>1, EntriesUnchanged, LetGoStep DEF Invariance
    <3>2. CASE ~(i < Len(Buf(e)))
      <4>1. ~entries[e].done /\ i + 1 \in Len(Buf(e))..Len(Source(e))
        BY <2>1, <2>3, <3>2, <1>2
      <4>2. EntriesOK' /\ Grows
        BY <2>3, <3>2, <4>1, <1>2, AdvanceStep
      <4> QED
        BY <2>3, <4>2, <1>1, LetGoStep DEF Invariance
    <3> QED
      BY <3>1, <3>2
  <2>4. CASE /\ i = total
             /\ IF entries[e].done THEN UNCHANGED <<cache, pending, entries>> ELSE FinishRecording(e, b)
             /\ readers' = [readers EXCEPT ![r].st = "done", ![r].got = Append(c.got, b[i])]
    <3>1. i \in Len(Buf(e))..Len(Source(e)) /\ i = Len(Source(e)) /\ i \in 1..Len(Source(e))
      BY <2>1, <2>4, <1>2
    <3>2. /\ b \in Seq(Value) /\ Len(b) = Len(Source(e))
          /\ IsPrefixOf(b, Source(e)) /\ IsPrefixOf(Buf(e), b)
          /\ b[i] \in Value
      BY <3>1, <1>2, <1>4
    <3> HIDE DEF b
    <3>3. EntriesOK' /\ Grows
      BY <2>4, <3>2, <1>2, FinishStep, EntriesUnchanged
    <3>4. Append(c.got, b[i]) \in Seq(Value)
      BY <3>2, <1>2, AppendProperties
    <3> QED
      BY <2>4, <3>3, <3>4, <1>1, EndStep DEF Invariance
  <2> QED
    BY <2>2, <2>3, <2>4, <1>8 DEF OneRec
<1> QED
  BY <1>5, <1>6, <1>7, <1>8 DEF Take

-----------------------------------------------------------------------------
(* each and fold *)

(* r's loop runs on: below is what it leaves on the stack when it ends. *)
LEMMA LoopInvariance ==
  ASSUME IInv, NEW r \in Reader, readers[r].st = "open",
         NEW hi \in 0..Len(Buf(readers[r].src)),
         NEW below \in Seq(Reader),
         \A j, k \in 1..Len(below) : below[j] = below[k] => j = k,
         \A j \in 1..Len(below) : below[j] # r /\ \E k \in 1..Len(stack) : below[j] = stack[k],
         LoopOn(r, hi, below)
  PROVE  Invariance
<1> DEFINE c == readers[r]
           e == c.src
           i == c.i
           n == Len(Buf(e)) + 1
           exhausted == entries[e].done \/ Len(Buf(e)) = Len(Source(e))
           Callback(v, ii) ==
             /\ readers' = [readers EXCEPT ![r].how = "each", ![r].i = ii, ![r].hi = hi,
                                           ![r].got = Append(c.got, v)]
             /\ stack' = Append(below, r)
           Leave ==
             /\ readers' = [readers EXCEPT ![r].st = "done", ![r].how = "each", ![r].hi = hi]
             /\ stack' = below
<1>1. /\ c \in ReaderType /\ c.i \in Nat /\ e \in 1..Len(entries) /\ c.got \in Seq(Value)
      /\ c.i <= Len(Buf(e)) /\ Len(Buf(e)) <= Len(Source(e))
      /\ Len(Buf(e)) \in Nat /\ Len(Source(e)) \in Nat
      /\ Buf(e) \in Seq(Value)
      /\ \A j \in 1..Len(Buf(e)) : Buf(e)[j] \in Value
      /\ \A j \in 1..Len(Source(e)) : Source(e)[j] \in Value
      /\ IsPrefixOf(Buf(e), Source(e))
      /\ entries[e].done \in BOOLEAN
      /\ c.kind = "seq" => entries[e].done
      /\ Holding(c, entries)
  BY HeldFacts
<1>2. IsPrefixOf(Buf(e), Buf(e))
  BY <1>1 DEF IsPrefixOf
<1>3. Len(below) \in Nat /\ \A j \in 1..Len(below) : below[j] \in Reader
  BY LenProperties, ElementOfSeq
<1>4. ASSUME Grows, EntriesOK', NEW v \in Value, NEW ii \in Nat,
             ii <= Len(entries'[e].buf), Callback(v, ii)
      PROVE  ConsumersOK'
  <2> DEFINE d == [c EXCEPT !.how = "each", !.i = ii, !.hi = hi, !.got = Append(c.got, v)]
  <2>1. Append(c.got, v) \in Seq(Value) /\ hi \in Nat
    BY <1>1, AppendProperties
  <2>2. readers' = [readers EXCEPT ![r] = d]
    BY <1>1, <1>4 DEF ReaderType
  <2>3. /\ d \in ReaderType
        /\ d.st = "open" /\ d.i = ii /\ d.hi = hi /\ d.src = e /\ d.kind = c.kind
    BY <1>1, <2>1 DEF ReaderType
  <2> HIDE DEF d
  <2>4. Holding(c, entries')
    BY <1>1, <1>4, HoldingStable
  <2>5. Len(Buf(e)) <= Len(entries'[e].buf) /\ Len(entries'[e].buf) \in Nat
    <3>1. e \in 1..Len(entries')
      BY <2>4 DEF Holding
    <3>2. entries'[e] \in EntryType
      BY <1>4, <3>1, ElementOfSeq DEF EntriesOK
    <3> QED
      BY <1>1, <1>4, <3>2, LenProperties DEF Grows, IsPrefixOf, EntryType
  <2>6. Holding(d, entries')
    <3>1. /\ e \in 1..Len(entries')
          /\ c.kind = "seq" => entries'[e].done
      BY <1>1, <2>4 DEF Holding
    <3>2. hi <= Len(entries'[e].buf)
      BY <1>1, <2>1, <2>5
    <3>3. d.src = e /\ d.i = ii /\ d.hi = hi /\ d.kind = c.kind
      BY <2>3
    <3>4. ii <= Len(entries'[e].buf)
      BY <1>4
    <3>5. /\ d.src \in 1..Len(entries')
          /\ d.kind = "seq" => entries'[d.src].done
      BY ONLY <3>1, <3>3
    <3>6. /\ d.i <= Len(entries'[d.src].buf)
          /\ d.hi <= Len(entries'[d.src].buf)
      BY ONLY <3>2, <3>3, <3>4
    <3> QED
      BY ONLY <3>5, <3>6 DEF Holding
  <2>7. /\ stack' \in Seq(Reader) /\ Len(stack') = Len(below) + 1
        /\ \A j \in 1..Len(below) : stack'[j] = below[j]
        /\ stack'[Len(below) + 1] = r
    BY <1>4, AppendProperties
  <2>8. \A j, k \in 1..Len(stack') : stack'[j] = stack'[k] => j = k
    BY <1>3, <2>7
  <2>9. \A j \in 1..Len(stack') :
          IF stack'[j] = r THEN d.st = "open" ELSE \E k \in 1..Len(stack) : stack'[j] = stack[k]
    <3> SUFFICES ASSUME NEW j \in 1..Len(stack'), stack'[j] # r
                 PROVE  \E k \in 1..Len(stack) : stack'[j] = stack[k]
      BY <2>3
    <3>1. j \in 1..Len(below) /\ stack'[j] = below[j]
      BY <1>3, <2>7
    <3> QED
      BY <3>1
  <2> QED
    BY <1>4, <2>2, <2>3, <2>6, <2>7, <2>8, <2>9, ConsumerReplaced
<1>5. ASSUME Grows, EntriesOK', Leave
      PROVE  ConsumersOK'
  <2> DEFINE d == [c EXCEPT !.st = "done", !.how = "each", !.hi = hi]
  <2>1. hi \in Nat
    BY <1>1
  <2>2. readers' = [readers EXCEPT ![r] = d]
    BY <1>1, <1>5 DEF ReaderType
  <2>3. /\ d \in ReaderType
        /\ d.st = "done" /\ d.i = i /\ d.hi = hi /\ d.src = e /\ d.kind = c.kind
    BY <1>1, <2>1 DEF ReaderType
  <2> HIDE DEF d
  <2>4. Holding(c, entries')
    BY <1>1, <1>5, HoldingStable
  <2>5. Len(Buf(e)) <= Len(entries'[e].buf) /\ Len(entries'[e].buf) \in Nat
    <3>1. e \in 1..Len(entries')
      BY <2>4 DEF Holding
    <3>2. entries'[e] \in EntryType
      BY <1>5, <3>1, ElementOfSeq DEF EntriesOK
    <3> QED
      BY <1>1, <1>5, <3>2, LenProperties DEF Grows, IsPrefixOf, EntryType
  <2>6. Holding(d, entries')
    BY <1>1, <2>1, <2>3, <2>4, <2>5 DEF Holding
  <2>7. /\ stack' \in Seq(Reader)
        /\ \A j, k \in 1..Len(stack') : stack'[j] = stack'[k] => j = k
        /\ \A j \in 1..Len(stack') :
             IF stack'[j] = r THEN d.st = "open" ELSE \E k \in 1..Len(stack) : stack'[j] = stack[k]
    BY <1>5
  <2> QED
    BY <1>5, <2>2, <2>3, <2>6, <2>7, ConsumerReplaced
<1>6. \/ /\ i < hi
         /\ Callback(Buf(e)[i + 1], i + 1)
         /\ UNCHANGED <<cache, pending, entries>>
      \/ /\ i >= hi /\ c.kind = "rec" /\ ~exhausted
         /\ AdvanceRecording(e, n)
         /\ Callback(Source(e)[n], i)
      \/ /\ i >= hi /\ (c.kind = "rec" => exhausted)
         /\ IF c.kind = "rec" /\ ~entries[e].done
              THEN FinishRecording(e, Buf(e))
              ELSE UNCHANGED <<cache, pending, entries>>
         /\ Leave
  BY DEF LoopOn
<1> HIDE DEF Callback, Leave
<1>7. CASE i < hi /\ Callback(Buf(e)[i + 1], i + 1) /\ UNCHANGED <<cache, pending, entries>>
  <2>1. i + 1 \in 1..Len(Buf(e)) /\ i + 1 \in Nat /\ Buf(e)[i + 1] \in Value
    BY <1>1, <1>7
  <2>2. EntriesOK' /\ Grows /\ entries' = entries
    BY <1>7, EntriesUnchanged
  <2>3. i + 1 <= Len(entries'[e].buf)
    BY <2>1, <2>2, <1>1 DEF Buf
  <2> QED
    BY <1>4, <1>7, <2>1, <2>2, <2>3 DEF Invariance
<1>8. CASE /\ ~exhausted /\ AdvanceRecording(e, n) /\ Callback(Source(e)[n], i)
  <2>1. ~entries[e].done /\ n \in Len(Buf(e))..Len(Source(e)) /\ n \in 1..Len(Source(e))
    BY <1>1, <1>8
  <2>2. EntriesOK' /\ Grows /\ Len(entries'[e].buf) = n
    BY <1>1, <1>8, <2>1, AdvanceStep
  <2>3. i <= Len(entries'[e].buf) /\ Source(e)[n] \in Value
    BY <1>1, <2>1, <2>2
  <2> QED
    BY <1>1, <1>4, <1>8, <2>2, <2>3 DEF Invariance
<1>9. CASE /\ c.kind = "rec" => exhausted
           /\ IF c.kind = "rec" /\ ~entries[e].done
                THEN FinishRecording(e, Buf(e))
                ELSE UNCHANGED <<cache, pending, entries>>
           /\ Leave
  <2>1. EntriesOK' /\ Grows
    BY <1>1, <1>2, <1>9, FinishStep, EntriesUnchanged
  <2> QED
    BY <1>5, <1>9, <2>1 DEF Invariance
<1> QED
  BY <1>6, <1>7, <1>8, <1>9

(* each and fold keep the invariant, whatever their callbacks do. *)
LEMMA EachInvariance ==
  ASSUME IInv, (\E r \in Reader : EachStart(r)) \/ EachReturn
  PROVE  Invariance
<1>1. /\ stack \in Seq(Reader) /\ Len(stack) \in Nat /\ Held
      /\ \A j \in 1..Len(stack) : stack[j] \in Reader
  BY LenProperties, ElementOfSeq DEF IInv, ConsumersOK
<1>2. ASSUME NEW r \in Reader, EachStart(r)
      PROVE  Invariance
  <2>1. readers[r].st = "open" /\ \A j \in 1..Len(stack) : stack[j] # r
    BY <1>2 DEF EachStart, Free, Looping
  <2>2. Buf(readers[r].src) \in Seq(Value) /\ Len(Buf(readers[r].src)) \in Nat
    BY <2>1, HeldFacts
  <2>3. PICK hi \in IF readers[r].kind = "seq" THEN HitLengths(readers[r].src)
                                               ELSE {Len(Buf(readers[r].src))} :
          LoopOn(r, hi, stack)
    BY <1>2 DEF EachStart
  <2>4. hi \in 0..Len(Buf(readers[r].src))
    BY <2>2, HitLengthsBound
  <2> QED
    BY <1>1, <2>1, <2>3, <2>4, LoopInvariance DEF Held
<1>3. CASE EachReturn
  <2> DEFINE l == Len(stack)
             r == stack[l]
             below == SubSeq(stack, 1, l - 1)
  <2>1. l \in 1..Len(stack) /\ LoopOn(r, readers[r].hi, below)
    BY <1>1, <1>3, EmptySeq DEF EachReturn
  <2>2. r \in Reader /\ readers[r].st = "open"
    BY <1>1, <2>1 DEF Held
  <2>3. readers[r].hi \in 0..Len(Buf(readers[r].src))
    BY <2>2, HeldFacts
  <2>4. below \in Seq(Reader) /\ Len(below) = l - 1 /\ \A j \in 1..l - 1 : below[j] = stack[j]
    <3>1. l - 1 \in 0..Len(stack)
      BY <2>1, <1>1
    <3> QED
      BY <3>1, <1>1, InitialSegment
  <2>5. \A j \in 1..l - 1 : j \in 1..Len(stack) /\ j # l
    BY <1>1
  <2>6. /\ \A j, k \in 1..Len(below) : below[j] = below[k] => j = k
        /\ \A j \in 1..Len(below) : below[j] # r /\ \E k \in 1..Len(stack) : below[j] = stack[k]
    BY <1>1, <2>1, <2>4, <2>5 DEF Held
  <2> HIDE DEF below, r, l
  <2> QED
    BY <2>1, <2>2, <2>3, <2>4, <2>6, LoopInvariance
<1> QED
  BY <1>2, <1>3

-----------------------------------------------------------------------------
(* Errors, abandonment, reset *)

(* A callback that raises ends its loop and keeps the invariant. *)
LEMMA UnwindInvariance ==
  ASSUME IInv, NEW d \in Int, d >= 0, Unwind(d)
  PROVE  Invariance
<1>1. /\ readers \in [Reader -> ReaderType] /\ stack \in Seq(Reader) /\ Held
      /\ Len(stack) \in Nat /\ \A j \in 1..Len(stack) : stack[j] \in Reader
  BY LenProperties, ElementOfSeq DEF IInv, ConsumersOK
<1>2. /\ d \in 0..Len(stack) /\ d < Len(stack)
      /\ stack' = SubSeq(stack, 1, d)
      /\ readers' = [r \in Reader |->
           IF \E j \in d + 1..Len(stack) : stack[j] = r THEN Idle ELSE readers[r]]
  BY <1>1 DEF Unwind
<1>3. EntriesOK' /\ Grows
  BY EntriesUnchanged DEF Unwind, tables
<1>4. stack' \in Seq(Reader) /\ Len(stack') = d /\ \A j \in 1..d : stack'[j] = stack[j]
  BY <1>1, <1>2, InitialSegment
<1>5. readers' \in [Reader -> ReaderType]
  BY <1>1, <1>2, IdleFacts
<1>6. \A r \in Reader : Holding(readers'[r], entries')
  <2> SUFFICES ASSUME NEW r \in Reader
               PROVE  Holding(readers'[r], entries')
    OBVIOUS
  <2>1. Holding(readers[r], entries')
    BY <1>1, <1>3, HoldingStable DEF Held
  <2>2. readers'[r] = Idle \/ readers'[r] = readers[r]
    BY <1>2
  <2> QED
    BY <2>1, <2>2, IdleFacts
<1>7. ASSUME NEW j \in 1..d
      PROVE  readers'[stack'[j]].st = "open"
  <2>1. /\ j \in 1..Len(stack) /\ stack[j] \in Reader /\ stack'[j] = stack[j]
        /\ readers[stack[j]].st = "open"
    BY <1>1, <1>2, <1>4 DEF Held
  <2>2. \A k \in d + 1..Len(stack) : k \in 1..Len(stack) /\ k # j
    BY <1>1, <1>2
  <2>3. ~\E k \in d + 1..Len(stack) : stack[k] = stack[j]
    BY <2>1, <2>2, <1>1 DEF Held
  <2>4. readers'[stack[j]] = readers[stack[j]]
    BY <2>1, <2>3, <1>2
  <2> QED
    BY <2>1, <2>4
<1>8. \A j, k \in 1..d : stack'[j] = stack'[k] => j = k
  <2>1. \A j \in 1..d : j \in 1..Len(stack)
    BY <1>1, <1>2
  <2> QED
    BY <2>1, <1>1, <1>4 DEF Held
<1> QED
  BY <1>3, <1>4, <1>5, <1>6, <1>7, <1>8 DEF Invariance, ConsumersOK, Held

(* A source that raises and a consumer that is dropped keep the            *)
(* invariant.                                                              *)
LEMMA LooseEndInvariance ==
  ASSUME IInv, NEW r \in Reader, SourceRaises(r) \/ Drop(r)
  PROVE  Invariance
<1>1. ~Looping(r) /\ stack' = stack /\ readers' = [readers EXCEPT ![r] = Idle]
  BY DEF SourceRaises, Drop, Free
<1>2. EntriesOK' /\ Grows
  <2>1. CASE Drop(r)
    BY <2>1, EntriesUnchanged DEF Drop, tables
  <2>2. CASE SourceRaises(r)
    <3>1. /\ readers[r].st # "idle" /\ ~entries[readers[r].src].done
          /\ \E k \in Len(Buf(readers[r].src))..Len(Source(readers[r].src)) :
               AdvanceRecording(readers[r].src, k)
      BY <2>2 DEF SourceRaises, Free
    <3> QED
      BY <3>1, HeldFacts, AdvanceStep
  <2> QED
    BY <2>1, <2>2
<1> QED
  BY <1>1, <1>2, LetGoStep DEF Invariance

(* A step that changes nothing grows nothing. *)
LEMMA NothingMoves ==
  ASSUME IInv, UNCHANGED <<cache, pending, entries, readers, stack>>
  PROVE  Invariance
BY EntriesUnchanged, ConsumersUnchanged DEF Invariance

(* The counters and the generation, whatever the step. *)
LEMMA CountersInvariance ==
  ASSUME IInv, [Next]_vars
  PROVE  CountersOK'
<1>1. /\ gen \in Gen /\ errors \in Nat /\ MaxGen \in Nat
      /\ stats.calls \in Nat /\ stats.hits \in Nat /\ stats.shared \in Nat
      /\ stats \in [calls : Nat, hits : Nat, shared : Nat]
  BY BoundsAssumption DEF IInv, CountersOK
<1>2. \A h, s \in Nat : Counted(h, s) => stats' \in [calls : Nat, hits : Nat, shared : Nat]
  BY <1>1 DEF Counted
<1>3. 0 \in Nat /\ 1 \in Nat
  OBVIOUS
<1>4. ASSUME NEW r \in Reader, NEW n \in Node, Call(r, n)
      PROVE  CountersOK'
  <2>1. stats' \in [calls : Nat, hits : Nat, shared : Nat]
    BY <1>2, <1>3, <1>4 DEF Call, CallHit, CallShared, CallMiss
  <2> QED
    BY <1>1, <1>4, <2>1 DEF Call, CallHit, CallShared, CallMiss, CountersOK, tables
<1>5. ASSUME NEW n \in Node, CallRaises(n)
      PROVE  CountersOK'
  <2>1. stats' \in [calls : Nat, hits : Nat, shared : Nat]
    BY <1>2, <1>3, <1>5 DEF CallRaises
  <2> QED
    BY <1>1, <1>5, <2>1 DEF CallRaises, CountersOK, tables
<1>6. ASSUME NEW r \in Reader, Pull(r) \/ Take(r) \/ EachStart(r) \/ SourceRaises(r) \/ Drop(r)
      PROVE  CountersOK'
  <2>1. CASE Pull(r)
    BY <1>1, <2>1 DEF Pull, PullSeq, PullRecorded, PullSource, PullEnd, CountersOK, tables
  <2>2. CASE Take(r)
    BY <1>1, <2>2 DEF Take, DrainSeq, DrainRec, OneSeq, OneRec, CountersOK, tables
  <2>3. CASE EachStart(r) \/ SourceRaises(r) \/ Drop(r)
    BY <1>1, <2>3 DEF EachStart, SourceRaises, Drop, CountersOK, tables
  <2> QED
    BY <1>6, <2>1, <2>2, <2>3
<1>7. CASE EachReturn
  BY <1>1, <1>7 DEF EachReturn, CountersOK
<1>8. ASSUME NEW d \in Int, Unwind(d)
      PROVE  CountersOK'
  BY <1>1, <1>8 DEF Unwind, CountersOK, tables
<1>9. CASE Reset
  BY <1>1, <1>9 DEF Reset, CountersOK, Gen
<1>10. CASE UNCHANGED vars
  BY <1>1, <1>10 DEF vars, CountersOK
<1> QED
  BY <1>4, <1>5, <1>6, <1>7, <1>8, <1>9, <1>10 DEF Next

-----------------------------------------------------------------------------
(* The invariant *)

(* The invariant holds at first. *)
LEMMA InitIInv == Init => IInv
<1> SUFFICES ASSUME Init
             PROVE  IInv
  OBVIOUS
<1>1. /\ entries = <<>> /\ stack = <<>> /\ entries \in Seq(EntryType) /\ stack \in Seq(Reader)
      /\ Len(entries) = 0 /\ Len(stack) = 0
  BY EmptySeq DEF Init
<1>2. EntriesOK
  BY <1>1 DEF Init, EntriesOK, BuffersExact, Filed, Nil
<1>3. ConsumersOK
  BY <1>1, IdleFacts DEF Init, ConsumersOK, Held
<1>4. CountersOK
  BY BoundsAssumption DEF Init, CountersOK, Gen
<1> QED
  BY <1>2, <1>3, <1>4 DEF IInv

(* Every step keeps the invariant, grows recordings, and keeps what is     *)
(* cached.                                                                 *)
LEMMA NextInvariance ==
  ASSUME IInv, [Next]_vars
  PROVE  Invariance
<1>1. ASSUME NEW r \in Reader, NEW n \in Node, Call(r, n)
      PROVE  Invariance
  BY <1>1, CallInvariance
<1>2. ASSUME NEW n \in Node, CallRaises(n)
      PROVE  Invariance
  BY <1>2, NothingMoves DEF CallRaises, tables
<1>3. ASSUME NEW r \in Reader, Pull(r) \/ Take(r)
      PROVE  Invariance
  BY <1>3, PullInvariance, TakeInvariance
<1>4. CASE (\E r \in Reader : EachStart(r)) \/ EachReturn
  BY <1>4, EachInvariance
<1>5. ASSUME NEW r \in Reader, SourceRaises(r) \/ Drop(r)
      PROVE  Invariance
  BY <1>5, LooseEndInvariance
<1>6. ASSUME NEW d \in 0..Cardinality(Reader), Unwind(d)
      PROVE  Invariance
  BY <1>6, UnwindInvariance
<1>7. CASE Reset
  BY <1>7, NothingMoves DEF Reset
<1>8. CASE UNCHANGED vars
  BY <1>8, NothingMoves DEF vars
<1> QED
  BY <1>1, <1>2, <1>3, <1>4, <1>5, <1>6, <1>7, <1>8 DEF Next

(* What every behaviour of the phase keeps true. *)
THEOREM Inductive == Spec => []IInv
<1>1. IInv /\ [Next]_vars => IInv'
  BY NextInvariance, CountersInvariance DEF Invariance, IInv
<1> QED
  BY InitIInv, <1>1, PTL DEF Spec

(* The tables, recordings, triplets and counters keep their types: no      *)
(* table slot, triplet or loop ever refers to something that is not there. *)
THEOREM TypeCorrect == Spec => []TypeOK
BY Inductive, IInvTypeOK, PTL

(* Each recording is in exactly one table of its own generation, and each  *)
(* slot holds a recording of its own node: no node is recorded twice while *)
(* one recording of it could answer.                                       *)
THEOREM NoDuplicateWork == Spec => []Filed
<1>1. IInv => Filed
  BY DEF IInv, EntriesOK
<1> QED
  BY <1>1, Inductive, PTL

(* A committed hit is all that the handler of its generation produces for  *)
(* its node, whoever advanced the recording, and whatever was reset,       *)
(* abandoned or raised on the way.                                         *)
THEOREM CommitsAreWhole == Spec => []CommitWhole
<1>1. IInv => CommitWhole
  <2> SUFFICES ASSUME IInv, NEW g \in Gen, NEW n \in Node, cache[g][n] # Nil
               PROVE  Buf(cache[g][n]) = Out[g][n]
    BY DEF CommitWhole
  <2> DEFINE e == cache[g][n]
  <2>1. e \in 1..Len(entries) /\ entries[e].gen = g /\ entries[e].node = n
    BY LenProperties DEF IInv, EntriesOK, Filed, Nil
  <2>2. entries[e].done
    BY <2>1 DEF IInv, EntriesOK, Filed
  <2>3. Buf(e) \in Seq(Value) /\ Source(e) \in Seq(Value) /\ Source(e) = Out[g][n]
    BY <2>1, IInvTypeOK, SourceType DEF Source
  <2>4. Len(Buf(e)) = Len(Source(e)) /\ \A i \in 1..Len(Buf(e)) : Buf(e)[i] = Source(e)[i]
    BY <2>1, <2>2 DEF IInv, EntriesOK, BuffersExact, IsPrefixOf
  <2> QED
    BY <2>3, <2>4, SeqEqual
<1> QED
  BY <1>1, Inductive, PTL

(* A committed hit is never dropped, replaced or altered, by a reset least *)
(* of all: whoever holds the cached array may keep it.                     *)
THEOREM CommitsAreStable == Spec => CommitsStable
<1>1. ASSUME IInv, [Next]_vars, NEW g \in Gen, NEW n \in Node, cache[g][n] # Nil
      PROVE  /\ cache'[g][n] = cache[g][n]
             /\ entries'[cache[g][n]].buf = Buf(cache[g][n])
  <2> DEFINE e == cache[g][n]
  <2>1. EntriesOK' /\ Grows
    BY <1>1, NextInvariance DEF Invariance
  <2>2. /\ e \in 1..Len(entries) /\ entries[e].gen = g /\ entries[e].node = n
        /\ Len(entries) \in Nat
    BY <1>1, LenProperties DEF IInv, EntriesOK, Filed, Nil
  <2>3. entries[e].done
    BY <1>1, <2>2 DEF IInv, EntriesOK, Filed
  <2>4. entries'[e] = entries[e] /\ e \in 1..Len(entries')
    BY <2>1, <2>2, <2>3, LenProperties DEF Grows, EntriesOK
  <2> HIDE DEF e
  <2>5. cache'[g][n] = e
    BY <2>1, <2>2, <2>3, <2>4 DEF EntriesOK, Filed
  <2> QED
    BY <2>4, <2>5 DEF e, Buf
<1>2. IInv /\ [Next]_vars =>
        [\A g \in Gen, n \in Node :
           cache[g][n] # Nil => /\ cache'[g][n] = cache[g][n]
                                /\ entries'[cache[g][n]].buf = Buf(cache[g][n])]_vars
  BY <1>1
<1> QED
  BY <1>2, Inductive, PTL DEF Spec, CommitsStable

(* Once reset, the old generation's tables take no new recordings.         *)
THEOREM OldTablesStayClosed == Spec => OldTablesClosed
<1>1. ASSUME IInv, [Next]_vars, NEW g \in Gen, NEW n \in Node, g < gen, pending[g][n] = Nil
      PROVE  pending'[g][n] = Nil
  <2> SUFFICES ASSUME pending'[g][n] # Nil
               PROVE  FALSE
    OBVIOUS
  <2> DEFINE e == pending'[g][n]
  <2>1. EntriesOK' /\ Grows
    BY <1>1, NextInvariance DEF Invariance
  <2>2. e \in 1..Len(entries') /\ entries'[e].gen = g /\ entries'[e].node = n
    BY <2>1, LenProperties DEF EntriesOK, Filed, Nil
  <2>3. ~entries'[e].done
    BY <2>1, <2>2 DEF EntriesOK, Filed
  <2>4. e <= Len(entries)
    BY <1>1, <2>1, <2>2, LenProperties DEF Grows, Gen, IInv, EntriesOK, CountersOK
  <2>5. e \in 1..Len(entries)
    BY <2>2, <2>4, LenProperties DEF IInv, EntriesOK
  <2>6. ~entries[e].done /\ entries[e].gen = g /\ entries[e].node = n
    BY <2>1, <2>2, <2>3, <2>5 DEF Grows
  <2>7. pending[g][n] = e
    BY <1>1, <2>5, <2>6 DEF IInv, EntriesOK, Filed
  <2> QED
    BY <1>1, <2>7
<1>2. IInv /\ [Next]_vars =>
        [\A g \in Gen, n \in Node :
           g < gen /\ pending[g][n] = Nil => pending'[g][n] = Nil]_vars
  BY <1>1
<1> QED
  BY <1>2, Inductive, PTL DEF Spec, OldTablesClosed

-----------------------------------------------------------------------------
(* The counters *)

(* Why the counters add up: no recording is of a generation to come, and   *)
(* calls are the hits, the shared ones, the misses, and the handlers that  *)
(* raised.                                                                 *)
CountsOK ==
  /\ \A e \in 1..Len(entries) : entries[e].gen <= gen
  /\ stats.hits + stats.shared + Cardinality(Begun) <= stats.calls
  /\ errors = 0 => stats.hits + stats.shared + Cardinality(Begun) = stats.calls

(* The recordings of a generation are finitely many. *)
LEMMA BegunFinite ==
  ASSUME IInv
  PROVE  IsFiniteSet(Begun) /\ Cardinality(Begun) \in Nat
<1>1. Len(entries) \in Nat
  BY LenProperties DEF IInv, EntriesOK
<1>2. IsFiniteSet(1..Len(entries))
  BY <1>1, FS_Interval
<1>3. IsFiniteSet(Begun)
  BY <1>2, FS_Subset DEF Begun
<1> QED
  BY <1>3, FS_CardinalityType

(* A step that begins no recording, counts no call and resets nothing. *)
LEMMA CountsSame ==
  ASSUME IInv, CountsOK, Grows, Len(entries') = Len(entries), gen' = gen, stats' = stats,
         errors' \in Nat, errors' >= errors
  PROVE  CountsOK'
<1>1. \A e \in 1..Len(entries) : entries'[e].gen = entries[e].gen
  BY DEF Grows
<1>2. Begun' = Begun
  BY <1>1 DEF Begun
<1>3. errors' = 0 => errors = 0
  BY DEF IInv, CountersOK
<1> QED
  BY <1>1, <1>2, <1>3 DEF CountsOK

(* Advancing or finishing a recording begins none. *)
LEMMA SameNumber ==
  ASSUME IInv, NEW e, NEW k, NEW b,
         AdvanceRecording(e, k) \/ FinishRecording(e, b) \/ entries' = entries,
         EntriesOK'
  PROVE  Len(entries') = Len(entries)
<1>1. DOMAIN entries' = DOMAIN entries
  BY DEF AdvanceRecording, FinishRecording
<1> QED
  BY <1>1, LenProperties DEF IInv, EntriesOK

(* A call is counted once, and as what it is. *)
LEMMA CallCounts ==
  ASSUME IInv, CountsOK, NEW r \in Reader, NEW n \in Node, Call(r, n)
  PROVE  CountsOK'
<1>1. /\ stats \in [calls : Nat, hits : Nat, shared : Nat]
      /\ stats.calls \in Nat /\ stats.hits \in Nat /\ stats.shared \in Nat
      /\ gen \in Gen /\ gen \in Nat /\ errors \in Nat
      /\ IsFiniteSet(Begun) /\ Cardinality(Begun) \in Nat
      /\ Len(entries) \in Nat
  BY BegunFinite, LenProperties DEF IInv, EntriesOK, CountersOK, Gen
<1>2. gen' = gen /\ errors' = errors
  BY DEF Call, CallHit, CallShared, CallMiss, tables
<1>3. ASSUME entries' = entries, Counted(1, 0) \/ Counted(0, 1)
      PROVE  CountsOK'
  <2>1. Begun' = Begun
    BY <1>2, <1>3 DEF Begun
  <2>2. stats'.hits + stats'.shared = stats.hits + stats.shared + 1 /\ stats'.calls = stats.calls + 1
    BY <1>1, <1>3 DEF Counted
  <2>3. stats'.hits \in Nat /\ stats'.shared \in Nat
    BY <1>1, <1>3 DEF Counted
  <2>4. \A e \in 1..Len(entries') : entries'[e].gen <= gen'
    BY <1>2, <1>3 DEF CountsOK
  <2> DEFINE N == Cardinality(Begun)
  <2>5. Cardinality(Begun') = N /\ N \in Nat
    BY <1>1, <2>1
  <2>6. /\ stats.hits + stats.shared + N <= stats.calls
        /\ errors = 0 => stats.hits + stats.shared + N = stats.calls
    BY DEF CountsOK
  <2> HIDE DEF N
  <2>7. /\ stats'.hits + stats'.shared + N <= stats'.calls
        /\ errors' = 0 => stats'.hits + stats'.shared + N = stats'.calls
    BY <1>1, <1>2, <2>2, <2>3, <2>5, <2>6
  <2> QED
    BY <2>4, <2>5, <2>7 DEF CountsOK
<1>4. CASE CallMiss(r, n)
  <2> DEFINE e == Len(entries) + 1
  <2>1. Grows /\ Len(entries') = e
    BY <1>4, BeginStep
  <2>2. \A f \in 1..e : entries'[f].gen = IF f = e THEN gen ELSE entries[f].gen
    BY <1>1, <2>1 DEF Grows
  <2>3. Begun' = Begun \cup {e} /\ e \notin Begun
    BY <1>1, <1>2, <2>1, <2>2 DEF Begun
  <2>4. Cardinality(Begun') = Cardinality(Begun) + 1
    BY <1>1, <2>3, FS_AddElement
  <2>5. /\ stats'.hits = stats.hits /\ stats'.shared = stats.shared
        /\ stats'.calls = stats.calls + 1
    BY <1>1, <1>4 DEF CallMiss, Counted
  <2>6. ASSUME NEW f \in 1..Len(entries')  PROVE entries'[f].gen <= gen'
    <3>1. f \in 1..e
      BY <2>1
    <3>2. CASE f = e
      BY <1>1, <1>2, <2>2, <3>1, <3>2
    <3>3. CASE f # e
      <4>1. f \in 1..Len(entries)
        BY <1>1, <3>1, <3>3
      <4>2. entries'[f].gen = entries[f].gen
        BY <2>2, <3>1, <3>3
      <4>3. entries[f].gen <= gen
        BY <4>1 DEF CountsOK
      <4> QED
        BY <1>2, <4>2, <4>3
    <3> QED
      BY <3>2, <3>3
  <2> HIDE DEF e
  <2>7. /\ stats.hits + stats.shared + Cardinality(Begun) <= stats.calls
        /\ errors = 0 => stats.hits + stats.shared + Cardinality(Begun) = stats.calls
    BY DEF CountsOK
  <2>8. stats'.hits + stats'.shared + Cardinality(Begun') <= stats'.calls
    BY <1>1, <2>4, <2>5, <2>7
  <2>9. errors' = 0 => stats'.hits + stats'.shared + Cardinality(Begun') = stats'.calls
    BY <1>1, <1>2, <2>4, <2>5, <2>7
  <2> QED
    BY <2>6, <2>8, <2>9 DEF CountsOK
<1> QED
  BY <1>3, <1>4 DEF Call, CallHit, CallShared

(* Every step keeps the counts right.                                      *)
LEMMA NextCounts ==
  ASSUME IInv, CountsOK, [Next]_vars
  PROVE  CountsOK'
<1>1. Grows /\ EntriesOK' /\ errors \in Nat /\ gen \in Gen /\ gen \in Nat
      /\ stats \in [calls : Nat, hits : Nat, shared : Nat]
  BY NextInvariance DEF Invariance, IInv, CountersOK, Gen
<1>2. ASSUME NEW r \in Reader, NEW n \in Node, Call(r, n)
      PROVE  CountsOK'
  BY <1>2, CallCounts
<1>3. ASSUME NEW n \in Node, CallRaises(n)
      PROVE  CountsOK'
  <2>1. gen' = gen /\ entries' = entries /\ errors' = errors + 1 /\ Counted(0, 0)
    BY <1>3 DEF CallRaises, tables
  <2>2. Begun' = Begun /\ Cardinality(Begun) \in Nat
    BY <2>1, BegunFinite DEF Begun
  <2>3. /\ stats'.hits = stats.hits /\ stats'.shared = stats.shared
        /\ stats'.calls = stats.calls + 1
        /\ stats.hits \in Nat /\ stats.shared \in Nat /\ stats.calls \in Nat
    BY <1>1, <2>1 DEF Counted
  <2>4. /\ stats'.hits + stats'.shared + Cardinality(Begun') <= stats'.calls
        /\ errors' # 0
    BY <1>1, <2>1, <2>2, <2>3 DEF CountsOK
  <2> QED
    BY <2>1, <2>4 DEF CountsOK
<1>4. ASSUME Len(entries') = Len(entries), gen' = gen, stats' = stats,
             errors' = errors \/ errors' = errors + 1
      PROVE  CountsOK'
  BY <1>1, <1>4, CountsSame
<1>5. ASSUME NEW r \in Reader, Pull(r) \/ Take(r) \/ EachStart(r) \/ SourceRaises(r) \/ Drop(r)
      PROVE  CountsOK'
  <2>1. gen' = gen /\ stats' = stats /\ (errors' = errors \/ errors' = errors + 1)
    BY <1>5 DEF Pull, PullSeq, PullRecorded, PullSource, PullEnd, Take, DrainSeq, DrainRec,
       OneSeq, OneRec, EachStart, SourceRaises, Drop, tables
  <2>2. \E e, k, b : AdvanceRecording(e, k) \/ FinishRecording(e, b) \/ entries' = entries
    BY <1>5 DEF Pull, PullSeq, PullRecorded, PullSource, PullEnd, Take, DrainSeq, DrainRec,
       OneSeq, OneRec, EachStart, LoopOn, SourceRaises, Drop
  <2> QED
    BY <1>1, <1>4, <2>1, <2>2, SameNumber
<1>6. CASE EachReturn
  <2>1. gen' = gen /\ stats' = stats /\ errors' = errors
    BY <1>6 DEF EachReturn
  <2>2. \E e, k, b : AdvanceRecording(e, k) \/ FinishRecording(e, b) \/ entries' = entries
    BY <1>6 DEF EachReturn, LoopOn
  <2> QED
    BY <1>1, <1>4, <2>1, <2>2, SameNumber
<1>7. ASSUME NEW d \in 0..Cardinality(Reader), Unwind(d)
      PROVE  CountsOK'
  BY <1>4, <1>7 DEF Unwind, tables
<1>8. CASE Reset
  <2>1. gen' = gen + 1 /\ entries' = entries /\ stats' = [calls |-> 0, hits |-> 0, shared |-> 0]
    BY <1>8 DEF Reset
  <2>2. \A e \in 1..Len(entries) : entries[e].gen \in Nat /\ entries[e].gen <= gen
    <3>1. \A e \in 1..Len(entries) : entries[e] \in EntryType
      BY IInvTypeOK, SourceType
    <3> QED
      BY <3>1 DEF CountsOK, EntryType, Gen
  <2>3. Begun' = {}
    BY <1>1, <2>1, <2>2 DEF Begun
  <2>4. Cardinality(Begun') = 0
    BY <2>3, FS_EmptySet
  <2>5. \A e \in 1..Len(entries') : entries'[e].gen <= gen'
    BY <1>1, <2>1, <2>2
  <2> QED
    BY <2>1, <2>4, <2>5 DEF CountsOK
<1>9. CASE UNCHANGED vars
  BY <1>4, <1>9 DEF vars
<1> QED
  BY <1>2, <1>3, <1>5, <1>6, <1>7, <1>8, <1>9 DEF Next

(* hits and shared never count a call that ran the handler: what they      *)
(* leave of the calls since the last reset are the recordings begun since, *)
(* and the handlers that raised.                                           *)
THEOREM CountersAddUp == Spec => []StatsAccount
<1>1. Init => CountsOK
  <2> SUFFICES ASSUME Init
               PROVE  CountsOK
    OBVIOUS
  <2>1. entries = <<>> /\ Len(entries) = 0
    BY EmptySeq DEF Init
  <2>2. Begun = {}
    BY <2>1 DEF Begun
  <2> QED
    BY <2>1, <2>2, FS_EmptySet DEF Init, CountsOK
<1>2. IInv /\ CountsOK /\ [Next]_vars => CountsOK'
  BY NextCounts
<1>3. IInv /\ CountsOK => StatsAccount
  <2> SUFFICES ASSUME IInv, CountsOK
               PROVE  StatsAccount
    OBVIOUS
  <2>1. Cardinality(Begun) \in Nat
    BY BegunFinite
  <2>2. stats.calls \in Nat /\ stats.hits \in Nat /\ stats.shared \in Nat
    BY DEF IInv, CountersOK
  <2> QED
    BY <2>1, <2>2 DEF CountsOK, StatsAccount
<1> QED
  BY <1>1, <1>2, <1>3, Inductive, PTL DEF Spec
-----------------------------------------------------------------------------
(***************************************************************************)
(* What consumers get, for every instance of PvmPhase whose handlers       *)
(* produce no nil (or that has a value function): everything, in order,    *)
(* once.  It holds of consumers that pull for themselves whatever          *)
(* callbacks do, and of each and fold when no callback advances the        *)
(* recording being iterated.  In that case the phase implements            *)
(* PhaseContract.                                                          *)
(***************************************************************************)

(* No handler's stream holds a nil that # could take for its end. *)
Dense ==
  \/ Scalar
  \/ \A g \in Gen, n \in Node : \A i \in 1..Len(Out[g][n]) : Out[g][n][i] # NilValue

InLoop(r, s) == \E j \in 1..Len(s) : s[j] = r

(* Consumers whose position nobody else can disturb. *)
Watched(c) == c.how = "pull" \/ ~Reentrant

(* What a consumer that is in a loop, or not, has got of the buffer it     *)
(* reads: up to its own position, or, once each and fold are past the      *)
(* elements they found buffered, all of it.                                *)
Exact(c, es, looping) ==
  LET b == es[c.src].buf
      n == Len(c.got) IN
  c.st # "idle" =>
    /\ c.st = "open" => (c.how = "each" <=> looping)
    /\ c.st = "done" => es[c.src].done
    /\ Watched(c) =>
         /\ IsPrefixOf(c.got, b)
         /\ c.st = "done" => n = Len(b)
         /\ c.st = "open" /\ ~looping => n = c.i
         /\ looping /\ c.i < c.hi => n = c.i /\ c.hi = Len(b)
         /\ looping /\ c.i >= c.hi => n = Len(b)

ExactInv == \A r \in Reader : Exact(readers[r], entries, InLoop(r, stack))

(* A step of r leaves the buffers alone that others iterate. *)
Undisturbed(r) ==
  \A q \in Reader \ {r} : InLoop(q, stack) /\ ~Reentrant =>
    entries'[readers[q].src].buf = Buf(readers[q].src)

-----------------------------------------------------------------------------
(* Sequences *)

(* Equal length and agreement make sequences equal. *)
LEMMA WholePrefix ==
  ASSUME NEW s \in Seq(Value), NEW t \in Seq(Value), IsPrefixOf(s, t), Len(s) = Len(t)
  PROVE  s = t
BY SeqEqual DEF IsPrefixOf

(* Reading on from where a prefix ends gives the whole. *)
LEMMA ReadOnAll ==
  ASSUME NEW s \in Seq(Value), NEW t \in Seq(Value), IsPrefixOf(s, t)
  PROVE  ReadOn(s, t, Len(s), Len(t)) = t
<1> DEFINE m == Len(s) + 1
           n == Len(t)
           rest == SubSeq(t, m, n)
<1>1. /\ Len(s) \in Nat /\ n \in Nat /\ m \in Int /\ n \in Int
      /\ Len(s) <= n /\ \A j \in 1..Len(s) : s[j] = t[j]
      /\ \A j \in m..n : t[j] \in Value
  BY LenProperties, ElementOfSeq DEF IsPrefixOf
<1>2. /\ rest \in Seq(Value)
      /\ Len(rest) = IF m <= n THEN n - m + 1 ELSE 0
      /\ \A j \in 1..n - m + 1 : rest[j] = t[m + j - 1]
  BY <1>1, SubSeqProperties
<1> HIDE DEF rest
<1>3. Len(rest) = n - Len(s)
  BY <1>1, <1>2
<1>4. /\ s \o rest \in Seq(Value)
      /\ Len(s \o rest) = n
      /\ \A j \in 1..n : (s \o rest)[j] = IF j <= Len(s) THEN s[j] ELSE rest[j - Len(s)]
  BY <1>1, <1>2, <1>3, ConcatProperties
<1>5. ASSUME NEW j \in 1..n
      PROVE  (s \o rest)[j] = t[j]
  <2>1. CASE j <= Len(s)
    BY <2>1, <1>1, <1>4
  <2>2. CASE j > Len(s)
    <3>1. j - Len(s) \in 1..n - m + 1 /\ m + (j - Len(s)) - 1 = j
      BY <2>2, <1>1
    <3>2. rest[j - Len(s)] = t[j]
      BY <3>1, <1>2
    <3> QED
      BY <2>2, <3>2, <1>1, <1>4
  <2>3. j <= Len(s) \/ j > Len(s)
    BY <1>1
  <2> QED
    BY <2>1, <2>2, <2>3
<1>6. s \o rest = t
  BY <1>4, <1>5, SeqEqual
<1> QED
  BY <1>6 DEF ReadOn, rest

(* One more element of t after a prefix of it makes a longer prefix. *)
LEMMA AppendNext ==
  ASSUME NEW s \in Seq(Value), NEW t \in Seq(Value), IsPrefixOf(s, t), NEW v \in Value,
         Len(s) + 1 <= Len(t), t[Len(s) + 1] = v
  PROVE  /\ Append(s, v) \in Seq(Value)
         /\ Len(Append(s, v)) = Len(s) + 1
         /\ IsPrefixOf(Append(s, v), t)
<1>1. /\ Append(s, v) \in Seq(Value)
      /\ Len(Append(s, v)) = Len(s) + 1
      /\ \A i \in 1..Len(s) : Append(s, v)[i] = s[i]
      /\ Append(s, v)[Len(s) + 1] = v
  BY AppendProperties
<1>2. Len(s) \in Nat /\ \A i \in 1..Len(s) : s[i] = t[i]
  BY LenProperties DEF IsPrefixOf
<1>3. \A i \in 1..Len(s) + 1 : i \in 1..Len(s) \/ i = Len(s) + 1
  BY <1>2
<1>4. \A i \in 1..Len(s) + 1 : Append(s, v)[i] = t[i]
  BY <1>1, <1>2, <1>3
<1> QED
  BY <1>1, <1>4 DEF IsPrefixOf

(* The length of a hit without nils is the length of its buffer. *)
LEMMA DenseHits ==
  ASSUME Dense, IInv, NEW e \in 1..Len(entries), NEW n \in HitLengths(e)
  PROVE  n = Len(Buf(e))
<1>1. CASE Scalar
  BY <1>1 DEF HitLengths
<1>2. CASE ~Scalar
  <2>1. entries[e] \in EntryType /\ Buf(e) \in Seq(Value) /\ Len(Buf(e)) \in Nat
    BY IInvTypeOK, SourceType, LenProperties
  <2>2. IsPrefixOf(Buf(e), Source(e))
    BY DEF IInv, EntriesOK, BuffersExact
  <2>3. \A i \in 1..Len(Source(e)) : Source(e)[i] # NilValue
    BY <1>2, <2>1 DEF Dense, Source, EntryType
  <2>4. Len(Source(e)) \in Nat
    BY IInvTypeOK, SourceType, LenProperties
  <2>5. \A i \in 1..Len(Buf(e)) : Buf(e)[i] # NilValue
    BY <2>1, <2>2, <2>3, <2>4 DEF IsPrefixOf
  <2>6. n \in 0..Len(Buf(e)) /\ (n = Len(Buf(e)) \/ Buf(e)[n + 1] = NilValue)
    BY <1>2 DEF HitLengths, Borders
  <2> QED
    BY <2>1, <2>5, <2>6
<1> QED
  BY <1>1, <1>2

-----------------------------------------------------------------------------
(* Consumers *)

(* A consumer that does nothing keeps what it has: buffers grow behind it, *)
(* and the one it iterates, if it does, is left alone.                     *)
LEMMA ExactFrame ==
  ASSUME IInv, Grows, EntriesOK', NEW c \in ReaderType, NEW l \in BOOLEAN,
         Holding(c, entries), Exact(c, entries, l),
         l /\ ~Reentrant => entries'[c.src].buf = Buf(c.src)
  PROVE  Exact(c, entries', l)
<1> SUFFICES ASSUME c.st # "idle"
             PROVE  Exact(c, entries', l)
  BY DEF Exact
<1> DEFINE b == entries[c.src].buf
           b2 == entries'[c.src].buf
<1>1. c.src \in 1..Len(entries)
  BY DEF Holding
<1>2. b \in Seq(Value) /\ Len(b) \in Nat /\ c.got \in Seq(Value) /\ Len(c.got) \in Nat
  BY <1>1, IInvTypeOK, SourceType, LenProperties DEF Buf, ReaderType
<1>3. c.src \in 1..Len(entries') /\ entries'[c.src] \in EntryType
  BY <1>1, LenProperties, ElementOfSeq DEF Grows, IInv, EntriesOK
<1>4. Len(b2) \in Nat
  BY <1>3, LenProperties DEF EntryType
<1>5. IsPrefixOf(b, b2) /\ (entries[c.src].done => entries'[c.src] = entries[c.src])
  BY <1>1 DEF Grows, Buf
<1>6. CASE entries'[c.src] = entries[c.src]
  BY <1>6 DEF Exact
<1>7. CASE ~entries[c.src].done
  <2>1. c.st = "open"
    BY <1>7 DEF Exact, ReaderType
  <2>2. Watched(c) /\ l => b2 = b
    BY <2>1 DEF Exact, Watched, Buf
  <2>3. Watched(c) => IsPrefixOf(c.got, b2)
    <3>1. Watched(c) => IsPrefixOf(c.got, b)
      BY DEF Exact
    <3> HIDE DEF b, b2
    <3> QED
      BY <3>1, <1>2, <1>4, <1>5 DEF IsPrefixOf
  <2> HIDE DEF b, b2
  <2> QED
    BY <2>1, <2>2, <2>3 DEF Exact, b, b2
<1> QED
  BY <1>5, <1>6, <1>7

(* Only r's triplet changes, and it is exact afterwards.                   *)
LEMMA ExactReplaced ==
  ASSUME IInv, ExactInv, Grows, EntriesOK', NEW r \in Reader, NEW c,
         readers' = [readers EXCEPT ![r] = c], Undisturbed(r),
         Exact(c, entries', InLoop(r, stack')),
         \A q \in Reader \ {r} : InLoop(q, stack') <=> InLoop(q, stack)
  PROVE  ExactInv'
<1>1. readers \in [Reader -> ReaderType] /\ \A q \in Reader : Holding(readers[q], entries)
  BY DEF IInv, ConsumersOK, Held
<1>2. ASSUME NEW q \in Reader
      PROVE  Exact(readers'[q], entries', InLoop(q, stack'))
  <2>1. CASE q = r
    BY <2>1, <1>1
  <2>2. CASE q # r
    <3>1. readers'[q] = readers[q] /\ readers[q] \in ReaderType
      BY <2>2, <1>1
    <3>2. InLoop(q, stack') = InLoop(q, stack) /\ InLoop(q, stack) \in BOOLEAN
      BY <2>2 DEF InLoop
    <3>3. Exact(readers[q], entries, InLoop(q, stack))
      BY DEF ExactInv
    <3>4. InLoop(q, stack) /\ ~Reentrant => entries'[readers[q].src].buf = Buf(readers[q].src)
      BY <2>2 DEF Undisturbed
    <3> QED
      BY <3>1, <3>2, <3>3, <3>4, <1>1, ExactFrame
  <2> QED
    BY <2>1, <2>2
<1> QED
  BY <1>2 DEF ExactInv

(* A step that changes no buffer disturbs nobody. *)
LEMMA UndisturbedSame ==
  ASSUME NEW r \in Reader, entries' = entries
  PROVE  Undisturbed(r)
BY DEF Undisturbed, Buf

(* Nor does r, when it changes no buffer but one that it may advance. *)
LEMMA UndisturbedAdvance ==
  ASSUME IInv, NEW r \in Reader, NEW e \in 1..Len(entries), ~entries[e].done,
         MayAdvance(r, e) \/ entries'[e].buf = Buf(e),
         \A f \in 1..Len(entries) : f # e => entries'[f] = entries[f]
  PROVE  Undisturbed(r)
<1> SUFFICES ASSUME NEW q \in Reader \ {r}, InLoop(q, stack), ~Reentrant
             PROVE  entries'[readers[q].src].buf = Buf(readers[q].src)
  BY DEF Undisturbed
<1>1. readers[q].st = "open"
  BY DEF IInv, ConsumersOK, Held, InLoop
<1>2. /\ readers[q] \in ReaderType /\ readers[q].src \in 1..Len(entries)
      /\ readers[q].kind = "seq" => entries[readers[q].src].done
  BY <1>1, HeldFacts
<1>3. CASE readers[q].src # e
  BY <1>2, <1>3 DEF Buf
<1>4. CASE readers[q].src = e
  <2>1. readers[q].kind = "rec"
    BY <1>2, <1>4 DEF ReaderType
  <2>2. Disturbs(r, e)
    BY <2>1, <1>4 DEF Disturbs, InLoop
  <2> QED
    BY <2>2, <1>4 DEF MayAdvance
<1> QED
  BY <1>3, <1>4

(* What a consumer that is in no loop has. *)
LEMMA FreeFacts ==
  ASSUME IInv, ExactInv, NEW r \in Reader, Free(r)
  PROVE  LET c == readers[r]
             e == c.src IN
         /\ c \in ReaderType /\ c.st = "open" /\ c.how = "pull" /\ ~InLoop(r, stack)
         /\ c.got \in Seq(Value) /\ IsPrefixOf(c.got, Buf(e))
         /\ c.i \in Nat /\ Len(c.got) = c.i
<1>1. readers[r].st = "open" /\ ~InLoop(r, stack)
  BY DEF Free, Looping, InLoop
<1>2. readers[r] \in ReaderType /\ readers[r].got \in Seq(Value) /\ readers[r].i \in Nat
  BY <1>1, HeldFacts
<1>3. Exact(readers[r], entries, InLoop(r, stack))
  BY DEF ExactInv
<1> QED
  BY <1>1, <1>2, <1>3 DEF Exact, Watched, Buf, ReaderType

-----------------------------------------------------------------------------
(* Steps of one consumer *)

(* A consumer opens a triplet. *)
LEMMA HoldExact ==
  ASSUME IInv, ExactInv, Grows, EntriesOK', NEW r \in Reader, NEW k, NEW e \in 1..Len(entries'),
         Hold(r, k, e), stack' = stack, Undisturbed(r)
  PROVE  ExactInv'
<1> DEFINE c == [st |-> "open", kind |-> k, how |-> "pull", src |-> e, i |-> 0, hi |-> 0, got |-> <<>>]
<1>1. readers[r].st = "idle" /\ readers' = [readers EXCEPT ![r] = c]
  BY DEF Hold
<1>2. ~InLoop(r, stack)
  BY <1>1 DEF InLoop, IInv, ConsumersOK, Held
<1>3. Len(entries'[e].buf) \in Nat
  <2>1. entries'[e] \in EntryType
    BY ElementOfSeq DEF EntriesOK
  <2> QED
    BY <2>1, LenProperties DEF EntryType
<1>4. Len(<<>>) = 0 /\ IsPrefixOf(<<>>, entries'[e].buf)
  BY <1>3 DEF IsPrefixOf
<1>5. Exact(c, entries', InLoop(r, stack'))
  BY <1>2, <1>4 DEF Exact, InLoop
<1> HIDE DEF c
<1> QED
  BY <1>1, <1>5, ExactReplaced

(* A consumer is handed the element after the last it got. *)
LEMMA DeliverExact ==
  ASSUME IInv, ExactInv, Grows, EntriesOK', NEW r \in Reader, Free(r), stack' = stack,
         Undisturbed(r), NEW v \in Value, Deliver(r, v),
         readers[r].i + 1 <= Len(entries'[readers[r].src].buf),
         entries'[readers[r].src].buf[readers[r].i + 1] = v
  PROVE  ExactInv'
<1> DEFINE c == readers[r]
           d == [c EXCEPT !.i = c.i + 1, !.got = Append(c.got, v)]
           b2 == entries'[c.src].buf
<1>1. /\ c \in ReaderType /\ c.st = "open" /\ c.how = "pull" /\ ~InLoop(r, stack)
      /\ c.got \in Seq(Value) /\ IsPrefixOf(c.got, Buf(c.src))
      /\ c.i \in Nat /\ Len(c.got) = c.i
  BY FreeFacts
<1>2. readers' = [readers EXCEPT ![r] = d]
  BY <1>1 DEF Deliver, ReaderType
<1>3. /\ d.st = "open" /\ d.how = "pull" /\ d.i = c.i + 1
      /\ d.src = c.src /\ d.got = Append(c.got, v)
  BY <1>1 DEF ReaderType
<1>4. b2 \in Seq(Value) /\ Len(b2) \in Nat /\ IsPrefixOf(Buf(c.src), b2)
  <2>1. c.src \in 1..Len(entries) /\ c.src \in 1..Len(entries')
    BY <1>1, HeldFacts, LenProperties DEF Grows, IInv, EntriesOK
  <2>2. entries'[c.src] \in EntryType
    BY <2>1, ElementOfSeq DEF EntriesOK
  <2>3. IsPrefixOf(Buf(c.src), b2)
    BY <2>1 DEF Grows
  <2> QED
    BY <2>2, <2>3, LenProperties DEF EntryType
<1>5. IsPrefixOf(c.got, b2)
  <2>1. Len(c.got) \in Nat /\ Len(Buf(c.src)) \in Nat
    BY <1>1, HeldFacts, LenProperties
  <2> HIDE DEF b2
  <2> QED
    BY <2>1, <1>1, <1>4 DEF IsPrefixOf
<1>6. Len(d.got) = d.i /\ IsPrefixOf(d.got, b2)
  <2> HIDE DEF d, b2
  <2>1. Len(c.got) + 1 <= Len(b2) /\ b2[Len(c.got) + 1] = v
    BY <1>1 DEF b2
  <2> QED
    BY <2>1, <1>1, <1>3, <1>4, <1>5, AppendNext
<1> HIDE DEF d
<1>7. Exact(d, entries', InLoop(r, stack'))
  BY <1>1, <1>3, <1>6 DEF Exact, InLoop
<1> QED
  BY <1>2, <1>7, ExactReplaced

(* A consumer that is in no loop comes to the end with the whole buffer.   *)
LEMMA EndExact ==
  ASSUME IInv, ExactInv, Grows, EntriesOK', NEW r \in Reader, Free(r), stack' = stack,
         Undisturbed(r), NEW t \in Seq(Value),
         readers' = [readers EXCEPT ![r].st = "done", ![r].got = t],
         entries'[readers[r].src].done, entries'[readers[r].src].buf = t
  PROVE  ExactInv'
<1> DEFINE c == readers[r]
           d == [c EXCEPT !.st = "done", !.got = t]
<1>1. c \in ReaderType /\ c.how = "pull" /\ ~InLoop(r, stack)
  BY FreeFacts
<1>2. readers' = [readers EXCEPT ![r] = d]
  BY <1>1 DEF ReaderType
<1>3. d.st = "done" /\ d.how = "pull" /\ d.src = c.src /\ d.got = t
  BY <1>1 DEF ReaderType
<1> HIDE DEF d
<1>4. IsPrefixOf(t, t)
  BY LenProperties DEF IsPrefixOf
<1>5. Exact(d, entries', InLoop(r, stack'))
  BY <1>1, <1>3, <1>4 DEF Exact, InLoop
<1> QED
  BY <1>2, <1>5, ExactReplaced

(* ... also when it had it all already. *)
LEMMA FinishExact ==
  ASSUME IInv, ExactInv, Grows, EntriesOK', NEW r \in Reader, Free(r), stack' = stack,
         Undisturbed(r), Finish(r), readers[r].i = Len(Buf(readers[r].src)),
         entries'[readers[r].src].done, entries'[readers[r].src].buf = Buf(readers[r].src)
  PROVE  ExactInv'
<1>1. /\ readers[r] \in ReaderType /\ readers[r].st # "idle"
      /\ readers[r].got \in Seq(Value) /\ IsPrefixOf(readers[r].got, Buf(readers[r].src))
      /\ Len(readers[r].got) = readers[r].i
  BY FreeFacts
<1>2. Buf(readers[r].src) \in Seq(Value)
  BY <1>1, HeldFacts
<1>3. readers[r].got = Buf(readers[r].src)
  BY <1>1, <1>2, WholePrefix
<1>4. readers' = [readers EXCEPT ![r].st = "done", ![r].got = readers[r].got]
  BY <1>1 DEF Finish, ReaderType
<1> QED
  BY <1>1, <1>3, <1>4, EndExact

(* A consumer that is in no loop lets go. *)
LEMMA LetGoExact ==
  ASSUME IInv, ExactInv, Grows, EntriesOK', NEW r \in Reader, ~Looping(r), stack' = stack,
         Undisturbed(r), readers' = [readers EXCEPT ![r] = Idle]
  PROVE  ExactInv'
<1>1. Exact(Idle, entries', InLoop(r, stack'))
  BY DEF Exact, Idle
<1> QED
  BY <1>1, ExactReplaced

-----------------------------------------------------------------------------
(* Steps of a recording, seen from the other consumers *)

(* Only one recording changes. *)
LEMMA OthersSame ==
  ASSUME IInv, NEW e \in 1..Len(entries), NEW b, NEW k,
         AdvanceRecording(e, k) \/ FinishRecording(e, b)
  PROVE  \A f \in 1..Len(entries) : f # e => entries'[f] = entries[f]
<1>1. entries \in [1..Len(entries) -> EntryType]
  BY LenProperties DEF IInv, EntriesOK
<1> QED
  BY <1>1 DEF AdvanceRecording, FinishRecording

(* A consumer that may do so advances a recording. *)
LEMMA AdvanceUndisturbed ==
  ASSUME IInv, NEW r \in Reader, NEW e \in 1..Len(entries), ~entries[e].done,
         NEW k \in Len(Buf(e))..Len(Source(e)), AdvanceRecording(e, k), MayAdvance(r, e)
  PROVE  /\ EntriesOK' /\ Grows /\ Undisturbed(r)
         /\ entries'[e].buf = Grown(Buf(e), Source(e), k)
         /\ Len(entries'[e].buf) = k
BY AdvanceStep, OthersSame, UndisturbedAdvance

(* A consumer that may advance a recording, or need not, finishes it. *)
LEMMA FinishUndisturbed ==
  ASSUME IInv, NEW r \in Reader, NEW e \in 1..Len(entries), ~entries[e].done,
         NEW b \in Seq(Value), IsPrefixOf(Buf(e), b), IsPrefixOf(b, Source(e)),
         Len(b) = Len(Source(e)), FinishRecording(e, b), MayAdvance(r, e) \/ b = Buf(e)
  PROVE  /\ EntriesOK' /\ Grows /\ Undisturbed(r)
         /\ entries'[e].buf = b /\ entries'[e].done
<1>1. EntriesOK' /\ Grows /\ entries'[e].buf = b /\ entries'[e].done
  BY FinishStep
<1>2. Undisturbed(r)
  BY <1>1, OthersSame, UndisturbedAdvance
<1> QED
  BY <1>1, <1>2

(* A step that leaves the recordings alone. *)
LEMMA StillUndisturbed ==
  ASSUME IInv, NEW r \in Reader, UNCHANGED <<cache, pending, entries>>
  PROVE  EntriesOK' /\ Grows /\ Undisturbed(r) /\ entries' = entries
BY EntriesUnchanged, UndisturbedSame

-----------------------------------------------------------------------------
(* Calls and pulls *)

(* A call of the phase disturbs nobody. *)
LEMMA CallExact ==
  ASSUME IInv, ExactInv, NEW r \in Reader, NEW n \in Node, Call(r, n)
  PROVE  ExactInv'
<1>1. EntriesOK' /\ Grows /\ ConsumersOK'
  BY CallInvariance DEF Invariance
<1>2. stack' = stack
  BY DEF Call, CallHit, CallShared, CallMiss
<1>3. Undisturbed(r)
  <2>1. CASE entries' = entries
    BY <2>1, UndisturbedSame
  <2>2. CASE CallMiss(r, n)
    <3>1. entries \in Seq(EntryType) /\ [gen |-> gen, node |-> n, buf |-> <<>>, done |-> FALSE] \in EntryType
      BY EmptySeq DEF IInv, EntriesOK, CountersOK, EntryType
    <3>2. \A f \in 1..Len(entries) : entries'[f] = entries[f]
      BY <2>2, <3>1, AppendProperties DEF CallMiss
    <3> SUFFICES ASSUME NEW q \in Reader \ {r}, InLoop(q, stack)
                 PROVE  entries'[readers[q].src].buf = Buf(readers[q].src)
      BY DEF Undisturbed
    <3>3. readers[q].src \in 1..Len(entries)
      BY HeldFacts DEF InLoop, IInv, ConsumersOK, Held
    <3> QED
      BY <3>2, <3>3 DEF Buf
  <2> QED
    BY <2>1, <2>2 DEF Call, CallHit, CallShared
<1>4. PICK k, e : Hold(r, k, e)
  BY DEF Call, CallHit, CallShared, CallMiss
<1>5. e \in 1..Len(entries')
  <2> DEFINE c == [st |-> "open", kind |-> k, how |-> "pull", src |-> e, i |-> 0, hi |-> 0, got |-> <<>>]
  <2>1. readers'[r] = c
    BY <1>4 DEF Hold, IInv, ConsumersOK
  <2>2. Holding(readers'[r], entries')
    BY <1>1 DEF ConsumersOK, Held
  <2> QED
    BY <2>1, <2>2 DEF Holding
<1> QED
  BY <1>1, <1>2, <1>3, <1>4, <1>5, HoldExact

(* A pull hands out the next element, or comes to the end with all of them. *)
LEMMA PullExact ==
  ASSUME Dense, IInv, ExactInv, NEW r \in Reader, Pull(r)
  PROVE  ExactInv'
<1> DEFINE c == readers[r]
           e == c.src
<1>1. Free(r) /\ c.st # "idle" /\ stack' = stack
  BY DEF Pull, PullSeq, PullRecorded, PullSource, PullEnd, Free
<1>2. /\ c.i \in Nat /\ e \in 1..Len(entries) /\ c.i <= Len(Buf(e))
      /\ Len(Buf(e)) \in Nat /\ Len(Source(e)) \in Nat
      /\ Buf(e) \in Seq(Value) /\ Source(e) \in Seq(Value)
      /\ \A i \in 1..Len(Buf(e)) : Buf(e)[i] \in Value
      /\ \A i \in 1..Len(Source(e)) : Source(e)[i] \in Value
      /\ IsPrefixOf(Buf(e), Source(e))
      /\ c.kind = "seq" => entries[e].done
  BY <1>1, HeldFacts
<1>3. IsPrefixOf(Buf(e), Buf(e))
  BY <1>2 DEF IsPrefixOf
<1>4. CASE PullSeq(r)
  <2>1. EntriesOK' /\ Grows /\ Undisturbed(r) /\ entries' = entries
    BY <1>4, StillUndisturbed DEF PullSeq, tables
  <2>2. IF c.i + 1 > Len(Buf(e)) THEN Finish(r) ELSE Deliver(r, Buf(e)[c.i + 1])
    BY <1>2, <1>4, DenseHits DEF PullSeq
  <2>3. CASE c.i + 1 > Len(Buf(e))
    <3>1. c.i = Len(Buf(e)) /\ Finish(r) /\ entries'[e].done /\ entries'[e].buf = Buf(e)
      <4>1. c.i = Len(Buf(e)) /\ Finish(r)
        BY <1>2, <2>2, <2>3
      <4>2. entries[e].done
        BY <1>2, <1>4 DEF PullSeq
      <4> QED
        BY <2>1, <4>1, <4>2 DEF Buf
    <3> QED
      BY <1>1, <2>1, <3>1, FinishExact
  <2>4. CASE ~(c.i + 1 > Len(Buf(e)))
    <3>1. /\ c.i + 1 \in 1..Len(Buf(e)) /\ Buf(e)[c.i + 1] \in Value
          /\ c.i + 1 <= Len(entries'[e].buf) /\ entries'[e].buf[c.i + 1] = Buf(e)[c.i + 1]
      <4>1. c.i + 1 \in 1..Len(Buf(e))
        BY <1>2, <2>4
      <4>2. Buf(e)[c.i + 1] \in Value
        BY <1>2, <4>1
      <4>3. entries'[e].buf = Buf(e)
        BY <2>1 DEF Buf
      <4>4. c.i + 1 <= Len(Buf(e))
        BY <1>2, <2>4
      <4> QED
        BY ONLY <4>1, <4>2, <4>3, <4>4
    <3> QED
      BY <1>1, <2>1, <2>2, <2>4, <3>1, DeliverExact
  <2> QED
    BY <2>3, <2>4
<1>5. CASE PullRecorded(r)
  <2>1. EntriesOK' /\ Grows /\ Undisturbed(r) /\ entries' = entries
    BY <1>5, StillUndisturbed DEF PullRecorded, tables
  <2>2. /\ c.i + 1 \in 1..Len(Buf(e)) /\ Buf(e)[c.i + 1] \in Value /\ Deliver(r, Buf(e)[c.i + 1])
        /\ c.i + 1 <= Len(entries'[e].buf) /\ entries'[e].buf[c.i + 1] = Buf(e)[c.i + 1]
    BY <1>2, <1>5, <2>1 DEF PullRecorded, Buf
  <2> QED
    BY <1>1, <2>1, <2>2, DeliverExact
<1>6. CASE PullSource(r)
  <2> DEFINE n == Len(Buf(e)) + 1
  <2>1. /\ ~entries[e].done /\ n \in Len(Buf(e))..Len(Source(e)) /\ n = c.i + 1
        /\ AdvanceRecording(e, n) /\ Deliver(r, Source(e)[n]) /\ MayAdvance(r, e)
    BY <1>2, <1>6 DEF PullSource
  <2> HIDE DEF n
  <2>2. /\ EntriesOK' /\ Grows /\ Undisturbed(r)
        /\ entries'[e].buf = Grown(Buf(e), Source(e), n) /\ Len(entries'[e].buf) = n
    BY <1>2, <2>1, AdvanceUndisturbed
  <2>3. n \in 1..n /\ n \in 1..Len(Source(e))
    BY <1>2, <2>1
  <2>4. entries'[e].buf[n] = Source(e)[n] /\ Source(e)[n] \in Value
    BY <1>2, <2>1, <2>2, <2>3, GrownProperties
  <2>5. c.i + 1 <= Len(entries'[e].buf) /\ entries'[e].buf[c.i + 1] = Source(e)[n]
    BY <1>2, <2>1, <2>2, <2>4
  <2> QED
    BY <1>1, <2>1, <2>2, <2>4, <2>5, DeliverExact
<1>7. CASE PullEnd(r)
  <2>1. c.i = Len(Buf(e)) /\ Finish(r)
    BY <1>7 DEF PullEnd
  <2>2. CASE entries[e].done /\ UNCHANGED <<cache, pending, entries>>
    BY <1>1, <2>1, <2>2, StillUndisturbed, FinishExact DEF Buf
  <2>3. CASE ~entries[e].done /\ Len(Buf(e)) = Len(Source(e)) /\ FinishRecording(e, Buf(e))
    BY <1>1, <1>2, <1>3, <2>1, <2>3, FinishUndisturbed, FinishExact
  <2> QED
    BY <1>7, <2>2, <2>3 DEF PullEnd
<1> QED
  BY <1>4, <1>5, <1>6, <1>7 DEF Pull

-----------------------------------------------------------------------------
(* Draining and pvm.one *)

(* The element that ends a buffer makes what was got the whole of it. *)
LEMMA AppendLast ==
  ASSUME NEW s \in Seq(Value), NEW t \in Seq(Value), NEW b \in Seq(Value),
         IsPrefixOf(s, b), IsPrefixOf(b, t), Len(t) = Len(s) + 1
  PROVE  Append(s, t[Len(t)]) = t
<1>1. Len(s) \in Nat /\ Len(b) \in Nat /\ Len(t) \in Nat /\ t[Len(t)] \in Value
  BY LenProperties, ElementOfSeq
<1>2. IsPrefixOf(s, t)
  BY <1>1 DEF IsPrefixOf
<1>3. /\ Append(s, t[Len(t)]) \in Seq(Value)
      /\ Len(Append(s, t[Len(t)])) = Len(t)
      /\ IsPrefixOf(Append(s, t[Len(t)]), t)
  BY <1>1, <1>2, AppendNext
<1> QED
  BY <1>3, WholePrefix

(* drain, drain_into, one and warm end with the whole output, or let go.   *)
LEMMA TakeExact ==
  ASSUME Dense, IInv, ExactInv, NEW r \in Reader, Take(r)
  PROVE  ExactInv'
<1> DEFINE c == readers[r]
           e == c.src
           i == c.i + 1
<1>1. Free(r) /\ ~Looping(r) /\ c.st # "idle" /\ stack' = stack
  BY DEF Take, DrainSeq, DrainRec, OneSeq, OneRec, Free
<1>2. /\ c.i \in Nat /\ e \in 1..Len(entries) /\ c.i <= Len(Buf(e))
      /\ Len(Buf(e)) \in Nat /\ Len(Source(e)) \in Nat /\ Len(Buf(e)) <= Len(Source(e))
      /\ Buf(e) \in Seq(Value) /\ Source(e) \in Seq(Value)
      /\ IsPrefixOf(Buf(e), Source(e))
      /\ c.kind = "seq" => entries[e].done
      /\ entries[e].done \in BOOLEAN
      /\ entries[e].done => Len(Buf(e)) = Len(Source(e))
  BY <1>1, HeldFacts
<1>3. /\ c.got \in Seq(Value) /\ IsPrefixOf(c.got, Buf(e)) /\ Len(c.got) = c.i
  BY <1>1, FreeFacts
<1>4. IsPrefixOf(Buf(e), Buf(e))
  BY <1>2 DEF IsPrefixOf
<1>5. \A k \in Len(Buf(e))..Len(Source(e)) :
        LET b == Grown(Buf(e), Source(e), k) IN
        /\ b \in Seq(Value) /\ Len(b) = k
        /\ IsPrefixOf(b, Source(e)) /\ IsPrefixOf(Buf(e), b)
  BY <1>2, GrownProperties
<1>6. ASSUME NEW b \in Seq(Value), IsPrefixOf(Buf(e), b), Len(b) = Len(Source(e))
      PROVE  ReadOn(c.got, b, c.i, Len(b)) = b
  <2>1. IsPrefixOf(c.got, b)
    <3>1. Len(c.got) \in Nat /\ Len(b) \in Nat
      BY <1>3, LenProperties
    <3> QED
      BY <3>1, <1>2, <1>3, <1>6 DEF IsPrefixOf
  <2> QED
    BY <2>1, <1>3, ReadOnAll
<1>7. CASE DrainSeq(r)
  <2>1. EntriesOK' /\ Grows /\ Undisturbed(r) /\ entries' = entries
    BY <1>7, StillUndisturbed DEF DrainSeq, tables
  <2>2. c.kind = "seq" /\ Len(Buf(e)) = Len(Source(e))
    BY <1>2, <1>7 DEF DrainSeq
  <2>3. readers' = [readers EXCEPT ![r].st = "done",
                                   ![r].got = ReadOn(c.got, Buf(e), c.i, Len(Buf(e)))]
    BY <1>2, <1>7, DenseHits DEF DrainSeq
  <2>4. ReadOn(c.got, Buf(e), c.i, Len(Buf(e))) = Buf(e)
    BY <1>2, <1>4, <1>6, <2>2
  <2>5. entries'[e].done /\ entries'[e].buf = Buf(e)
    BY <1>2, <2>1, <2>2 DEF Buf
  <2> QED
    BY <1>1, <1>2, <2>1, <2>3, <2>4, <2>5, EndExact
<1>8. CASE DrainRec(r)
  <2> DEFINE b == IF entries[e].done THEN Buf(e) ELSE Grown(Buf(e), Source(e), Len(Source(e)))
  <2>1. /\ b \in Seq(Value) /\ Len(b) = Len(Source(e)) /\ IsPrefixOf(Buf(e), b)
        /\ ~entries[e].done => IsPrefixOf(b, Source(e))
        /\ entries[e].done => b = Buf(e)
    BY <1>2, <1>4, <1>5
  <2>2. /\ entries[e].done => UNCHANGED <<cache, pending, entries>>
        /\ ~entries[e].done => MayAdvance(r, e) /\ FinishRecording(e, b)
        /\ readers' = [readers EXCEPT ![r].st = "done", ![r].got = ReadOn(c.got, b, c.i, Len(b))]
    BY <1>8 DEF DrainRec
  <2> HIDE DEF b
  <2>3. /\ EntriesOK' /\ Grows /\ Undisturbed(r)
        /\ entries'[e].done /\ entries'[e].buf = b
    <3>1. CASE entries[e].done
      BY <3>1, <2>1, <2>2, StillUndisturbed DEF Buf
    <3>2. CASE ~entries[e].done
      BY <3>2, <1>2, <2>1, <2>2, FinishUndisturbed
    <3> QED
      BY <3>1, <3>2
  <2>4. ReadOn(c.got, b, c.i, Len(b)) = b
    BY <1>6, <2>1
  <2> QED
    BY <1>1, <2>1, <2>2, <2>3, <2>4, EndExact
<1>9. CASE OneSeq(r)
  <2>1. EntriesOK' /\ Grows /\ Undisturbed(r) /\ entries' = entries
    BY <1>9, StillUndisturbed DEF OneSeq, tables
  <2>2. c.kind = "seq" /\ entries'[e].done /\ entries'[e].buf = Buf(e)
    BY <1>2, <1>9, <2>1 DEF OneSeq, Buf
  <2>3. CASE /\ i = Len(Buf(e))
             /\ readers' = [readers EXCEPT ![r].st = "done", ![r].got = Append(c.got, Buf(e)[i])]
    <3>1. Append(c.got, Buf(e)[i]) = Buf(e)
      BY <1>2, <1>3, <1>4, <2>3, AppendLast
    <3> QED
      BY <1>1, <1>2, <2>1, <2>2, <2>3, <3>1, EndExact
  <2>4. CASE readers' = [readers EXCEPT ![r] = Idle]
    BY <1>1, <2>1, <2>4, LetGoExact
  <2> QED
    BY <1>2, <1>9, <2>3, <2>4, DenseHits DEF OneSeq
<1>10. CASE OneRec(r)
  <2> DEFINE total == IF entries[e].done THEN Len(Buf(e)) ELSE Len(Source(e))
             b == Grown(Buf(e), Source(e), i)
  <2>1. total = Len(Source(e)) /\ (entries[e].done \/ i < Len(Buf(e)) \/ MayAdvance(r, e))
    BY <1>2, <1>10 DEF OneRec
  <2>2. CASE /\ i > total
             /\ IF entries[e].done THEN UNCHANGED <<cache, pending, entries>> ELSE FinishRecording(e, Buf(e))
             /\ readers' = [readers EXCEPT ![r] = Idle]
    <3>1. Len(Buf(e)) = Len(Source(e))
      BY <1>2, <2>1, <2>2
    <3>2. EntriesOK' /\ Grows /\ Undisturbed(r)
      BY <1>2, <1>4, <2>2, <3>1, FinishUndisturbed, StillUndisturbed
    <3> QED
      BY <1>1, <2>2, <3>2, LetGoExact
  <2>3. CASE /\ i < total
             /\ IF i < Len(Buf(e)) THEN UNCHANGED <<cache, pending, entries>> ELSE AdvanceRecording(e, i + 1)
             /\ readers' = [readers EXCEPT ![r] = Idle]
    <3>1. CASE i < Len(Buf(e))
      BY <1>1, <2>3, <3>1, StillUndisturbed, LetGoExact
    <3>2. CASE ~(i < Len(Buf(e)))
      <4>1. ~entries[e].done /\ i + 1 \in Len(Buf(e))..Len(Source(e)) /\ MayAdvance(r, e)
        BY <1>2, <2>1, <2>3, <3>2
      <4>2. EntriesOK' /\ Grows /\ Undisturbed(r)
        BY <1>2, <2>3, <3>2, <4>1, AdvanceUndisturbed
      <4> QED
        BY <1>1, <2>3, <4>2, LetGoExact
    <3> QED
      BY <3>1, <3>2
  <2>4. CASE /\ i = total
             /\ IF entries[e].done THEN UNCHANGED <<cache, pending, entries>> ELSE FinishRecording(e, b)
             /\ readers' = [readers EXCEPT ![r].st = "done", ![r].got = Append(c.got, b[i])]
    <3>1. i \in Len(Buf(e))..Len(Source(e)) /\ i = Len(Source(e))
      BY <1>2, <2>1, <2>4
    <3>2. /\ b \in Seq(Value) /\ Len(b) = Len(Source(e)) /\ Len(b) = i
          /\ IsPrefixOf(b, Source(e)) /\ IsPrefixOf(Buf(e), b)
      BY <3>1, <1>5
    <3> HIDE DEF b
    <3>3. ~entries[e].done => MayAdvance(r, e)
      BY <1>2, <2>1, <3>1
    <3>4. entries[e].done => b = Buf(e)
      BY <1>2, <3>2, WholePrefix
    <3>5. EntriesOK' /\ Grows /\ Undisturbed(r) /\ entries'[e].done /\ entries'[e].buf = b
      <4>1. CASE entries[e].done
        BY <4>1, <2>4, <3>4, StillUndisturbed DEF Buf
      <4>2. CASE ~entries[e].done
        <5>1. FinishRecording(e, b)
          BY <4>2, <2>4
        <5>2. e \in 1..Len(entries) /\ (MayAdvance(r, e) \/ b = Buf(e))
          BY <4>2, <1>2, <3>3
        <5> QED
          BY ONLY IInv, r \in Reader, <4>2, <5>1, <5>2, <3>2, FinishUndisturbed, ZenonT(60)
      <4> QED
        BY <4>1, <4>2
    <3>6. Append(c.got, b[i]) = b
      BY <1>2, <1>3, <3>2, AppendLast
    <3> QED
      BY <1>1, <2>4, <3>2, <3>5, <3>6, EndExact
  <2> QED
    BY <2>2, <2>3, <2>4, <1>10 DEF OneRec
<1> QED
  BY <1>7, <1>8, <1>9, <1>10 DEF Take

-----------------------------------------------------------------------------
(* each and fold *)

(* r's loop over its recording runs on, from a position that is good. *)
LEMMA LoopExact ==
  ASSUME IInv, ExactInv, NEW r \in Reader, readers[r].st = "open",
         NEW hi \in 0..Len(Buf(readers[r].src)),
         NEW below \in Seq(Reader),
         \A j \in 1..Len(below) : below[j] # r,
         \A q \in Reader \ {r} : InLoop(q, below) <=> InLoop(q, stack),
         ~Reentrant =>
           /\ IsPrefixOf(readers[r].got, Buf(readers[r].src))
           /\ readers[r].i < hi => /\ Len(readers[r].got) = readers[r].i
                                   /\ hi = Len(Buf(readers[r].src))
           /\ readers[r].i >= hi => Len(readers[r].got) = Len(Buf(readers[r].src)),
         LoopOn(r, hi, below)
  PROVE  ExactInv'
<1> DEFINE c == readers[r]
           e == c.src
           i == c.i
           n == Len(Buf(e)) + 1
           exhausted == entries[e].done \/ Len(Buf(e)) = Len(Source(e))
           Callback(v, ii) ==
             /\ readers' = [readers EXCEPT ![r].how = "each", ![r].i = ii, ![r].hi = hi,
                                           ![r].got = Append(c.got, v)]
             /\ stack' = Append(below, r)
           Leave ==
             /\ readers' = [readers EXCEPT ![r].st = "done", ![r].how = "each", ![r].hi = hi]
             /\ stack' = below
<1>1. /\ c \in ReaderType /\ c.i \in Nat /\ e \in 1..Len(entries) /\ c.got \in Seq(Value)
      /\ c.i <= Len(Buf(e)) /\ Len(Buf(e)) <= Len(Source(e))
      /\ Len(Buf(e)) \in Nat /\ Len(Source(e)) \in Nat
      /\ Buf(e) \in Seq(Value) /\ Source(e) \in Seq(Value)
      /\ \A j \in 1..Len(Buf(e)) : Buf(e)[j] \in Value
      /\ \A j \in 1..Len(Source(e)) : Source(e)[j] \in Value
      /\ IsPrefixOf(Buf(e), Source(e))
      /\ entries[e].done \in BOOLEAN
      /\ entries[e].done => Len(Buf(e)) = Len(Source(e))
      /\ c.kind = "seq" => entries[e].done
  BY HeldFacts
<1>2. IsPrefixOf(Buf(e), Buf(e)) /\ Len(c.got) \in Nat /\ c.kind \in {"seq", "rec"}
  BY <1>1, LenProperties DEF IsPrefixOf, ReaderType
<1>3. Len(below) \in Nat
  BY LenProperties
<1>4. ASSUME Grows, EntriesOK', Undisturbed(r), NEW b \in Seq(Value), entries'[e].buf = b,
             NEW v \in Value, NEW ii \in Nat, Callback(v, ii),
             ~Reentrant =>
               /\ IsPrefixOf(c.got, b) /\ Len(c.got) + 1 <= Len(b) /\ b[Len(c.got) + 1] = v
               /\ ii < hi => Len(c.got) + 1 = ii /\ hi = Len(b)
               /\ ii >= hi => Len(c.got) + 1 = Len(b)
      PROVE  ExactInv'
  <2> DEFINE d == [c EXCEPT !.how = "each", !.i = ii, !.hi = hi, !.got = Append(c.got, v)]
  <2>1. readers' = [readers EXCEPT ![r] = d]
    BY <1>1, <1>4 DEF ReaderType
  <2>2. /\ d.st = "open" /\ d.how = "each" /\ d.i = ii /\ d.hi = hi /\ d.src = e
        /\ d.got = Append(c.got, v)
    BY <1>1 DEF ReaderType
  <2> HIDE DEF d
  <2>3. /\ Len(stack') = Len(below) + 1
        /\ \A j \in 1..Len(below) : stack'[j] = below[j]
        /\ stack'[Len(below) + 1] = r
    BY <1>4, AppendProperties
  <2>4. InLoop(r, stack')
    <3>1. Len(below) + 1 \in 1..Len(stack')
      BY <1>3, <2>3
    <3> QED
      BY <2>3, <3>1 DEF InLoop
  <2>5. \A q \in Reader \ {r} : InLoop(q, stack') <=> InLoop(q, below)
    <3>1. ASSUME NEW q \in Reader \ {r}, NEW j \in 1..Len(stack'), stack'[j] = q
          PROVE  j \in 1..Len(below) /\ below[j] = q
      <4>1. j # Len(below) + 1
        BY <2>3, <3>1
      <4>2. j \in 1..Len(below)
        BY <1>3, <2>3, <4>1
      <4> QED
        BY <2>3, <3>1, <4>2
    <3>2. \A j \in 1..Len(below) : j \in 1..Len(stack')
      BY <1>3, <2>3
    <3> QED
      BY <2>3, <3>1, <3>2 DEF InLoop
  <2>6. ASSUME Watched(d)
        PROVE  IsPrefixOf(d.got, b) /\ Len(d.got) = Len(c.got) + 1
    <3>1. ~Reentrant
      BY <2>2, <2>6 DEF Watched
    <3>2. IsPrefixOf(c.got, b) /\ Len(c.got) + 1 <= Len(b) /\ b[Len(c.got) + 1] = v
      BY <1>4, <3>1
    <3>3. c.got \in Seq(Value) /\ b \in Seq(Value) /\ v \in Value
      BY <1>1, <1>4
    <3>4. IsPrefixOf(Append(c.got, v), b) /\ Len(Append(c.got, v)) = Len(c.got) + 1
      BY ONLY <3>2, <3>3, AppendNext
    <3> QED
      BY ONLY <2>2, <3>4
  <2>7. Exact(d, entries', InLoop(r, stack'))
    BY <1>4, <2>2, <2>4, <2>6 DEF Exact, Watched
  <2> QED
    BY <1>4, <2>1, <2>5, <2>7, ExactReplaced
<1>5. ASSUME Grows, EntriesOK', Undisturbed(r), entries'[e].done, entries'[e].buf = Buf(e), Leave,
             i >= hi
      PROVE  ExactInv'
  <2> DEFINE d == [c EXCEPT !.st = "done", !.how = "each", !.hi = hi]
  <2>1. readers' = [readers EXCEPT ![r] = d]
    BY <1>1, <1>5 DEF ReaderType
  <2>2. /\ d.st = "done" /\ d.how = "each" /\ d.src = e /\ d.got = c.got
    BY <1>1 DEF ReaderType
  <2> HIDE DEF d
  <2>3. ~InLoop(r, stack') /\ \A q \in Reader \ {r} : InLoop(q, stack') <=> InLoop(q, stack)
    BY <1>5 DEF InLoop
  <2>4. Exact(d, entries', InLoop(r, stack'))
    BY <1>5, <2>2, <2>3 DEF Exact, Watched
  <2> QED
    BY <1>5, <2>1, <2>3, <2>4, ExactReplaced
<1>6. \/ /\ i < hi
         /\ Callback(Buf(e)[i + 1], i + 1)
         /\ UNCHANGED <<cache, pending, entries>>
      \/ /\ i >= hi /\ c.kind = "rec" /\ ~exhausted
         /\ MayAdvance(r, e)
         /\ AdvanceRecording(e, n)
         /\ Callback(Source(e)[n], i)
      \/ /\ i >= hi /\ (c.kind = "rec" => exhausted)
         /\ IF c.kind = "rec" /\ ~entries[e].done
              THEN FinishRecording(e, Buf(e))
              ELSE UNCHANGED <<cache, pending, entries>>
         /\ Leave
  BY DEF LoopOn
<1> HIDE DEF Callback, Leave
<1>7. CASE i < hi /\ Callback(Buf(e)[i + 1], i + 1) /\ UNCHANGED <<cache, pending, entries>>
  <2>1. EntriesOK' /\ Grows /\ Undisturbed(r) /\ entries'[e].buf = Buf(e)
    BY <1>7, StillUndisturbed DEF Buf
  <2>2. i + 1 \in 1..Len(Buf(e)) /\ i + 1 \in Nat /\ Buf(e)[i + 1] \in Value
    BY <1>1, <1>7
  <2>3. ~Reentrant =>
          /\ IsPrefixOf(c.got, Buf(e)) /\ Len(c.got) + 1 <= Len(Buf(e))
          /\ Buf(e)[Len(c.got) + 1] = Buf(e)[i + 1]
          /\ i + 1 < hi => Len(c.got) + 1 = i + 1 /\ hi = Len(Buf(e))
          /\ i + 1 >= hi => Len(c.got) + 1 = Len(Buf(e))
    <3> SUFFICES ASSUME ~Reentrant
                 PROVE  /\ IsPrefixOf(c.got, Buf(e)) /\ Len(c.got) = i /\ hi = Len(Buf(e))
      BY <1>1, <1>7
    <3> QED
      BY <1>7
  <2> QED
    BY <1>1, <1>4, <1>7, <2>1, <2>2, <2>3
<1>8. CASE /\ i >= hi /\ ~exhausted
           /\ MayAdvance(r, e) /\ AdvanceRecording(e, n) /\ Callback(Source(e)[n], i)
  <2> DEFINE b == Grown(Buf(e), Source(e), n)
  <2>1. ~entries[e].done /\ n \in Len(Buf(e))..Len(Source(e)) /\ n \in 1..Len(Source(e))
    BY <1>1, <1>8
  <2>2. EntriesOK' /\ Grows /\ Undisturbed(r) /\ entries'[e].buf = b
    BY <1>1, <1>8, <2>1, AdvanceUndisturbed
  <2>3. /\ b \in Seq(Value) /\ Len(b) = n /\ IsPrefixOf(Buf(e), b) /\ n \in 1..n
        /\ b[n] = Source(e)[n] /\ Source(e)[n] \in Value
    BY <1>1, <2>1, GrownProperties
  <2> HIDE DEF b
  <2>4. ~Reentrant =>
          /\ IsPrefixOf(c.got, b) /\ Len(c.got) + 1 <= Len(b) /\ b[Len(c.got) + 1] = Source(e)[n]
          /\ i < hi => Len(c.got) + 1 = i /\ hi = Len(b)
          /\ i >= hi => Len(c.got) + 1 = Len(b)
    <3> SUFFICES ASSUME ~Reentrant
                 PROVE  IsPrefixOf(c.got, b) /\ Len(c.got) + 1 = n
      BY <1>1, <1>8, <2>3
    <3>1. Len(c.got) = Len(Buf(e)) /\ IsPrefixOf(c.got, Buf(e))
      BY <1>8
    <3> QED
      BY <3>1, <1>1, <2>3 DEF IsPrefixOf
  <2> QED
    BY <1>1, <1>4, <1>8, <2>2, <2>3, <2>4
<1>9. CASE /\ i >= hi
           /\ c.kind = "rec" => exhausted
           /\ IF c.kind = "rec" /\ ~entries[e].done
                THEN FinishRecording(e, Buf(e))
                ELSE UNCHANGED <<cache, pending, entries>>
           /\ Leave
  <2>1. EntriesOK' /\ Grows /\ Undisturbed(r) /\ entries'[e].done /\ entries'[e].buf = Buf(e)
    <3>1. CASE entries[e].done
      BY <3>1, <1>9, StillUndisturbed DEF Buf
    <3>2. CASE ~entries[e].done
      <4>1. FinishRecording(e, Buf(e)) /\ Len(Buf(e)) = Len(Source(e))
        BY <3>2, <1>1, <1>2, <1>9
      <4> QED
        BY <3>2, <4>1, <1>1, <1>2, FinishUndisturbed
    <3> QED
      BY <3>1, <3>2
  <2> QED
    BY <1>5, <1>9, <2>1
<1> QED
  BY <1>6, <1>7, <1>8, <1>9

(* each and fold, cut at their callbacks. *)
LEMMA EachExact ==
  ASSUME Dense, IInv, ExactInv, (\E r \in Reader : EachStart(r)) \/ EachReturn
  PROVE  ExactInv'
<1>1. /\ stack \in Seq(Reader) /\ Len(stack) \in Nat /\ Held
      /\ \A j \in 1..Len(stack) : stack[j] \in Reader
  BY LenProperties, ElementOfSeq DEF IInv, ConsumersOK
<1>2. ASSUME NEW r \in Reader, EachStart(r)
      PROVE  ExactInv'
  <2>1. /\ Free(r) /\ readers[r].st = "open" /\ readers[r].st # "idle"
        /\ \A j \in 1..Len(stack) : stack[j] # r
    BY <1>2 DEF EachStart, Free, Looping
  <2>2. /\ Buf(readers[r].src) \in Seq(Value) /\ Len(Buf(readers[r].src)) \in Nat
        /\ readers[r].src \in 1..Len(entries) /\ readers[r].i <= Len(Buf(readers[r].src))
    BY <2>1, HeldFacts
  <2>3. LoopOn(r, Len(Buf(readers[r].src)), stack)
    BY <1>2, <2>2, DenseHits DEF EachStart
  <2>4. /\ IsPrefixOf(readers[r].got, Buf(readers[r].src))
        /\ readers[r].i \in Nat /\ Len(readers[r].got) = readers[r].i
    BY <2>1, FreeFacts
  <2>5. /\ Len(Buf(readers[r].src)) \in 0..Len(Buf(readers[r].src))
        /\ readers[r].i >= Len(Buf(readers[r].src)) =>
             Len(readers[r].got) = Len(Buf(readers[r].src))
    BY <2>2, <2>4
  <2> QED
    BY <1>1, <2>1, <2>3, <2>4, <2>5, LoopExact
<1>3. CASE EachReturn
  <2> DEFINE l == Len(stack)
             r == stack[l]
             below == SubSeq(stack, 1, l - 1)
  <2>1. l \in 1..Len(stack) /\ LoopOn(r, readers[r].hi, below)
    BY <1>1, <1>3, EmptySeq DEF EachReturn
  <2>2. r \in Reader /\ readers[r].st = "open" /\ readers[r].st # "idle" /\ InLoop(r, stack)
    BY <1>1, <2>1 DEF Held, InLoop
  <2>3. readers[r].hi \in 0..Len(Buf(readers[r].src))
    BY <2>2, HeldFacts
  <2>4. below \in Seq(Reader) /\ Len(below) = l - 1 /\ \A j \in 1..l - 1 : below[j] = stack[j]
    <3>1. l - 1 \in 0..Len(stack)
      BY <2>1, <1>1
    <3> QED
      BY <3>1, <1>1, InitialSegment
  <2>5. /\ \A j \in 1..l - 1 : j \in 1..Len(stack) /\ j # l
        /\ \A j \in 1..Len(stack) : j \in 1..l - 1 \/ j = l
    BY <1>1
  <2>6. /\ \A j \in 1..Len(below) : below[j] # r
        /\ \A q \in Reader \ {r} : InLoop(q, below) <=> InLoop(q, stack)
    BY <1>1, <2>1, <2>4, <2>5 DEF Held, InLoop
  <2>7. Exact(readers[r], entries, InLoop(r, stack))
    BY <2>2 DEF ExactInv
  <2> HIDE DEF below, r, l
  <2>8. ~Reentrant =>
          /\ IsPrefixOf(readers[r].got, Buf(readers[r].src))
          /\ readers[r].i < readers[r].hi => /\ Len(readers[r].got) = readers[r].i
                                             /\ readers[r].hi = Len(Buf(readers[r].src))
          /\ readers[r].i >= readers[r].hi => Len(readers[r].got) = Len(Buf(readers[r].src))
    BY <2>2, <2>7 DEF Exact, Watched, Buf
  <2> QED
    BY <2>1, <2>2, <2>3, <2>4, <2>6, <2>8, LoopExact
<1> QED
  BY <1>2, <1>3

-----------------------------------------------------------------------------
(* Errors and abandonment *)

(* An error takes whole loops away; the others stay as they are. *)
LEMMA UnwindExact ==
  ASSUME IInv, ExactInv, NEW d \in Int, d >= 0, Unwind(d)
  PROVE  ExactInv'
<1>1. /\ readers \in [Reader -> ReaderType] /\ stack \in Seq(Reader)
      /\ Len(stack) \in Nat /\ \A q \in Reader : Holding(readers[q], entries)
  BY LenProperties DEF IInv, ConsumersOK, Held
<1>2. /\ d \in 0..Len(stack)
      /\ stack' = SubSeq(stack, 1, d)
      /\ readers' = [r \in Reader |->
           IF \E j \in d + 1..Len(stack) : stack[j] = r THEN Idle ELSE readers[r]]
      /\ entries' = entries
  BY <1>1 DEF Unwind
<1>3. Len(stack') = d /\ \A j \in 1..d : stack'[j] = stack[j]
  BY <1>1, <1>2, InitialSegment
<1>4. ASSUME NEW q \in Reader
      PROVE  Exact(readers'[q], entries', InLoop(q, stack'))
  <2>1. CASE \E j \in d + 1..Len(stack) : stack[j] = q
    <3>1. readers'[q] = Idle
      BY <2>1, <1>2
    <3> QED
      BY <3>1 DEF Exact, Idle
  <2>2. CASE ~\E j \in d + 1..Len(stack) : stack[j] = q
    <3>1. readers'[q] = readers[q]
      BY <2>2, <1>2
    <3>2. \A j \in 1..Len(stack) : j \in 1..d \/ j \in d + 1..Len(stack)
      BY <1>1, <1>2
    <3>3. \A j \in 1..d : j \in 1..Len(stack)
      BY <1>1, <1>2
    <3>4. InLoop(q, stack') <=> InLoop(q, stack)
      BY <2>2, <1>3, <3>2, <3>3 DEF InLoop
    <3>5. Exact(readers[q], entries, InLoop(q, stack))
      BY DEF ExactInv
    <3> QED
      BY <1>2, <3>1, <3>4, <3>5 DEF Exact
  <2> QED
    BY <2>1, <2>2
<1> QED
  BY <1>4 DEF ExactInv

(* A source that raises under a consumer, and a consumer that lets go. *)
LEMMA LooseEndExact ==
  ASSUME IInv, ExactInv, NEW r \in Reader, SourceRaises(r) \/ Drop(r)
  PROVE  ExactInv'
<1>1. ~Looping(r) /\ stack' = stack /\ readers' = [readers EXCEPT ![r] = Idle]
  BY DEF SourceRaises, Drop, Free
<1>2. EntriesOK' /\ Grows /\ Undisturbed(r)
  <2>1. CASE Drop(r)
    BY <2>1, StillUndisturbed DEF Drop, tables
  <2>2. CASE SourceRaises(r)
    <3>1. /\ readers[r].st # "idle" /\ ~entries[readers[r].src].done
          /\ MayAdvance(r, readers[r].src)
          /\ \E k \in Len(Buf(readers[r].src))..Len(Source(readers[r].src)) :
               AdvanceRecording(readers[r].src, k)
      BY <2>2 DEF SourceRaises, Free
    <3> QED
      BY <3>1, HeldFacts, AdvanceUndisturbed
  <2> QED
    BY <2>1, <2>2
<1> QED
  BY <1>1, <1>2, LetGoExact

-----------------------------------------------------------------------------
(* The theorems *)

(* Nothing has been handed out at first. *)
LEMMA InitExact == Init => ExactInv
BY DEF Init, ExactInv, Exact, Idle

(* Every step keeps what consumers have exact. *)
LEMMA NextExact ==
  ASSUME Dense, IInv, ExactInv, [Next]_vars
  PROVE  ExactInv'
<1>1. ASSUME NEW r \in Reader, NEW n \in Node, Call(r, n)
      PROVE  ExactInv'
  BY <1>1, CallExact
<1>2. CASE UNCHANGED <<entries, readers, stack>>
  BY <1>2 DEF ExactInv, Exact
<1>3. ASSUME NEW n \in Node, CallRaises(n)
      PROVE  ExactInv'
  BY <1>2, <1>3 DEF CallRaises, tables
<1>4. ASSUME NEW r \in Reader, Pull(r) \/ Take(r)
      PROVE  ExactInv'
  BY <1>4, PullExact, TakeExact
<1>5. CASE (\E r \in Reader : EachStart(r)) \/ EachReturn
  BY <1>5, EachExact
<1>6. ASSUME NEW r \in Reader, SourceRaises(r) \/ Drop(r)
      PROVE  ExactInv'
  BY <1>6, LooseEndExact
<1>7. ASSUME NEW d \in 0..Cardinality(Reader), Unwind(d)
      PROVE  ExactInv'
  BY <1>7, UnwindExact
<1>8. CASE Reset
  BY <1>2, <1>8 DEF Reset
<1>9. CASE UNCHANGED vars
  BY <1>2, <1>9 DEF vars
<1> QED
  BY <1>1, <1>3, <1>4, <1>5, <1>6, <1>7, <1>8, <1>9 DEF Next

(* A consumer whose position nobody disturbs has got exactly what the      *)
(* handler produced, in order, so far, and at its end all of it.           *)
LEMMA ExactMeansExact ==
  ASSUME IInv, ExactInv, NEW r \in Reader, Watched(readers[r])
  PROVE  ExactFor(r)
<1> SUFFICES ASSUME readers[r].st # "idle"
             PROVE  ExactFor(r)
  BY DEF ExactFor
<1> DEFINE c == readers[r]
           e == c.src
<1>1. /\ c.got \in Seq(Value) /\ e \in 1..Len(entries)
      /\ Buf(e) \in Seq(Value) /\ Source(e) \in Seq(Value)
      /\ Len(Buf(e)) \in Nat /\ Len(Source(e)) \in Nat
      /\ IsPrefixOf(Buf(e), Source(e))
      /\ entries[e].done => Len(Buf(e)) = Len(Source(e))
  BY HeldFacts
<1>2. /\ IsPrefixOf(c.got, Buf(e))
      /\ c.st = "done" => entries[e].done /\ Len(c.got) = Len(Buf(e))
  BY DEF ExactInv, Exact, Buf
<1>3. Len(c.got) \in Nat
  BY <1>1, LenProperties
<1>4. IsPrefixOf(c.got, Source(e))
  BY <1>1, <1>2, <1>3 DEF IsPrefixOf
<1>5. c.st = "done" => c.got = Source(e)
  BY <1>1, <1>2, <1>4, WholePrefix
<1> QED
  BY <1>4, <1>5 DEF ExactFor

(* What every behaviour keeps true of the consumers. *)
LEMMA ExactAlways ==
  ASSUME Dense
  PROVE  Spec => []ExactInv
<1>1. IInv /\ ExactInv /\ [Next]_vars => ExactInv'
  BY NextExact
<1> QED
  BY InitExact, Inductive, <1>1, PTL DEF Spec

(* A consumer that pulls for itself, with for, drain, one or warm, gets    *)
(* every element in order and once, whatever others do to the recording    *)
(* and even if callbacks advance it in the middle of their own loops.      *)
THEOREM PullersGetAll ==
  ASSUME Dense
  PROVE  Spec => []PullersExact
<1>1. IInv /\ ExactInv => PullersExact
  BY ExactMeansExact DEF PullersExact, Watched
<1> QED
  BY <1>1, Inductive, ExactAlways, PTL

(* If callbacks leave the recording alone that they are called from, so    *)
(* does every consumer, each and fold included.                            *)
THEOREM ReadersGetAll ==
  ASSUME Dense, ~Reentrant
  PROVE  Spec => []ReadersExact
<1>1. IInv /\ ExactInv => ReadersExact
  BY ExactMeansExact DEF ReadersExact, Watched
<1> QED
  BY <1>1, Inductive, ExactAlways, PTL

-----------------------------------------------------------------------------
(* Reaching the end *)

(* The recording of a consumer that reached the end is finished. *)
EndsFinished == \A r \in Reader : readers[r].st = "done" => entries[readers[r].src].done

(* A step of r, if it brings r to the end, finds or leaves r's recording   *)
(* finished.                                                               *)
LEMMA OwnStep ==
  ASSUME IInv, EndsFinished, Grows, NEW r \in Reader,
         \A q \in Reader : q # r => readers'[q] = readers[q],
         readers'[r].st = "done" => entries'[readers'[r].src].done
  PROVE  EndsFinished'
<1>1. ASSUME NEW q \in Reader, q # r, readers'[q].st = "done"
      PROVE  entries'[readers'[q].src].done
  <2>1. readers'[q] = readers[q] /\ readers[q].st = "done" /\ readers[q].st # "idle"
    BY <1>1
  <2>2. entries[readers[q].src].done /\ readers[q].src \in 1..Len(entries)
    BY <2>1, HeldFacts DEF EndsFinished
  <2> QED
    BY <2>1, <2>2 DEF Grows
<1> QED
  BY <1>1 DEF EndsFinished

(* A consumer that is not brought to the end. *)
LEMMA NoEnd ==
  ASSUME IInv, EndsFinished, Grows, NEW r \in Reader, NEW c,
         readers' = [readers EXCEPT ![r] = c], c.st # "done"
  PROVE  EndsFinished'
<1>1. readers'[r] = c /\ \A q \in Reader : q # r => readers'[q] = readers[q]
  BY DEF IInv, ConsumersOK
<1> QED
  BY <1>1, OwnStep

(* A consumer that is: of a hit, or at the end of its recording's source.  *)
LEMMA AtEnd ==
  ASSUME IInv, EndsFinished, Grows, NEW r \in Reader, NEW c, readers[r].st # "idle",
         readers' = [readers EXCEPT ![r] = c], c.src = readers[r].src,
         \/ entries' = entries /\ (readers[r].kind = "seq" \/ entries[readers[r].src].done)
         \/ \E b : FinishRecording(readers[r].src, b)
  PROVE  EndsFinished'
<1>1. readers'[r] = c /\ \A q \in Reader : q # r => readers'[q] = readers[q]
  BY DEF IInv, ConsumersOK
<1>2. /\ readers[r].src \in 1..Len(entries) /\ entries \in Seq(EntryType)
      /\ readers[r].kind = "seq" => entries[readers[r].src].done
  <2>1. Holding(readers[r], entries) /\ entries \in Seq(EntryType)
    BY DEF IInv, EntriesOK, ConsumersOK, Held
  <2> QED
    BY <2>1 DEF Holding
<1>3. entries'[readers[r].src].done
  <2>1. CASE entries' = entries /\ (readers[r].kind = "seq" \/ entries[readers[r].src].done)
    BY <1>2, <2>1
  <2>2. ASSUME NEW b, FinishRecording(readers[r].src, b)
        PROVE  entries'[readers[r].src].done
    <3>1. entries' = [entries EXCEPT ![readers[r].src].buf = b, ![readers[r].src].done = TRUE]
      BY <2>2 DEF FinishRecording
    <3>2. entries[readers[r].src] \in EntryType
      BY <1>2, ElementOfSeq
    <3> QED
      BY <1>2, <3>1, <3>2 DEF EntryType
  <2> QED
    BY <1>2, <2>1, <2>2
<1> QED
  BY <1>1, <1>3, OwnStep

(* The changes that the loops make of their consumer. *)
LEMMA Changes ==
  ASSUME IInv, NEW r \in Reader, NEW c, c = readers[r], NEW v, NEW k, NEW hi, NEW got
  PROVE  /\ c \in ReaderType
         /\ [c EXCEPT !.i = k, !.got = got].st = c.st
         /\ [c EXCEPT !.how = v, !.i = k, !.hi = hi, !.got = got].st = c.st
         /\ [c EXCEPT !.st = "done"].src = c.src
         /\ [c EXCEPT !.st = "done", !.got = got].src = c.src
         /\ [c EXCEPT !.st = "done", !.how = v, !.hi = hi].src = c.src
<1>1. c \in ReaderType
  BY DEF IInv, ConsumersOK
<1> QED
  BY <1>1 DEF ReaderType

LEMMA CallEnds ==
  ASSUME IInv, EndsFinished, NEW r \in Reader, NEW n \in Node, Call(r, n)
  PROVE  EndsFinished'
<1>1. Grows
  BY CallInvariance DEF Invariance
<1>2. ASSUME NEW k, NEW e, Hold(r, k, e)
      PROVE  EndsFinished'
  <2>1. PICK c : c = [st |-> "open", kind |-> k, how |-> "pull", src |-> e, i |-> 0, hi |-> 0, got |-> <<>>]
    OBVIOUS
  <2>2. readers' = [readers EXCEPT ![r] = c] /\ c.st # "done"
    BY <1>2, <2>1 DEF Hold
  <2> QED
    BY <1>1, <2>2, NoEnd
<1> QED
  BY <1>2 DEF Call, CallHit, CallShared, CallMiss

LEMMA PullEnds ==
  ASSUME IInv, EndsFinished, NEW r \in Reader, Pull(r)
  PROVE  EndsFinished'
<1>1. Grows
  BY PullInvariance DEF Invariance
<1>2. /\ readers[r].st = "open"
      /\ \/ \E v : Deliver(r, v)
         \/ /\ Finish(r)
            /\ \/ entries' = entries /\ (readers[r].kind = "seq" \/ entries[readers[r].src].done)
               \/ \E b : FinishRecording(readers[r].src, b)
  <2>1. CASE PullSeq(r)
    BY <2>1 DEF PullSeq, Free
  <2>2. CASE PullRecorded(r) \/ PullSource(r)
    BY <2>2 DEF PullRecorded, PullSource, Free
  <2>3. CASE PullEnd(r)
    BY <2>3 DEF PullEnd, Free
  <2> QED
    BY <2>1, <2>2, <2>3 DEF Pull
<1>3. ASSUME NEW v, Deliver(r, v)
      PROVE  EndsFinished'
  <2>1. PICK c, k, got : /\ c = [readers[r] EXCEPT !.i = k, !.got = got]
                         /\ k = readers[r].i + 1 /\ got = Append(readers[r].got, v)
    BY Zenon
  <2>2. readers' = [readers EXCEPT ![r] = c]
    BY <1>3, <2>1 DEF Deliver
  <2>3. c.st # "done"
    BY <1>2, <2>1, Changes
  <2> QED
    BY <1>1, <2>2, <2>3, NoEnd
<1>4. CASE /\ Finish(r)
           /\ \/ entries' = entries /\ (readers[r].kind = "seq" \/ entries[readers[r].src].done)
              \/ \E b : FinishRecording(readers[r].src, b)
  <2>1. PICK c : c = [readers[r] EXCEPT !.st = "done"]
    OBVIOUS
  <2>2. readers' = [readers EXCEPT ![r] = c]
    BY <1>4, <2>1 DEF Finish
  <2>3. c.src = readers[r].src
    BY <2>1, Changes
  <2> QED
    BY <1>1, <1>2, <1>4, <2>2, <2>3, AtEnd
<1> QED
  BY <1>2, <1>3, <1>4

LEMMA TakeEnds ==
  ASSUME IInv, EndsFinished, NEW r \in Reader, Take(r)
  PROVE  EndsFinished'
<1>1. Grows
  BY TakeInvariance DEF Invariance
<1>2. readers[r].st = "open"
  BY DEF Take, DrainSeq, DrainRec, OneSeq, OneRec, Free
<1>3. \/ readers' = [readers EXCEPT ![r] = Idle]
      \/ /\ \E got : readers' = [readers EXCEPT ![r].st = "done", ![r].got = got]
         /\ \/ entries' = entries /\ (readers[r].kind = "seq" \/ entries[readers[r].src].done)
            \/ \E b : FinishRecording(readers[r].src, b)
  <2>1. CASE DrainSeq(r) \/ OneSeq(r)
    BY <2>1 DEF DrainSeq, OneSeq
  <2>2. CASE DrainRec(r)
    BY <2>2 DEF DrainRec
  <2>3. CASE OneRec(r)
    BY <2>3 DEF OneRec
  <2> QED
    BY <2>1, <2>2, <2>3 DEF Take
<1>4. CASE readers' = [readers EXCEPT ![r] = Idle]
  <2>1. PICK c : c = Idle
    OBVIOUS
  <2>2. c.st # "done"
    BY <2>1 DEF Idle
  <2> QED
    BY <1>1, <1>4, <2>1, <2>2, NoEnd
<1>5. ASSUME NEW got, readers' = [readers EXCEPT ![r].st = "done", ![r].got = got],
             \/ entries' = entries /\ (readers[r].kind = "seq" \/ entries[readers[r].src].done)
             \/ \E b : FinishRecording(readers[r].src, b)
      PROVE  EndsFinished'
  <2>1. PICK c : c = [readers[r] EXCEPT !.st = "done", !.got = got]
    OBVIOUS
  <2>2. readers' = [readers EXCEPT ![r] = c]
    BY <1>5, <2>1
  <2>3. c.src = readers[r].src
    BY <2>1, Changes
  <2> QED
    BY <1>1, <1>2, <1>5, <2>2, <2>3, AtEnd
<1> QED
  BY <1>3, <1>4, <1>5

LEMMA LoopEnds ==
  ASSUME IInv, EndsFinished, Grows, NEW r \in Reader, readers[r].st = "open",
         NEW hi, NEW below, LoopOn(r, hi, below)
  PROVE  EndsFinished'
<1>1. \/ \E v, k : readers' = [readers EXCEPT ![r].how = "each", ![r].i = k, ![r].hi = hi,
                                              ![r].got = Append(readers[r].got, v)]
      \/ /\ readers' = [readers EXCEPT ![r].st = "done", ![r].how = "each", ![r].hi = hi]
         /\ \/ entries' = entries /\ (readers[r].kind # "rec" \/ entries[readers[r].src].done)
            \/ \E b : FinishRecording(readers[r].src, b)
  BY DEF LoopOn
<1>2. ASSUME NEW v, NEW k, readers' = [readers EXCEPT ![r].how = "each", ![r].i = k, ![r].hi = hi,
                                                      ![r].got = Append(readers[r].got, v)]
      PROVE  EndsFinished'
  <2>1. PICK c, got : c = [readers[r] EXCEPT !.how = "each", !.i = k, !.hi = hi, !.got = got]
                      /\ got = Append(readers[r].got, v)
    BY Zenon
  <2>2. readers' = [readers EXCEPT ![r] = c]
    BY <1>2, <2>1
  <2>3. c.st # "done"
    BY <2>1, Changes
  <2> QED
    BY <2>2, <2>3, NoEnd
<1>3. CASE /\ readers' = [readers EXCEPT ![r].st = "done", ![r].how = "each", ![r].hi = hi]
           /\ \/ entries' = entries /\ (readers[r].kind # "rec" \/ entries[readers[r].src].done)
              \/ \E b : FinishRecording(readers[r].src, b)
  <2>1. PICK c : c = [readers[r] EXCEPT !.st = "done", !.how = "each", !.hi = hi]
    OBVIOUS
  <2>2. readers' = [readers EXCEPT ![r] = c]
    BY <1>3, <2>1
  <2>3. c.src = readers[r].src
    BY <2>1, Changes
  <2>4. readers[r].kind # "rec" => readers[r].kind = "seq"
    BY Changes DEF ReaderType
  <2> QED
    BY <1>3, <2>2, <2>3, <2>4, AtEnd
<1> QED
  BY <1>1, <1>2, <1>3

LEMMA EachEnds ==
  ASSUME IInv, EndsFinished, (\E r \in Reader : EachStart(r)) \/ EachReturn
  PROVE  EndsFinished'
<1>1. Grows
  BY EachInvariance DEF Invariance
<1>2. ASSUME NEW r \in Reader, EachStart(r)
      PROVE  EndsFinished'
  <2>1. readers[r].st = "open" /\ \E hi : LoopOn(r, hi, stack)
    BY <1>2 DEF EachStart, Free
  <2> QED
    BY <1>1, <2>1, LoopEnds
<1>3. CASE EachReturn
  <2>1. PICK r : r = stack[Len(stack)]
    OBVIOUS
  <2>2. stack \in Seq(Reader) /\ stack # <<>> /\ Len(stack) \in 1..Len(stack)
    BY <1>3, LenProperties, EmptySeq DEF EachReturn, IInv, ConsumersOK
  <2>3. r \in Reader /\ readers[r].st = "open"
    BY <2>1, <2>2, ElementOfSeq DEF IInv, ConsumersOK, Held
  <2>4. LoopOn(r, readers[r].hi, SubSeq(stack, 1, Len(stack) - 1))
    BY <1>3, <2>1 DEF EachReturn
  <2> QED
    BY <1>1, <2>3, <2>4, LoopEnds
<1> QED
  BY <1>2, <1>3

LEMMA NextEnds ==
  ASSUME IInv, EndsFinished, [Next]_vars
  PROVE  EndsFinished'
<1>1. Grows
  BY NextInvariance DEF Invariance
<1>2. ASSUME NEW r \in Reader, NEW n \in Node, Call(r, n)
      PROVE  EndsFinished'
  BY <1>2, CallEnds
<1>3. CASE UNCHANGED <<readers, entries>>
  BY <1>3 DEF EndsFinished
<1>4. ASSUME NEW r \in Reader, Pull(r) \/ Take(r)
      PROVE  EndsFinished'
  BY <1>4, PullEnds, TakeEnds
<1>5. CASE (\E r \in Reader : EachStart(r)) \/ EachReturn
  BY <1>5, EachEnds
<1>6. ASSUME NEW r \in Reader, SourceRaises(r) \/ Drop(r)
      PROVE  EndsFinished'
  <2>1. PICK c : c = Idle
    OBVIOUS
  <2>2. readers' = [readers EXCEPT ![r] = c] /\ c.st # "done"
    BY <1>6, <2>1 DEF SourceRaises, Drop, Idle
  <2> QED
    BY <1>1, <2>2, NoEnd
<1>7. ASSUME NEW d \in 0..Cardinality(Reader), Unwind(d)
      PROVE  EndsFinished'
  <2>1. entries' = entries
    BY <1>7 DEF Unwind
  <2>2. \A q \in Reader : readers'[q] = Idle \/ readers'[q] = readers[q]
    BY <1>7 DEF Unwind
  <2> QED
    BY <2>1, <2>2 DEF EndsFinished, Idle
<1>8. CASE (\E n \in Node : CallRaises(n)) \/ Reset \/ UNCHANGED vars
  BY <1>3, <1>8 DEF CallRaises, Reset, vars
<1> QED
  BY <1>2, <1>4, <1>5, <1>6, <1>7, <1>8 DEF Next

(* Whoever reached the end has left the node's output in its generation's  *)
(* cache, whatever the length a hit was measured at.                       *)
THEOREM TheFinishedAreCached == Spec => []FinishedIsCached
<1>1. Init => EndsFinished
  BY DEF Init, EndsFinished, Idle
<1>2. IInv /\ EndsFinished => FinishedIsCached
  <2>1. ASSUME IInv, EndsFinished, NEW r \in Reader, readers[r].st = "done"
        PROVE  LET e == readers[r].src IN cache[entries[e].gen][entries[e].node] = e
    <3>1. readers[r].src \in 1..Len(entries) /\ entries[readers[r].src].done
      BY <2>1, HeldFacts DEF EndsFinished
    <3> QED
      BY <2>1, <3>1 DEF IInv, EntriesOK, Filed
  <2> QED
    BY <2>1 DEF FinishedIsCached
<1>3. IInv /\ EndsFinished /\ [Next]_vars => EndsFinished'
  BY NextEnds
<1> QED
  BY <1>1, <1>2, <1>3, Inductive, PTL DEF Spec
-----------------------------------------------------------------------------
(***************************************************************************)
(* PvmPhase implements PhaseContract: to its consumers, a phase is as if   *)
(* it neither cached, nor shared, nor recorded.  For phases without nil    *)
(* elements and callbacks that do not advance the recording they iterate   *)
(* (phase_each and phase_nil show that neither can be left out).           *)
(***************************************************************************)

(* What the contract sees of a consumer. *)
View(c, es) ==
  IF c.st = "idle" THEN [st |-> "idle"]
  ELSE [st |-> c.st, epoch |-> es[c.src].gen, node |-> es[c.src].node, got |-> c.got]

(* r alone moves: it lets go, opens a fresh triplet on a recording of the  *)
(* current generation, gets more, or comes to its end.                     *)
Moves(r) ==
  LET c == readers[r]
      d == readers'[r] IN
  /\ \A q \in Reader \ {r} : readers'[q] = readers[q]
  /\ \/ d.st = "idle"
     \/ c.st = "idle" /\ d.st = "open" /\ d.got = <<>> /\ entries'[d.src].gen = gen
     \/ c.st = "open" /\ d.st = "open" /\ d.src = c.src /\ Len(c.got) < Len(d.got)
     \/ c.st = "open" /\ d.st = "done" /\ d.src = c.src

-----------------------------------------------------------------------------
(* Steps of the phase are moves of one consumer *)

(* Whatever is appended makes a sequence longer. *)
LEMMA AppendLonger ==
  ASSUME NEW s \in Seq(Value), NEW v
  PROVE  Len(s) < Len(Append(s, v))
<1>1. \A i \in 1..Len(s) : s[i] \in Value \cup {v}
  BY ElementOfSeq
<1>2. Len(s) \in Nat /\ s \in [1..Len(s) -> Value \cup {v}]
  BY <1>1, LenProperties
<1>3. s \in Seq(Value \cup {v})
  BY <1>2, FunctionIsSequence, Zenon
<1>4. Len(Append(s, v)) = Len(s) + 1
  BY <1>3, AppendProperties
<1> QED
  BY <1>2, <1>4

(* A consumer's record after each kind of update. *)
LEMMA UpdatedReader ==
  ASSUME IInv, NEW r \in Reader
  PROVE  /\ readers \in [Reader -> ReaderType] /\ readers[r] \in ReaderType
         /\ readers[r].got \in Seq(Value)
BY DEF IInv, ConsumersOK, ReaderType

(* A call of the phase opens a triplet on the current generation's output. *)
LEMMA CallMoves ==
  ASSUME IInv, NEW r \in Reader, NEW n \in Node, Call(r, n)
  PROVE  Moves(r)
<1>1. readers \in [Reader -> ReaderType]
  BY UpdatedReader
<1>2. ASSUME NEW k, NEW e, Hold(r, k, e), entries'[e].gen = gen
      PROVE  Moves(r)
  BY <1>1, <1>2 DEF Hold, Moves
<1>3. /\ Len(entries) \in Nat /\ gen \in Gen
      /\ cache[gen][n] \in Nat /\ pending[gen][n] \in Nat
  BY LenProperties DEF IInv, EntriesOK, CountersOK
<1>4. CASE CallHit(r, n)
  <2>1. cache[gen][n] # Nil
    BY <1>4 DEF CallHit
  <2>2. entries[cache[gen][n]].gen = gen
    BY <1>3, <2>1 DEF IInv, EntriesOK, Filed
  <2> QED
    BY <1>2, <1>4, <2>2 DEF CallHit
<1>5. CASE CallShared(r, n)
  <2>1. pending[gen][n] # Nil
    BY <1>5 DEF CallShared
  <2>2. entries[pending[gen][n]].gen = gen
    BY <1>3, <2>1 DEF IInv, EntriesOK, Filed
  <2> QED
    BY <1>2, <1>5, <2>2 DEF CallShared
<1>6. CASE CallMiss(r, n)
  <2>1. Grows /\ Len(entries') = Len(entries) + 1
    BY <1>6, BeginStep
  <2>2. entries'[Len(entries) + 1].gen = gen
    BY <1>3, <2>1 DEF Grows
  <2> QED
    BY <1>2, <1>6, <2>2 DEF CallMiss
<1> QED
  BY <1>4, <1>5, <1>6 DEF Call

(* A pull hands out one element, or ends. *)
LEMMA PullMoves ==
  ASSUME IInv, NEW r \in Reader, Pull(r)
  PROVE  Moves(r)
<1>1. /\ readers \in [Reader -> ReaderType] /\ readers[r] \in ReaderType
      /\ readers[r].got \in Seq(Value)
  BY UpdatedReader
<1>2. readers[r].st = "open"
  BY DEF Pull, PullSeq, PullRecorded, PullSource, PullEnd, Free
<1>3. ASSUME NEW v, Deliver(r, v)
      PROVE  Moves(r)
  <2>1. Len(readers[r].got) < Len(Append(readers[r].got, v))
    BY <1>1, AppendLonger
  <2> QED
    BY <1>1, <1>2, <1>3, <2>1 DEF Deliver, Moves, ReaderType
<1>4. ASSUME Finish(r)
      PROVE  Moves(r)
  BY <1>1, <1>2, <1>4 DEF Finish, Moves, ReaderType
<1> QED
  BY <1>3, <1>4 DEF Pull, PullSeq, PullRecorded, PullSource, PullEnd

(* drain, drain_into and one end, or let go. *)
LEMMA TakeMoves ==
  ASSUME IInv, NEW r \in Reader, Take(r)
  PROVE  Moves(r)
<1>1. readers \in [Reader -> ReaderType] /\ readers[r] \in ReaderType
  BY UpdatedReader
<1>2. readers[r].st = "open"
  BY DEF Take, DrainSeq, DrainRec, OneSeq, OneRec, Free
<1>3. ASSUME NEW t, readers' = [readers EXCEPT ![r].st = "done", ![r].got = t]
      PROVE  Moves(r)
  BY <1>1, <1>2, <1>3 DEF Moves, ReaderType
<1>4. ASSUME readers' = [readers EXCEPT ![r] = Idle]
      PROVE  Moves(r)
  BY <1>1, <1>4 DEF Moves, Idle
<1> QED
  BY <1>3, <1>4 DEF Take, DrainSeq, DrainRec, OneSeq, OneRec

(* each and fold call back with one element, or end. *)
LEMMA LoopMoves ==
  ASSUME IInv, NEW r \in Reader, readers[r].st = "open", NEW hi, NEW below, LoopOn(r, hi, below)
  PROVE  Moves(r)
<1>1. /\ readers \in [Reader -> ReaderType] /\ readers[r] \in ReaderType
      /\ readers[r].got \in Seq(Value)
  BY UpdatedReader
<1>2. ASSUME NEW v, NEW ii,
             readers' = [readers EXCEPT ![r].how = "each", ![r].i = ii, ![r].hi = hi,
                                        ![r].got = Append(readers[r].got, v)]
      PROVE  Moves(r)
  <2>1. Len(readers[r].got) < Len(Append(readers[r].got, v))
    BY <1>1, AppendLonger
  <2> QED
    BY <1>1, <1>2, <2>1 DEF Moves, ReaderType
<1>3. ASSUME readers' = [readers EXCEPT ![r].st = "done", ![r].how = "each", ![r].hi = hi]
      PROVE  Moves(r)
  BY <1>1, <1>3 DEF Moves, ReaderType
<1> QED
  BY <1>2, <1>3 DEF LoopOn

-----------------------------------------------------------------------------
(* Moves of one consumer are steps of the contract *)

(* What the contract sees of consumers that do nothing stays the same. *)
LEMMA ViewFrame ==
  ASSUME IInv, Grows, NEW q \in Reader
  PROVE  View(readers[q], entries') = View(readers[q], entries)
<1>1. CASE readers[q].st = "idle"
  BY <1>1 DEF View
<1>2. CASE readers[q].st # "idle"
  <2>1. readers[q].src \in 1..Len(entries)
    BY <1>2, HeldFacts
  <2> QED
    BY <2>1 DEF View, Grows
<1> QED
  BY <1>1, <1>2

(* A move is a step of the contract. *)
LEMMA MoveIsContract ==
  ASSUME IInv, IInv', ReadersExact, ReadersExact', Grows,
         NEW r \in Reader, Moves(r), gen' = gen
  PROVE  Contract!ANext
<1> DEFINE c == readers[r]
           d == readers'[r]
           old == [q \in Reader |-> View(readers[q], entries)]
           new == [q \in Reader |-> View(readers'[q], entries')]
           whole == Out[entries[c.src].gen][entries[c.src].node]
<1>1. \A q \in Reader \ {r} : new[q] = old[q]
  BY ViewFrame DEF Moves
<1>2. new = [old EXCEPT ![r] = View(d, entries')]
  BY <1>1
<1>3. c \in ReaderType /\ d \in ReaderType
  BY DEF IInv, ConsumersOK
<1>4. CASE d.st = "idle"
  <2>1. new = [q \in Reader |-> IF q \in {r} THEN [st |-> "idle"] ELSE old[q]]
    BY <1>2, <1>4 DEF View
  <2>2. {r} \in SUBSET Reader
    OBVIOUS
  <2>3. Contract!ADrop({r})
    BY <2>1 DEF Contract!ADrop, Contract!Closed, View
  <2> QED
    BY <2>2, <2>3 DEF Contract!ANext
<1>5. CASE c.st = "idle" /\ d.st = "open" /\ d.got = <<>> /\ entries'[d.src].gen = gen
  <2>1. d.src \in 1..Len(entries') /\ entries' \in Seq(EntryType)
    BY <1>5 DEF IInv, ConsumersOK, EntriesOK, Held, Holding
  <2>2. PICK n \in Node : n = entries'[d.src].node
    <3>1. entries'[d.src] \in EntryType
      BY <2>1, ElementOfSeq
    <3> QED
      BY <3>1 DEF EntryType
  <2>3. View(d, entries') = [st |-> "open", epoch |-> gen, node |-> n, got |-> <<>>]
    BY <1>5, <2>2 DEF View
  <2>4. old[r].st = "idle"
    BY <1>5 DEF View
  <2>5. Contract!AOpen(r, n)
    BY <1>2, <2>3, <2>4 DEF Contract!AOpen, View
  <2> QED
    BY <2>2, <2>5 DEF Contract!ANext
<1>6. ASSUME c.st = "open", d.st # "idle", d.src = c.src
      PROVE  /\ c.got \in Seq(Value) /\ d.got \in Seq(Value) /\ whole \in Seq(Value)
             /\ IsPrefixOf(c.got, whole) /\ IsPrefixOf(d.got, whole)
             /\ d.st = "done" => d.got = whole
             /\ old[r] = [st |-> "open", epoch |-> entries[c.src].gen,
                          node |-> entries[c.src].node, got |-> c.got]
             /\ View(d, entries') = [st |-> d.st, epoch |-> entries[c.src].gen,
                                     node |-> entries[c.src].node, got |-> d.got]
  <2>1. c.src \in 1..Len(entries) /\ whole \in Seq(Value)
    BY <1>6, HeldFacts DEF Source
  <2>2. entries'[c.src].gen = entries[c.src].gen /\ entries'[c.src].node = entries[c.src].node
    BY <2>1 DEF Grows
  <2>3. IsPrefixOf(c.got, whole)
    BY <1>6 DEF ReadersExact, ExactFor, Source
  <2>4. /\ IsPrefixOf(d.got, Out[entries'[d.src].gen][entries'[d.src].node])
        /\ d.st = "done" => d.got = Out[entries'[d.src].gen][entries'[d.src].node]
    BY <1>6 DEF ReadersExact, ExactFor, Source
  <2> QED
    BY <1>3, <1>6, <2>1, <2>2, <2>3, <2>4 DEF View, ReaderType
<1>7. CASE c.st = "open" /\ d.st = "open" /\ d.src = c.src /\ Len(c.got) < Len(d.got)
  <2> DEFINE k == Len(d.got)
  <2> HIDE DEF old, new, whole
  <2>1. /\ k \in Nat /\ Len(c.got) \in Nat /\ Len(whole) \in Nat
        /\ d.got \in [1..k -> Value]
    BY <1>6, <1>7, LenProperties
  <2>2. k <= Len(whole) /\ \A i \in 1..k : d.got[i] = whole[i]
    BY <1>6, <1>7 DEF IsPrefixOf
  <2>3. k \in Len(c.got) + 1..Len(whole) /\ d.got = [i \in 1..k |-> whole[i]]
    BY <1>7, <2>1, <2>2
  <2>4. IsPrefixOf(c.got, d.got)
    <3>1. \A i \in 1..Len(c.got) : c.got[i] = whole[i] /\ i \in 1..k
      BY <1>6, <1>7, <2>1 DEF IsPrefixOf
    <3> QED
      BY <1>7, <2>1, <2>2, <3>1 DEF IsPrefixOf
  <2>o. /\ old[r] = [st |-> "open", epoch |-> entries[c.src].gen,
                     node |-> entries[c.src].node, got |-> c.got]
        /\ View(d, entries') = [st |-> "open", epoch |-> entries[c.src].gen,
                                node |-> entries[c.src].node, got |-> d.got]
    BY <1>6, <1>7
  <2>5. new = [old EXCEPT ![r] = [old[r] EXCEPT !.got = d.got]]
    <3>1. View(d, entries') = [old[r] EXCEPT !.got = d.got]
      BY <2>o
    <3> QED
      BY <1>2, <3>1, Zenon
  <2>6. Out[old[r].epoch][old[r].node] = whole /\ old[r].got = c.got /\ old[r].st = "open"
    BY <2>o DEF whole
  <2>7. \E m \in Len(old[r].got) + 1..Len(Out[old[r].epoch][old[r].node]) :
          LET got == [i \in 1..m |-> Out[old[r].epoch][old[r].node][i]] IN
          /\ IsPrefixOf(old[r].got, got)
          /\ new = [old EXCEPT ![r].got = got]
    <3> HIDE DEF k
    <3>1. new = [old EXCEPT ![r].got = d.got]
      BY <2>5
    <3> QED
      BY <2>3, <2>4, <2>6, <3>1
  <2>8. Contract!ADeliver(r)
    BY <2>6, <2>7
    DEF Contract!ADeliver, Contract!Whole, Contract!IsPrefixOf, IsPrefixOf, View, old, new
  <2> QED
    BY <2>8 DEF Contract!ANext
<1>8. CASE c.st = "open" /\ d.st = "done" /\ d.src = c.src
  <2> HIDE DEF old, new, whole
  <2>o. /\ old[r] = [st |-> "open", epoch |-> entries[c.src].gen,
                     node |-> entries[c.src].node, got |-> c.got]
        /\ View(d, entries') = [st |-> "done", epoch |-> entries[c.src].gen,
                                node |-> entries[c.src].node, got |-> whole]
    BY <1>6, <1>8
  <2>1. new = [old EXCEPT ![r] = [old[r] EXCEPT !.st = "done", !.got = whole]]
    <3>1. View(d, entries') = [old[r] EXCEPT !.st = "done", !.got = whole]
      <4>1. [old[r] EXCEPT !.st = "done"] =
              [st |-> "done", epoch |-> entries[c.src].gen, node |-> entries[c.src].node, got |-> c.got]
        BY <2>o
      <4>2. [[st |-> "done", epoch |-> entries[c.src].gen, node |-> entries[c.src].node,
              got |-> c.got] EXCEPT !.got = whole] = View(d, entries')
        BY <2>o
      <4>3. [old[r] EXCEPT !.st = "done", !.got = whole] =
              [[old[r] EXCEPT !.st = "done"] EXCEPT !.got = whole]
        OBVIOUS
      <4> QED
        BY <4>1, <4>2, <4>3
    <3> QED
      BY <1>2, <3>1, Zenon
  <2>2. Out[old[r].epoch][old[r].node] = whole /\ old[r].got = c.got /\ old[r].st = "open"
    BY <2>o DEF whole
  <2>3. /\ IsPrefixOf(old[r].got, Out[old[r].epoch][old[r].node])
        /\ new = [old EXCEPT ![r].st = "done", ![r].got = Out[old[r].epoch][old[r].node]]
    BY <1>6, <1>8, <2>1, <2>2
  <2>4. Contract!AFinish(r)
    BY <2>2, <2>3
    DEF Contract!AFinish, Contract!Whole, Contract!IsPrefixOf, IsPrefixOf, View, old, new
  <2> QED
    BY <2>4 DEF Contract!ANext
<1> QED
  BY <1>4, <1>5, <1>7, <1>8 DEF Moves

(* An error that ends loops is a step in which their consumers let go. *)
LEMMA UnwindIsContract ==
  ASSUME IInv, NEW d \in Int, Unwind(d)
  PROVE  Contract!ANext
<1> DEFINE R == {r \in Reader : \E j \in d + 1..Len(stack) : stack[j] = r}
           old == [q \in Reader |-> View(readers[q], entries)]
           new == [q \in Reader |-> View(readers'[q], entries')]
<1>1. /\ readers' = [r \in Reader |->
           IF \E j \in d + 1..Len(stack) : stack[j] = r THEN Idle ELSE readers[r]]
      /\ entries' = entries /\ gen' = gen
  BY DEF Unwind, tables
<1>2. ASSUME NEW q \in Reader
      PROVE  new[q] = IF q \in R THEN [st |-> "idle"] ELSE old[q]
  BY <1>1 DEF View, Idle
<1>3. new = [q \in Reader |-> IF q \in R THEN [st |-> "idle"] ELSE old[q]]
  BY <1>2
<1>4. PICK S \in SUBSET Reader : S = R
  OBVIOUS
<1>5. Contract!ADrop(S)
  BY <1>1, <1>3, <1>4 DEF Contract!ADrop, Contract!Closed, View
<1> QED
  BY <1>5 DEF Contract!ANext

-----------------------------------------------------------------------------
(* The refinement *)

(* The first states are the contract's. *)
LEMMA InitIsContract == Init => Contract!AInit
BY DEF Init, Idle, Contract!AInit, Contract!Closed

(* Every step of the phase is one of the contract's, or shows nothing.     *)
LEMMA StepIsContract ==
  ASSUME IInv, IInv', ReadersExact, ReadersExact', [Next]_vars
  PROVE  [Contract!ANext]_(Contract!avars)
<1>1. Grows
  BY NextInvariance DEF Invariance
<1>2. ASSUME NEW r \in Reader, Moves(r), gen' = gen
      PROVE  Contract!ANext
  BY <1>1, <1>2, MoveIsContract
<1>3. CASE UNCHANGED <<gen, entries, readers>>
  BY <1>3 DEF Contract!avars
<1>4. ASSUME NEW r \in Reader, NEW n \in Node, Call(r, n)
      PROVE  Contract!ANext
  <2>1. gen' = gen
    BY <1>4 DEF Call, CallHit, CallShared, CallMiss, tables
  <2> QED
    BY <1>2, <1>4, <2>1, CallMoves
<1>5. ASSUME NEW n \in Node, CallRaises(n)
      PROVE  UNCHANGED <<gen, entries, readers>>
  BY <1>5 DEF CallRaises, tables
<1>6. ASSUME NEW r \in Reader, Pull(r) \/ Take(r)
      PROVE  Contract!ANext
  <2>1. gen' = gen
    BY <1>6 DEF Pull, PullSeq, PullRecorded, PullSource, PullEnd,
                Take, DrainSeq, DrainRec, OneSeq, OneRec, tables
  <2> QED
    BY <1>2, <1>6, <2>1, PullMoves, TakeMoves
<1>7. ASSUME NEW r \in Reader, EachStart(r)
      PROVE  Contract!ANext
  BY <1>2, <1>7, LoopMoves DEF EachStart, Free
<1>8. CASE EachReturn
  <2> DEFINE r == stack[Len(stack)]
  <2>1. stack \in Seq(Reader) /\ stack # <<>> /\ gen' = gen
    BY <1>8 DEF EachReturn, IInv, ConsumersOK
  <2>2. Len(stack) \in 1..Len(stack)
    BY <2>1, EmptySeq
  <2>3. r \in Reader /\ readers[r].st = "open"
    BY <2>1, <2>2, ElementOfSeq DEF IInv, ConsumersOK, Held
  <2>4. LoopOn(r, readers[r].hi, SubSeq(stack, 1, Len(stack) - 1))
    BY <1>8 DEF EachReturn
  <2> HIDE DEF r
  <2> QED
    BY <1>2, <2>1, <2>3, <2>4, LoopMoves
<1>9. ASSUME NEW r \in Reader, SourceRaises(r) \/ Drop(r)
      PROVE  Contract!ANext
  <2>1. readers' = [readers EXCEPT ![r] = Idle] /\ gen' = gen
    BY <1>9 DEF SourceRaises, Drop, tables
  <2>2. Moves(r)
    BY <2>1, UpdatedReader DEF Moves, Idle
  <2> QED
    BY <1>2, <2>1, <2>2
<1>10. ASSUME NEW d \in 0..Cardinality(Reader), Unwind(d)
       PROVE  Contract!ANext
  BY <1>10, UnwindIsContract
<1>11. CASE Reset
  <2>1. Contract!AReset
    BY <1>11 DEF Reset, Contract!AReset
  <2> QED
    BY <2>1 DEF Contract!ANext
<1>12. CASE UNCHANGED vars
  BY <1>3, <1>12 DEF vars
<1> QED
  BY <1>3, <1>4, <1>5, <1>6, <1>7, <1>8, <1>9, <1>10, <1>11, <1>12 DEF Next

(* To its consumers a phase is one that runs the handler for each of them, *)
(* as often as they ask, and hands out what it produces.                   *)
THEOREM PhaseKeepsContract ==
  ASSUME Dense, ~Reentrant
  PROVE  Spec => ImplementsContract
<1>1. IInv /\ IInv' /\ ReadersExact /\ ReadersExact' /\ [Next]_vars
        => [Contract!ANext]_(Contract!avars)
  BY StepIsContract
<1> QED
  BY <1>1, InitIsContract, Inductive, ReadersGetAll, PTL
  DEF Spec, ImplementsContract, Contract!ASpec
=============================================================================
