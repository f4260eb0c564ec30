------------------------------ MODULE PvmPhase ------------------------------
(***************************************************************************)
(* pvm.lua: the phase boundary without extra arguments.  A call answers    *)
(* from the cache (hit), joins a recording already in flight (shared), or  *)
(* runs the handler and starts one (miss).  A recording is advanced by     *)
(* whichever consumer asks for an element it does not hold yet, and is     *)
(* committed to the cache when its source is exhausted.                    *)
(*                                                                         *)
(* A table slot holds the identity of a recording, or Nil: a committed hit *)
(* IS the recording's buffer (finish_recording stores it, it is not        *)
(* copied).  The weak-keyed tables a reset replaces stay reachable from    *)
(* the recordings that captured them, so there is one pair per generation. *)
(***************************************************************************)
EXTENDS Naturals, Sequences, FiniteSets, Functions

CONSTANTS
  Node,       \* ASDL nodes (interned: a node is its own cache key)
  Reader,     \* places a program can hold a (gen, param, ctrl) triplet
  Value,      \* the elements handlers produce
  NilValue,   \* Lua's nil, where it occurs as an element
  MaxGen,     \* bound: generations of tables (resets + 1)
  MaxCalls,   \* bound: calls counted between two resets
  MaxErrors,  \* bound: errors raised by handlers, sources and callbacks
  Out,        \* Out[g][n]: what the handler called in generation g produces
  Scalar,     \* TRUE: the phase was given a value function (REC_PACKED)
  Reentrant   \* TRUE: a callback may pull on the recording being iterated

Gen == 1..MaxGen
Nil == 0

ASSUME BoundsAssumption ==
  /\ MaxGen \in Nat \ {0}
  /\ MaxCalls \in Nat
  /\ MaxErrors \in Nat

ASSUME OutputAssumption ==
  /\ Out \in [Gen -> [Node -> Seq(Value)]]
  /\ Scalar \in BOOLEAN
  /\ Reentrant \in BOOLEAN
  /\ Scalar => \A g \in Gen, n \in Node : Len(Out[g][n]) = 1

VARIABLES
  gen,      \* the generation of tables the boundary's upvalues point at
  cache,    \* cache[g][n]: the committed recording, or Nil
  pending,  \* pending[g][n]: the recording in flight, or Nil
  entries,  \* every recording ever made; its index is its identity
  readers,  \* what each consumer holds
  stack,    \* the each/fold loops whose callback is running, innermost last
  stats,    \* the boundary's counters
  errors    \* errors raised so far (history, for the bound)

tables == <<gen, cache, pending>>
vars == <<gen, cache, pending, entries, readers, stack, stats, errors>>

Idle == [st |-> "idle", kind |-> "rec", how |-> "pull", src |-> 0, i |-> 0, hi |-> 0, got |-> <<>>]

Init ==
  /\ gen = 1
  /\ cache = [g \in Gen |-> [n \in Node |-> Nil]]
  /\ pending = [g \in Gen |-> [n \in Node |-> Nil]]
  /\ entries = <<>>
  /\ readers = [r \in Reader |-> Idle]
  /\ stack = <<>>
  /\ stats = [calls |-> 0, hits |-> 0, shared |-> 0]
  /\ errors = 0

-----------------------------------------------------------------------------
(* Recordings *)

Source(e) == Out[entries[e].gen][entries[e].node]
Buf(e)    == entries[e].buf

(* The buffer b grown by one source step at a time until it holds k elements. *)
Grown(b, s, k) == [i \in 1..k |-> IF i <= Len(b) THEN b[i] ELSE s[i]]

(* The values #t may return for an array part holding nils: any border. *)
Borders(t) ==
  {k \in 0..Len(t) : /\ k = 0 \/ t[k] # NilValue
                     /\ k = Len(t) \/ t[k + 1] = NilValue}

(* A packed hit carries its length; any other is measured with #. *)
HitLengths(e) == IF Scalar THEN {Len(Buf(e))} ELSE Borders(Buf(e))
(* Bug: the recording commits to the tables the boundary has now. *)
FinishRecording_CurrentTables(e, b) ==
  LET n == entries[e].node IN
  /\ entries' = [entries EXCEPT ![e].buf = b, ![e].done = TRUE]
  /\ cache' = [cache EXCEPT ![gen][n] = e]
  /\ pending' = [pending EXCEPT ![gen][n] = Nil]

(* Bug: the slot in flight is not cleared. *)
FinishRecording_KeepsPending(e, b) ==
  /\ entries' = [entries EXCEPT ![e].buf = b, ![e].done = TRUE]
  /\ cache' = [cache EXCEPT ![entries[e].gen][entries[e].node] = e]
  /\ UNCHANGED pending

(* Bug: the source's final nil is buffered before it is tested. *)
FinishRecording_BuffersEnd(e, b) ==
  /\ entries' = [entries EXCEPT ![e].buf = Append(b, NilValue), ![e].done = TRUE]
  /\ cache' = [cache EXCEPT ![entries[e].gen][entries[e].node] = e]
  /\ pending' = [pending EXCEPT ![entries[e].gen][entries[e].node] = Nil]

(* e's own tables, whatever the boundary's upvalues point at by now. *)
FinishRecording(e, b) ==
  LET g == entries[e].gen
      n == entries[e].node IN
  /\ entries' = [entries EXCEPT ![e].buf = b, ![e].done = TRUE]
  /\ cache' = [cache EXCEPT ![g][n] = e]
  /\ pending' = [pending EXCEPT ![g][n] = Nil]

AdvanceRecording(e, k) ==
  /\ entries' = [entries EXCEPT ![e].buf = Grown(Buf(e), Source(e), k)]
  /\ UNCHANGED <<cache, pending>>

(* A loop of r's own is not disturbed by r; a loop of another consumer     *)
(* over the same recording, further out on the call stack, is.             *)
Disturbs(r, e) ==
  \E j \in 1..Len(stack) :
    /\ stack[j] # r
    /\ readers[stack[j]].kind = "rec"
    /\ readers[stack[j]].src = e

MayAdvance(r, e) == Reentrant \/ ~Disturbs(r, e)

Looping(r) == \E j \in 1..Len(stack) : stack[j] = r

-----------------------------------------------------------------------------
(* phase(node) *)

Counted(hit, shared) ==
  /\ stats.calls < MaxCalls
  /\ stats' = [calls  |-> stats.calls + 1,
               hits   |-> stats.hits + hit,
               shared |-> stats.shared + shared]

Hold(r, k, e) ==
  /\ readers[r].st = "idle"
  /\ readers' = [readers EXCEPT ![r] =
       [st |-> "open", kind |-> k, how |-> "pull", src |-> e, i |-> 0, hi |-> 0, got |-> <<>>]]

CallHit(r, n) ==
  /\ cache[gen][n] # Nil
  /\ Counted(1, 0)
  /\ Hold(r, "seq", cache[gen][n])
  /\ UNCHANGED <<tables, entries, stack, errors>>
(* Bug: a consumer that joins late starts at the recording's position. *)
CallShared_JoinsLate(r, n) ==
  LET e == pending[gen][n] IN
  /\ cache[gen][n] = Nil
  /\ e # Nil
  /\ Counted(0, 1)
  /\ readers[r].st = "idle"
  /\ readers' = [readers EXCEPT ![r] = [Idle EXCEPT !.st = "open", !.src = e, !.i = Len(Buf(e))]]
  /\ UNCHANGED <<tables, entries, stack, errors>>

CallShared(r, n) ==
  /\ cache[gen][n] = Nil
  /\ pending[gen][n] # Nil
  /\ Counted(0, 1)
  /\ Hold(r, "rec", pending[gen][n])
  /\ UNCHANGED <<tables, entries, stack, errors>>
(* Bug: only the recordings in flight are consulted. *)
Misses_IgnoresCache(n) == pending[gen][n] = Nil

Misses(n) == cache[gen][n] = Nil /\ pending[gen][n] = Nil
(* Bug: the pending table is the one the phase was created with. *)
CallMiss_FirstPending(r, n) ==
  /\ Misses(n)
  /\ Counted(0, 0)
  /\ entries' = Append(entries, [gen |-> gen, node |-> n, buf |-> <<>>, done |-> FALSE])
  /\ pending' = [pending EXCEPT ![1][n] = Len(entries) + 1]
  /\ Hold(r, "rec", Len(entries) + 1)
  /\ UNCHANGED <<gen, cache, stack, errors>>

CallMiss(r, n) ==
  /\ Misses(n)
  /\ Counted(0, 0)
  /\ entries' = Append(entries, [gen |-> gen, node |-> n, buf |-> <<>>, done |-> FALSE])
  /\ pending' = [pending EXCEPT ![gen][n] = Len(entries) + 1]
  /\ Hold(r, "rec", Len(entries) + 1)
  /\ UNCHANGED <<gen, cache, stack, errors>>

(* The handler runs inside the call: no handler, an error in it or a       *)
(* result that is no triplet leave nothing behind but the counted call.    *)
CallRaises(n) ==
  /\ ~Scalar
  /\ Misses(n)
  /\ errors < MaxErrors
  /\ Counted(0, 0)
  /\ errors' = errors + 1
  /\ UNCHANGED <<tables, entries, readers, stack>>

-----------------------------------------------------------------------------
(* Consuming a triplet step by step: for _, v in phase(node) do *)

Free(r) == readers[r].st = "open" /\ ~Looping(r)

Deliver(r, v) ==
  readers' = [readers EXCEPT ![r].i = readers[r].i + 1, ![r].got = Append(readers[r].got, v)]

Finish(r) == readers' = [readers EXCEPT ![r].st = "done"]

PullSeq(r) ==
  LET e == readers[r].src
      i == readers[r].i + 1 IN
  /\ Free(r) /\ readers[r].kind = "seq"
  /\ \E n \in HitLengths(e) : IF i > n THEN Finish(r) ELSE Deliver(r, Buf(e)[i])
  /\ UNCHANGED <<tables, entries, stack, stats, errors>>
(* Bug: the consumer is given the newest element, as each/fold are. *)
PullRecorded_Newest(r) ==
  LET b == Buf(readers[r].src) IN
  /\ Free(r) /\ readers[r].kind = "rec"
  /\ readers[r].i < Len(b)
  /\ Deliver(r, b[Len(b)])
  /\ UNCHANGED <<tables, entries, stack, stats, errors>>

PullRecorded(r) ==
  LET i == readers[r].i + 1 IN
  /\ Free(r) /\ readers[r].kind = "rec"
  /\ i <= Len(Buf(readers[r].src))
  /\ Deliver(r, Buf(readers[r].src)[i])
  /\ UNCHANGED <<tables, entries, stack, stats, errors>>

PullSource(r) ==
  LET e == readers[r].src
      n == Len(Buf(e)) + 1 IN
  /\ Free(r) /\ readers[r].kind = "rec"
  /\ readers[r].i = Len(Buf(e))
  /\ ~entries[e].done
  /\ n <= Len(Source(e))
  /\ MayAdvance(r, e)
  /\ AdvanceRecording(e, n)
  /\ Deliver(r, Source(e)[n])
  /\ UNCHANGED <<gen, stack, stats, errors>>
(* Bug: the end of the source is reported but not recorded. *)
PullEnd_NoCommit(r) ==
  LET e == readers[r].src IN
  /\ Free(r) /\ readers[r].kind = "rec"
  /\ readers[r].i = Len(Buf(e))
  /\ entries[e].done \/ Len(Buf(e)) = Len(Source(e))
  /\ Finish(r)
  /\ UNCHANGED <<tables, entries, stack, stats, errors>>

(* Bug: a recording finished by another consumer is still asked for more. *)
PullEnd_OnlyFirst(r) ==
  LET e == readers[r].src IN
  /\ Free(r) /\ readers[r].kind = "rec"
  /\ readers[r].i = Len(Buf(e))
  /\ ~entries[e].done /\ Len(Buf(e)) = Len(Source(e)) /\ FinishRecording(e, Buf(e))
  /\ Finish(r)
  /\ UNCHANGED <<gen, stack, stats, errors>>

PullEnd(r) ==
  LET e == readers[r].src IN
  /\ Free(r) /\ readers[r].kind = "rec"
  /\ readers[r].i = Len(Buf(e))
  /\ \/ entries[e].done /\ UNCHANGED <<cache, pending, entries>>
     \/ ~entries[e].done /\ Len(Buf(e)) = Len(Source(e)) /\ FinishRecording(e, Buf(e))
  /\ Finish(r)
  /\ UNCHANGED <<gen, stack, stats, errors>>

-----------------------------------------------------------------------------
(* pvm.drain, pvm.drain_into and warm: one uninterrupted loop *)

(* got followed by what t holds beyond position i *)
ReadOn(got, t, i, n) == got \o SubSeq(t, i + 1, n)

DrainSeq(r) ==
  LET e == readers[r].src IN
  /\ Free(r) /\ readers[r].kind = "seq"
  /\ \E n \in HitLengths(e) :
       readers' = [readers EXCEPT ![r].st = "done",
                                  ![r].got = ReadOn(readers[r].got, Buf(e), readers[r].i, n)]
  /\ UNCHANGED <<tables, entries, stack, stats, errors>>

DrainRec(r) ==
  LET e == readers[r].src
      b == IF entries[e].done THEN Buf(e) ELSE Grown(Buf(e), Source(e), Len(Source(e))) IN
  /\ Free(r) /\ readers[r].kind = "rec"
  /\ IF entries[e].done
       THEN UNCHANGED <<cache, pending, entries>>
       ELSE MayAdvance(r, e) /\ FinishRecording(e, b)
  /\ readers' = [readers EXCEPT ![r].st = "done",
                                ![r].got = ReadOn(readers[r].got, b, readers[r].i, Len(b))]
  /\ UNCHANGED <<gen, stack, stats, errors>>

-----------------------------------------------------------------------------
(* pvm.one: exactly one element left, and then the end *)

OneSeq(r) ==
  LET e == readers[r].src
      i == readers[r].i + 1 IN
  /\ Free(r) /\ readers[r].kind = "seq"
  /\ \E n \in HitLengths(e) :
       IF i = n
         THEN readers' = [readers EXCEPT ![r].st = "done", ![r].got = Append(readers[r].got, Buf(e)[i])]
         ELSE readers' = [readers EXCEPT ![r] = Idle]
  /\ UNCHANGED <<tables, entries, stack, stats, errors>>

OneRec(r) ==
  LET e == readers[r].src
      i == readers[r].i + 1
      b == Buf(e)
      total == IF entries[e].done THEN Len(b) ELSE Len(Source(e)) IN
  /\ Free(r) /\ readers[r].kind = "rec"
  /\ entries[e].done \/ i < Len(b) \/ MayAdvance(r, e)
  /\ \/ \* got 0: the first advance finds the end
        /\ i > total
        /\ IF entries[e].done THEN UNCHANGED <<cache, pending, entries>> ELSE FinishRecording(e, b)
        /\ readers' = [readers EXCEPT ![r] = Idle]
     \/ \* got more: already buffered, or recorded by the second advance
        /\ i < total
        /\ IF i < Len(b) THEN UNCHANGED <<cache, pending, entries>> ELSE AdvanceRecording(e, i + 1)
        /\ readers' = [readers EXCEPT ![r] = Idle]
     \/ /\ i = total
        /\ IF entries[e].done
             THEN UNCHANGED <<cache, pending, entries>>
             ELSE FinishRecording(e, Grown(b, Source(e), i))
        /\ readers' = [readers EXCEPT ![r].st = "done",
                         ![r].got = Append(readers[r].got, Grown(b, Source(e), i)[i])]
  /\ UNCHANGED <<gen, stack, stats, errors>>

-----------------------------------------------------------------------------
(* pvm.each and pvm.fold: a callback per element, which may use the phase  *)
(* again.  Iterating a recording takes two loops: the elements buffered    *)
(* when the loop was entered (up to hi), then advance and take the last    *)
(* element of the buffer.                                                  *)

(* r's loop runs from below its callback up to the next callback or its end *)
LoopOn(r, hi, below) ==
  LET e == readers[r].src
      i == readers[r].i
      n == Len(Buf(e)) + 1
      Callback(v, ii) ==
        /\ readers' = [readers EXCEPT ![r].how = "each", ![r].i = ii, ![r].hi = hi,
                                      ![r].got = Append(readers[r].got, v)]
        /\ stack' = Append(below, r)
      Leave ==
        /\ readers' = [readers EXCEPT ![r].st = "done", ![r].how = "each", ![r].hi = hi]
        /\ stack' = below
      exhausted == entries[e].done \/ Len(Buf(e)) = Len(Source(e)) IN
  \/ /\ i < hi
     /\ Callback(Buf(e)[i + 1], i + 1)
     /\ UNCHANGED <<cache, pending, entries>>
  \/ /\ i >= hi /\ readers[r].kind = "rec" /\ ~exhausted
     /\ MayAdvance(r, e)
     /\ AdvanceRecording(e, n)
     /\ Callback(Source(e)[n], i)
  \/ /\ i >= hi /\ (readers[r].kind = "rec" => exhausted)
     /\ IF readers[r].kind = "rec" /\ ~entries[e].done
          THEN FinishRecording(e, Buf(e))
          ELSE UNCHANGED <<cache, pending, entries>>
     /\ Leave

EachStart(r) ==
  LET e == readers[r].src IN
  /\ Free(r)
  /\ \E hi \in IF readers[r].kind = "seq" THEN HitLengths(e) ELSE {Len(Buf(e))} :
       LoopOn(r, hi, stack)
  /\ UNCHANGED <<gen, stats, errors>>

(* The innermost callback returns to its loop. *)
EachReturn ==
  /\ stack # <<>>
  /\ LET r == stack[Len(stack)] IN LoopOn(r, readers[r].hi, SubSeq(stack, 1, Len(stack) - 1))
  /\ UNCHANGED <<gen, stats, errors>>

-----------------------------------------------------------------------------
(* Errors, abandonment, reset *)

(* A callback, or the source a loop advances, raises: the error passes all *)
(* loops down to the pcall, at depth d.  The recordings stay in flight.    *)
Unwind(d) ==
  /\ d < Len(stack)
  /\ errors < MaxErrors
  /\ errors' = errors + 1
  /\ stack' = SubSeq(stack, 1, d)
  /\ readers' = [r \in Reader |->
       IF \E j \in d + 1..Len(stack) : stack[j] = r THEN Idle ELSE readers[r]]
  /\ UNCHANGED <<tables, entries, stats>>

(* The source raises while r pulls or drains, after k elements in all. *)
SourceRaises(r) ==
  LET e == readers[r].src IN
  /\ Free(r) /\ readers[r].kind = "rec"
  /\ ~entries[e].done
  /\ errors < MaxErrors
  /\ MayAdvance(r, e)
  /\ \E k \in Len(Buf(e))..Len(Source(e)) : AdvanceRecording(e, k)
  /\ readers' = [readers EXCEPT ![r] = Idle]
  /\ errors' = errors + 1
  /\ UNCHANGED <<gen, stack, stats>>

(* The consumer breaks out of its loop, or is through with a finished one. *)
Drop(r) ==
  /\ readers[r].st \in {"open", "done"}
  /\ ~Looping(r)
  /\ readers' = [readers EXCEPT ![r] = Idle]
  /\ UNCHANGED <<tables, entries, stack, stats, errors>>
(* Bug: one counter survives. *)
Reset_KeepsShared ==
  /\ gen < MaxGen
  /\ gen' = gen + 1
  /\ stats' = [calls |-> 0, hits |-> 0, shared |-> stats.shared]
  /\ UNCHANGED <<cache, pending, entries, readers, stack, errors>>

(* boundary:reset(): fresh tables and counters; recordings keep theirs. *)
Reset ==
  /\ gen < MaxGen
  /\ gen' = gen + 1
  /\ stats' = [calls |-> 0, hits |-> 0, shared |-> 0]
  /\ UNCHANGED <<cache, pending, entries, readers, stack, errors>>

-----------------------------------------------------------------------------
Call(r, n) == CallHit(r, n) \/ CallShared(r, n) \/ CallMiss(r, n)

Pull(r) == PullSeq(r) \/ PullRecorded(r) \/ PullSource(r) \/ PullEnd(r)

Take(r) == DrainSeq(r) \/ DrainRec(r) \/ OneSeq(r) \/ OneRec(r)

Next ==
  \/ \E r \in Reader, n \in Node : Call(r, n)
  \/ \E n \in Node : CallRaises(n)
  \/ \E r \in Reader : Pull(r) \/ Take(r) \/ EachStart(r) \/ SourceRaises(r) \/ Drop(r)
  \/ EachReturn
  \/ \E d \in 0..Cardinality(Reader) : Unwind(d)
  \/ Reset

(* A consumer that holds a reader keeps pulling, and a callback returns:   *)
(* both are loops of the calling program that nothing else can suspend.    *)
Fairness ==
  /\ \A r \in Reader : WF_vars(Pull(r))
  /\ WF_vars(EachReturn)

Spec == Init /\ [][Next]_vars

FairSpec == Spec /\ Fairness

-----------------------------------------------------------------------------
(* What must hold *)

ReaderType ==
  [st : {"idle", "open", "done"}, kind : {"seq", "rec"}, how : {"pull", "each"},
   src : Nat, i : Nat, hi : Nat, got : Seq(Value)]

EntryType == [gen : Gen, node : Node, buf : Seq(Value), done : BOOLEAN]

(* got: what r's consumer was handed so far; how: whether each/fold did it. *)
(* The state is of the shape the code's tables and counters have. *)
TypeOK ==
  /\ gen \in Gen
  /\ cache \in [Gen -> [Node -> Nat]]
  /\ pending \in [Gen -> [Node -> Nat]]
  /\ entries \in Seq(EntryType)
  /\ readers \in [Reader -> ReaderType]
  /\ stack \in Seq(Reader)
  /\ stats \in [calls : Nat, hits : Nat, shared : Nat]
  /\ errors \in Nat

(* Every recording is filed in exactly one table of the generation it was  *)
(* begun in: in flight until it is exhausted, committed from then on, and  *)
(* nothing else is in the tables.  So no node is ever recorded twice while *)
(* one recording of it could still answer ("No duplicate work").           *)
Filed ==
  /\ \A e \in 1..Len(entries) :
       LET g == entries[e].gen
           n == entries[e].node IN
       /\ cache[g][n] = IF entries[e].done THEN e ELSE Nil
       /\ pending[g][n] = IF entries[e].done THEN Nil ELSE e
  /\ \A g \in Gen, n \in Node :
       \A e \in {cache[g][n], pending[g][n]} \ {Nil} :
         e <= Len(entries) /\ entries[e].gen = g /\ entries[e].node = n

(* A hit replays everything the handler of that generation produces for    *)
(* that node: an interrupted recording, or one made before a reset, is     *)
(* never what the cache answers with.                                      *)
CommitWhole ==
  \A g \in Gen, n \in Node :
    cache[g][n] # Nil => Buf(cache[g][n]) = Out[g][n]

IsPrefixOf(s, t) == Len(s) <= Len(t) /\ \A i \in 1..Len(s) : s[i] = t[i]

(* Recording is invisible to a consumer: whoever else reads or advances    *)
(* the same recording, it gets the handler's elements in order, each once. *)
ExactFor(r) ==
  readers[r].st # "idle" =>
    /\ IsPrefixOf(readers[r].got, Source(readers[r].src))
    /\ readers[r].st = "done" => readers[r].got = Source(readers[r].src)

ReadersExact == \A r \in Reader : ExactFor(r)

(* The same of the consumers that pull for themselves (for, drain, one),   *)
(* whose position is theirs and not the recording's.                       *)
PullersExact == \A r \in Reader : readers[r].how = "pull" => ExactFor(r)

(* Whoever reached the end has left the node's output in its generation's  *)
(* cache: this is what makes warm's closing lookup succeed.                *)
FinishedIsCached ==
  \A r \in Reader : readers[r].st = "done" =>
    LET e == readers[r].src IN cache[entries[e].gen][entries[e].node] = e

(* hits and shared never count a call that ran the handler, before or      *)
(* after a reset: what they leave of calls is the recordings begun and the *)
(* handlers that raised.                                                   *)
Begun == {e \in 1..Len(entries) : entries[e].gen = gen}

StatsAccount ==
  LET ran == stats.calls - (stats.hits + stats.shared) IN
  /\ stats.hits + stats.shared + Cardinality(Begun) <= stats.calls
  /\ errors = 0 => ran = Cardinality(Begun)

(* A committed hit is never dropped, replaced or altered, so a consumer    *)
(* may hold it (a seq reader reads the cached array itself) for ever.      *)
CommitsStable ==
  [][\A g \in Gen, n \in Node :
       cache[g][n] # Nil => /\ cache'[g][n] = cache[g][n]
                            /\ entries'[cache[g][n]].buf = Buf(cache[g][n])]_vars

(* Tables that a reset has replaced take no new recordings. *)
OldTablesClosed ==
  [][\A g \in Gen, n \in Node :
       g < gen /\ pending[g][n] = Nil => pending'[g][n] = Nil]_vars

(* No consumer waits for another: one that goes on pulling comes to its    *)
(* end (or lets go, or an error takes it) whatever the others do.          *)
ReadersFinish == \A r \in Reader : readers[r].st = "open" ~> readers[r].st # "open"

(* How the contract's readers are read off the phase's. *)
Contract == INSTANCE PhaseContract WITH
  epoch  <- gen,
  reader <- [r \in Reader |->
              IF readers[r].st = "idle" THEN [st |-> "idle"]
              ELSE [st    |-> readers[r].st,
                    epoch |-> entries[readers[r].src].gen,
                    node  |-> entries[readers[r].src].node,
                    got   |-> readers[r].got]]

(* A phase behaves as if it neither cached, nor shared, nor recorded. *)
ImplementsContract == Contract!ASpec

=============================================================================
