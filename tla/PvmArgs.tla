------------------------------ MODULE PvmArgs ------------------------------
(***************************************************************************)
(* pvm.lua: calls of a phase with extra arguments, which are "additional   *)
(* cache-key dimensions".  In mode "full" committed hits and recordings in *)
(* flight are found by walking a table of tables, one argument per level;  *)
(* in mode "last" a node has one slot, with the arguments beside it; in    *)
(* mode "none" nothing is kept.  Pulling is PvmPhase's subject: here a     *)
(* recording is only begun and, some time later, finished.                 *)
(*                                                                         *)
(* Every Lua table that can be reached by walking is an object of the      *)
(* heap, because the walk does not know what it has reached: the levels    *)
(* ("dir"), but also recordings ("entry") and the buffers that a finished  *)
(* recording leaves in the cache ("buf").                                  *)
(***************************************************************************)
EXTENDS Naturals, Sequences, FiniteSets

CONSTANTS
  Node,      \* ASDL nodes
  Arg,       \* argument values as table keys (nil is PHASE_ARG_NIL, one of them)
  Tuples,    \* the argument tuples the program calls with
  Modes,     \* the args_cache modes explored, of "full", "last", "none"
  MaxCalls,  \* bound: calls
  MaxResets, \* bound: resets
  SelfCalls  \* may a node's handler call the phase on that node, with other
             \* arguments?

Nil == 0

ASSUME ArgsAssumption ==
  /\ Tuples \subseteq Seq(Arg) \ {<<>>}
  /\ Modes \subseteq {"full", "last", "none"}

VARIABLES
  mode,     \* opts.args_cache of this phase
  heap,     \* the tables: [kind, kids]; an object's index is its address
  entries,  \* the recordings, oldest first
  root,     \* root[w][n]: the top table of node n; w is "cache" or "pending"
  last,     \* last[w][n]: the slot of mode "last": [args, entry]
  handlers, \* handlers running, innermost last, each with what the call that
            \* runs it had looked up before
  answer,   \* what the latest call or cached() found, for the properties
  calls, resets

vars == <<mode, heap, entries, root, last, handlers, answer, calls, resets>>

Tables == {"cache", "pending"}
Empty == [args |-> <<>>, entry |-> Nil]
Bare == [a \in Arg |-> Nil]
NoAnswer == [how |-> "none", node |-> Nil, args |-> <<>>, obj |-> Nil]

Init ==
  /\ mode \in Modes
  /\ heap = <<>>
  /\ entries = <<>>
  /\ root = [w \in Tables |-> [n \in Node |-> Nil]]
  /\ last = [w \in Tables |-> [n \in Node |-> Empty]]
  /\ handlers = <<>>
  /\ answer = NoAnswer
  /\ calls = 0 /\ resets = 0

-----------------------------------------------------------------------------
(* Tables of tables *)

(* Bug: the last argument does not take part in the walk. *)
LookupPhaseArgs_ShortWalk(t, args) ==
  LET at[i \in 0..Len(args)] ==
        IF i = 0 THEN t
        ELSE IF at[i - 1] = Nil THEN Nil
        ELSE heap[at[i - 1]].kids[args[IF i = Len(args) THEN 1 ELSE i]]
  IN at[Len(args)]

(* lookup_phase_args: the object reached from t by the arguments, or Nil *)
LookupPhaseArgs(t, args) ==
  LET at[i \in 0..Len(args)] ==
        IF i = 0 THEN t
        ELSE IF at[i - 1] = Nil THEN Nil ELSE heap[at[i - 1]].kids[args[i]]
  IN at[Len(args)]

(* ensure_phase_args_parent: h with the levels down to the last argument   *)
(* made, and the object that has the slot.  Whatever is in the way of a    *)
(* level is taken for one.                                                 *)
EnsurePhaseArgsParent(h, t, args) ==
  LET step[i \in 0..Len(args) - 1] ==
        IF i = 0 THEN [heap |-> h, at |-> t]
        ELSE LET s == step[i - 1]
                 child == s.heap[s.at].kids[args[i]]
                 new == Len(s.heap) + 1 IN
             IF child # Nil THEN [heap |-> s.heap, at |-> child]
             ELSE [heap |-> Append([s.heap EXCEPT ![s.at].kids[args[i]] = new],
                                   [kind |-> "dir", kids |-> Bare]),
                   at |-> new]
  IN step[Len(args) - 1]

(* A root that is there, or a new one. *)
EnsureRoot(h, t) ==
  IF t # Nil THEN [heap |-> h, at |-> t]
  ELSE [heap |-> Append(h, [kind |-> "dir", kids |-> Bare]), at |-> Len(h) + 1]

(* same_phase_args *)
SlotHolds(slot, args) == slot.entry # Nil /\ slot.args = args

-----------------------------------------------------------------------------
(* phase(node, ...) *)

CacheHit(n, args) ==
  CASE mode = "full" -> LookupPhaseArgs(root["cache"][n], args)
    [] mode = "last" -> IF SlotHolds(last["cache"][n], args)
                        THEN entries[last["cache"][n].entry].buf ELSE Nil
    [] mode = "none" -> Nil

InFlight(n, args) ==
  CASE mode = "full" -> LookupPhaseArgs(root["pending"][n], args)
    [] mode = "last" -> IF SlotHolds(last["pending"][n], args)
                        THEN entries[last["pending"][n].entry].obj ELSE Nil
    [] mode = "none" -> Nil

Answered(how, n, args, obj) == answer' = [how |-> how, node |-> n, args |-> args, obj |-> obj]

Counted == calls < MaxCalls /\ calls' = calls + 1

CallHit(n, args) ==
  /\ Counted
  /\ CacheHit(n, args) # Nil
  /\ Answered("hit", n, args, CacheHit(n, args))
  /\ UNCHANGED <<mode, heap, entries, root, last, handlers, resets>>

CallShared(n, args) ==
  /\ Counted
  /\ CacheHit(n, args) = Nil
  /\ InFlight(n, args) # Nil
  /\ Answered("shared", n, args, InFlight(n, args))
  /\ UNCHANGED <<mode, heap, entries, root, last, handlers, resets>>

(* Bug: recordings in flight are not consulted. *)
Misses_IgnoresInFlight(n, args) == CacheHit(n, args) = Nil

Misses(n, args) == CacheHit(n, args) = Nil /\ InFlight(n, args) = Nil

(* A recording for these arguments: the table it is, its buffer, and the   *)
(* objects whose slot it will write when it finishes.                      *)
Recording(f, obj, cacheParent, pendingParent) ==
  [node |-> f.node, args |-> f.args, obj |-> obj, buf |-> obj + 1, epoch |-> f.epoch,
   cacheParent |-> cacheParent, pendingParent |-> pendingParent, done |-> FALSE]

WithRecording(h) == h \o <<[kind |-> "entry", kids |-> Bare], [kind |-> "buf", kids |-> Bare]>>

(* A miss runs the handler, which may call the phase again, but not for    *)
(* what is being computed: that would never end.                           *)
CallMiss(n, args) ==
  /\ mode # "none"
  /\ Counted
  /\ Misses(n, args)
  /\ \A k \in 1..Len(handlers) :
       handlers[k].node = n => SelfCalls /\ handlers[k].args # args
  /\ handlers' = Append(handlers,
       [node |-> n, args |-> args, epoch |-> resets,
        roots |-> [w \in Tables |-> root[w][n]]])
  /\ answer' = NoAnswer
  /\ UNCHANGED <<mode, heap, entries, root, last, resets>>

Running == handlers[Len(handlers)]
Outer == SubSeq(handlers, 1, Len(handlers) - 1)

(* The handler is done; the call goes on with the tables it looked up      *)
(* before it ran the handler, and makes those that were not there then.    *)
HandlerReturnsFull ==
  LET f == Running
      c == EnsureRoot(heap, f.roots["cache"])
      p == EnsureRoot(c.heap, f.roots["pending"])
      cp == EnsurePhaseArgsParent(p.heap, c.at, f.args)
      pp == EnsurePhaseArgsParent(cp.heap, p.at, f.args)
      obj == Len(pp.heap) + 1 IN
  /\ mode = "full" /\ handlers # <<>>
  /\ handlers' = Outer
  /\ root' = IF f.epoch # resets THEN root
             ELSE [root EXCEPT
                    !["cache"][f.node] = IF f.roots["cache"] = Nil THEN c.at ELSE @,
                    !["pending"][f.node] = IF f.roots["pending"] = Nil THEN p.at ELSE @]
  /\ heap' = WithRecording([pp.heap EXCEPT ![pp.at].kids[f.args[Len(f.args)]] = obj])
  /\ entries' = Append(entries, Recording(f, obj, cp.at, pp.at))
  /\ Answered("miss", f.node, f.args, obj)
  /\ UNCHANGED <<mode, last, calls, resets>>

HandlerReturnsLast ==
  LET f == Running
      obj == Len(heap) + 1 IN
  /\ mode = "last" /\ handlers # <<>>
  /\ handlers' = Outer
  /\ heap' = WithRecording(heap)
  /\ entries' = Append(entries, Recording(f, obj, Nil, Nil))
  /\ last' = IF f.epoch # resets THEN last
             ELSE [last EXCEPT !["pending"][f.node] = [args |-> f.args, entry |-> Len(entries) + 1]]
  /\ Answered("miss", f.node, f.args, obj)
  /\ UNCHANGED <<mode, root, calls, resets>>

(* miss_triplet raises; the error leaves every handler that is running. *)
HandlerRaises ==
  /\ handlers # <<>>
  /\ handlers' = <<>>
  /\ UNCHANGED <<mode, heap, entries, root, last, answer, calls, resets>>

(* The handler's own triplet: nothing is recorded. *)
CallUncached(n, args) ==
  /\ mode = "none"
  /\ Counted
  /\ Answered("miss", n, args, Nil)
  /\ UNCHANGED <<mode, heap, entries, root, last, handlers, resets>>

(* boundary:cached(node, ...) *)
Cached(n, args) ==
  /\ CacheHit(n, args) # Nil
  /\ Answered("cached", n, args, CacheHit(n, args))
  /\ UNCHANGED <<mode, heap, entries, root, last, handlers, calls, resets>>

-----------------------------------------------------------------------------
(* finish_recording *)

FinishFull(e) ==
  LET x == entries[e]
      slot == x.args[Len(x.args)] IN
  /\ mode = "full"
  /\ ~x.done
  /\ entries' = [entries EXCEPT ![e].done = TRUE]
  /\ heap' = [heap EXCEPT ![x.cacheParent].kids[slot] = x.buf,
                          ![x.pendingParent].kids[slot] = Nil]
  /\ answer' = NoAnswer
  /\ UNCHANGED <<mode, root, last, handlers, calls, resets>>

(* The slot is the node's, whatever arguments are in it by now; after a    *)
(* reset it belongs to tables nobody looks into.                           *)
FinishLast(e) ==
  LET x == entries[e] IN
  /\ mode = "last"
  /\ ~x.done
  /\ entries' = [entries EXCEPT ![e].done = TRUE]
  /\ last' = IF x.epoch # resets THEN last
             ELSE [last EXCEPT !["cache"][x.node] = [args |-> x.args, entry |-> e],
                               !["pending"][x.node] = Empty]
  /\ answer' = NoAnswer
  /\ UNCHANGED <<mode, heap, root, handlers, calls, resets>>

Reset ==
  /\ resets < MaxResets
  /\ resets' = resets + 1
  /\ root' = [w \in Tables |-> [n \in Node |-> Nil]]
  /\ last' = [w \in Tables |-> [n \in Node |-> Empty]]
  /\ answer' = NoAnswer
  /\ UNCHANGED <<mode, heap, entries, handlers, calls>>

Next ==
  \/ \E n \in Node, args \in Tuples :
       \/ CallHit(n, args) \/ CallShared(n, args)
       \/ CallMiss(n, args) \/ CallUncached(n, args)
       \/ Cached(n, args)
  \/ \E e \in 1..Len(entries) : FinishFull(e) \/ FinishLast(e)
  \/ HandlerReturnsFull \/ HandlerReturnsLast \/ HandlerRaises
  \/ Reset

Spec == Init /\ [][Next]_vars

-----------------------------------------------------------------------------
(* What must hold *)

(* The recording e is one for exactly these arguments,   *)
(* begun since the last reset.                                             *)
For(n, args, e) == entries[e].node = n /\ entries[e].args = args /\ entries[e].epoch = resets

(* Extra arguments are dimensions of the key (pvm.lua:268-269): whatever a *)
(* call finds was produced for the same node and the same arguments, a hit *)
(* is the buffer of a finished recording, and one joined is unfinished.    *)
AnswersMatch ==
  answer.how \in {"hit", "cached", "shared"} =>
    \E e \in 1..Len(entries) :
      /\ For(answer.node, answer.args, e)
      /\ IF answer.how = "shared"
           THEN answer.obj = entries[e].obj /\ ~entries[e].done
           ELSE answer.obj = entries[e].buf /\ entries[e].done

(* Mode "full" retains the full argument history of a node: between two    *)
(* resets the handler never runs twice for the same arguments.             *)
FullHistory ==
  mode = "full" =>
    \A e, f \in 1..Len(entries) :
      e # f => \/ entries[e].node # entries[f].node
               \/ entries[e].args # entries[f].args
               \/ entries[e].epoch # entries[f].epoch

=============================================================================
