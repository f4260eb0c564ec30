----------------------------- MODULE PvmNested -----------------------------
(***************************************************************************)
(* pvm.lua: recordings inside recordings.  The handler of an inner node    *)
(* maps the phase over its children (pvm.children): up to three children   *)
(* are called by the handler itself and concatenated (concat2, concat3);   *)
(* of four or more each is called when the pull gets to it (children_gen). *)
(* A pull of an outer recording may so pull, begin and finish inner ones,  *)
(* to any depth, and an error in the middle leaves all of them as far as   *)
(* they had come; the program may pull again.                              *)
(*                                                                         *)
(* The Lua call stack is explicit: a step of the module is what one gen    *)
(* function or the phase's call does between two nested calls.             *)
(***************************************************************************)
EXTENDS Naturals, Sequences

CONSTANTS
  Node,       \* ASDL nodes
  Kids,       \* Kids[n]: the children of n, <<>> for a leaf (pvm.once)
  Rank,       \* Rank[n]: the height of n (nodes are immutable: no cycles)
  Root,       \* the nodes the program itself calls the phase on
  Consumer,   \* the triplets the program holds at the same time
  MaxErrors,  \* bound: errors raised
  CallFails   \* may a handler raise (or be missing) when a pull calls it?

ASSUME TreeAssumption ==
  /\ Kids \in [Node -> Seq(Node)]
  /\ Rank \in [Node -> Nat]
  /\ \A n \in Node : \A i \in 1..Len(Kids[n]) : Rank[Kids[n][i]] < Rank[n]
  /\ Root \subseteq Node

VARIABLES
  cache,    \* cache[n]: the committed recording, or Nil
  pending,  \* pending[n]: the recording in flight, or Nil
  entries,  \* the recordings
  held,     \* what the program holds: a triplet and what it got from it
  frames,   \* the Lua call stack, innermost last
  ret,      \* what the frame that has just ended returns
  errors

vars == <<cache, pending, entries, held, frames, ret, errors>>

Nil == 0
Leaf(n) == Kids[n] = <<>>
Lazy(n) == Len(Kids[n]) >= 4

NoTrip == [kind |-> "none", src |-> Nil, i |-> 0]
NotHeld == [st |-> "idle", node |-> Nil, trip |-> NoTrip, got |-> <<>>]

Nothing == [is |-> "nothing"]
Yield(v) == [is |-> "value", v |-> v]
End == [is |-> "end"]
Triplet(t) == [is |-> "triplet", trip |-> t]

PullFrame(e) == [in |-> "pull", e |-> e]
CallFrame(n) == [in |-> "call", node |-> n, trips |-> <<>>]
UserPull(c) == [in |-> "user", c |-> c]

Init ==
  /\ cache = [n \in Node |-> Nil]
  /\ pending = [n \in Node |-> Nil]
  /\ entries = <<>>
  /\ held = [c \in Consumer |-> NotHeld]
  /\ frames = <<>>
  /\ ret = Nothing
  /\ errors = 0

Top == frames[Len(frames)]
Below == SubSeq(frames, 1, Len(frames) - 1)
Buf(e) == entries[e].buf

-----------------------------------------------------------------------------
(* The phase's call *)

(* Bug: a miss in flight is not looked up. *)
CallPhase_IgnoresPending(n, fs) ==
  IF cache[n] # Nil
  THEN ret' = Triplet([kind |-> "seq", src |-> cache[n], i |-> 0]) /\ frames' = fs
  ELSE ret' = Nothing /\ frames' = Append(fs, CallFrame(n))

(* What phase(n) does at once: a hit or a shared reader is returned to the *)
(* caller, a miss enters the handler.  fs is the stack with the caller on  *)
(* top.                                                                    *)
CallPhase(n, fs) ==
  IF cache[n] # Nil
  THEN ret' = Triplet([kind |-> "seq", src |-> cache[n], i |-> 0]) /\ frames' = fs
  ELSE IF pending[n] # Nil
  THEN ret' = Triplet([kind |-> "rec", src |-> pending[n], i |-> 0]) /\ frames' = fs
  ELSE ret' = Nothing /\ frames' = Append(fs, CallFrame(n))

(* The source of n's recording: at is the child being read; open holds the *)
(* children's triplets (all of them, or just the current one of            *)
(* children_gen); emitted counts what pvm.once has given.                  *)
SourceOf(n, trips) == [at |-> IF Lazy(n) THEN 0 ELSE 1, open |-> trips, emitted |-> 0]

(* The handler has its triplet: the recording begins. *)
Begin(n, trips) ==
  /\ entries' = Append(entries, [node |-> n, buf |-> <<>>, done |-> FALSE, source |-> SourceOf(n, trips)])
  /\ pending' = [pending EXCEPT ![n] = Len(entries) + 1]
  /\ ret' = Triplet([kind |-> "rec", src |-> Len(entries) + 1, i |-> 0])
  /\ frames' = Below

InCall == frames # <<>> /\ Top.in = "call"

(* The handler calls the phase on its next child. *)
HandlerCalls ==
  /\ InCall /\ ret = Nothing
  /\ ~Lazy(Top.node) /\ Len(Top.trips) < Len(Kids[Top.node])
  /\ CallPhase(Kids[Top.node][Len(Top.trips) + 1], frames)
  /\ UNCHANGED <<cache, pending, entries, held, errors>>

HandlerGets ==
  /\ InCall /\ ret.is = "triplet"
  /\ frames' = Append(Below, [Top EXCEPT !.trips = Append(Top.trips, ret.trip)])
  /\ ret' = Nothing
  /\ UNCHANGED <<cache, pending, entries, held, errors>>

HandlerReturns ==
  /\ InCall /\ ret = Nothing
  /\ Lazy(Top.node) \/ Len(Top.trips) = Len(Kids[Top.node])
  /\ Begin(Top.node, Top.trips)
  /\ UNCHANGED <<cache, held, errors>>

-----------------------------------------------------------------------------
(* advance_recording and the gen functions of the sources *)

InPull == frames # <<>> /\ Top.in = "pull"
Pulled == entries[Top.e]
Current == IF Lazy(Pulled.node)
           THEN IF Pulled.source.open = <<>> THEN NoTrip ELSE Pulled.source.open[1]
           ELSE IF Pulled.source.at <= Len(Kids[Pulled.node])
                THEN Pulled.source.open[Pulled.source.at] ELSE NoTrip

WithSource(e, s) == [entries EXCEPT ![e].source = s]

(* Source state with the current child's triplet replaced by t. *)
Moved(s, t) == IF Len(s.open) = 0 THEN s
               ELSE IF Lazy(Pulled.node) THEN [s EXCEPT !.open[1] = t]
               ELSE [s EXCEPT !.open[s.at] = t]

(* Bug: children_gen does not put the ended child aside. *)
Passed_KeepsOpen(s) == IF Lazy(Pulled.node) THEN s ELSE [s EXCEPT !.at = s.at + 1]

(* The current child has nothing more.  concat finds that out by a local   *)
(* variable that an error would lose: asked again, the ended child is      *)
(* still at its end, so moving on for good comes to the same.              *)
Passed(s) == IF Lazy(Pulled.node) THEN [s EXCEPT !.open = <<>>] ELSE [s EXCEPT !.at = s.at + 1]

(* advance_recording: the source gave v. *)
Record(e, s, v) ==
  /\ entries' = [entries EXCEPT ![e] = [@ EXCEPT !.buf = Append(Buf(e), v), !.source = s]]
  /\ ret' = Yield(v)
  /\ frames' = Below
  /\ UNCHANGED <<cache, pending>>

(* finish_recording *)
Commit(e) ==
  /\ entries' = [entries EXCEPT ![e].done = TRUE]
  /\ cache' = [cache EXCEPT ![entries[e].node] = e]
  /\ pending' = [pending EXCEPT ![entries[e].node] = Nil]
  /\ ret' = End
  /\ frames' = Below

PullLeaf ==
  /\ InPull /\ ret = Nothing /\ Leaf(Pulled.node)
  /\ IF Pulled.source.emitted = 0
       THEN Record(Top.e, [Pulled.source EXCEPT !.emitted = 1], Pulled.node)
       ELSE Commit(Top.e)
  /\ UNCHANGED <<held, errors>>

(* The current child's triplet is asked for its next element. *)
PullChild ==
  LET t == Current
      e == Top.e IN
  /\ InPull /\ ret = Nothing /\ ~Leaf(Pulled.node)
  /\ t # NoTrip
  /\ CASE t.i < Len(Buf(t.src)) ->
            Record(e, Moved(Pulled.source, [t EXCEPT !.i = t.i + 1]), Buf(t.src)[t.i + 1])
       [] t.i >= Len(Buf(t.src)) /\ entries[t.src].done ->
            /\ entries' = WithSource(e, Passed(Pulled.source))
            /\ UNCHANGED <<cache, pending, frames, ret>>
       [] OTHER ->
            /\ frames' = Append(frames, PullFrame(t.src))
            /\ UNCHANGED <<cache, pending, entries, ret>>
  /\ UNCHANGED <<held, errors>>

(* Bug: concat is over when a child is. *)
ChildAnswers_EndsConcat ==
  LET t == Current IN
  /\ InPull
  /\ \/ /\ ret.is = "value"
        /\ Record(Top.e, Moved(Pulled.source, [t EXCEPT !.i = t.i + 1]), ret.v)
     \/ ret.is = "end" /\ Commit(Top.e)
  /\ UNCHANGED <<held, errors>>

(* Bug: the child's index is not stored back. *)
ChildAnswers_LosesIndex ==
  /\ InPull
  /\ \/ ret.is = "value" /\ Record(Top.e, Pulled.source, ret.v)
     \/ /\ ret.is = "end"
        /\ entries' = WithSource(Top.e, Passed(Pulled.source))
        /\ ret' = Nothing
        /\ UNCHANGED <<cache, pending, frames>>
  /\ UNCHANGED <<held, errors>>

(* ... and the recording it advanced answers. *)
ChildAnswers ==
  LET t == Current IN
  /\ InPull
  /\ \/ /\ ret.is = "value"
        /\ Record(Top.e, Moved(Pulled.source, [t EXCEPT !.i = t.i + 1]), ret.v)
     \/ /\ ret.is = "end"
        /\ entries' = WithSource(Top.e, Passed(Pulled.source))
        /\ ret' = Nothing
        /\ UNCHANGED <<cache, pending, frames>>
  /\ UNCHANGED <<held, errors>>

(* Bug: the last child is not gone through. *)
PullExhausted_OneShort ==
  /\ InPull /\ ret = Nothing /\ ~Leaf(Pulled.node)
  /\ Current = NoTrip
  /\ Pulled.source.at >= Len(Kids[Pulled.node]) - 1
  /\ Commit(Top.e)
  /\ UNCHANGED <<held, errors>>

(* concat's last child has ended, or children_gen has gone through all. *)
PullExhausted ==
  /\ InPull /\ ret = Nothing /\ ~Leaf(Pulled.node)
  /\ Current = NoTrip
  /\ Pulled.source.at >= Len(Kids[Pulled.node])
  /\ Commit(Top.e)
  /\ UNCHANGED <<held, errors>>

(* children_gen: the index moves on before the child's phase is called.    *)
PullNextChild ==
  LET i == Pulled.source.at + 1 IN
  /\ InPull /\ ret = Nothing /\ Lazy(Pulled.node)
  /\ Current = NoTrip /\ i <= Len(Kids[Pulled.node])
  /\ entries' = WithSource(Top.e, [Pulled.source EXCEPT !.at = i])
  /\ CallPhase(Kids[Pulled.node][i], frames)
  /\ UNCHANGED <<cache, pending, held, errors>>

ChildCalled ==
  /\ InPull /\ ret.is = "triplet"
  /\ entries' = WithSource(Top.e, [Pulled.source EXCEPT !.open = <<ret.trip>>])
  /\ ret' = Nothing
  /\ UNCHANGED <<cache, pending, held, frames, errors>>

-----------------------------------------------------------------------------
(* The program *)

Quiet == frames = <<>>

UserCalls(c, n) ==
  /\ Quiet
  /\ held[c].st = "idle"
  /\ n \in Root
  /\ held' = [held EXCEPT ![c] = [st |-> "calling", node |-> n, trip |-> NoTrip, got |-> <<>>]]
  /\ CallPhase(n, <<UserPull(c)>>)
  /\ UNCHANGED <<cache, pending, entries, errors>>

InUser == frames # <<>> /\ Top.in = "user"

UserGetsTriplet ==
  /\ InUser /\ ret.is = "triplet"
  /\ held' = [held EXCEPT ![Top.c].st = "open", ![Top.c].trip = ret.trip]
  /\ frames' = <<>> /\ ret' = Nothing
  /\ UNCHANGED <<cache, pending, entries, errors>>

(* seq_gen and recording_gen, called by the program *)
UserPulls(c) ==
  LET t == held[c].trip IN
  /\ Quiet
  /\ held[c].st = "open"
  /\ IF t.i >= Len(Buf(t.src)) /\ ~entries[t.src].done
     THEN frames' = <<UserPull(c), PullFrame(t.src)>> /\ UNCHANGED <<held, ret>>
     ELSE /\ held' = IF t.i < Len(Buf(t.src))
                     THEN [held EXCEPT ![c].trip.i = t.i + 1,
                                       ![c].got = Append(held[c].got, Buf(t.src)[t.i + 1])]
                     ELSE [held EXCEPT ![c].st = "done"]
          /\ UNCHANGED <<frames, ret>>
  /\ UNCHANGED <<cache, pending, entries, errors>>

UserGets ==
  /\ InUser
  /\ \/ /\ ret.is = "value"
        /\ held' = [held EXCEPT ![Top.c].trip.i = held[Top.c].trip.i + 1,
                                ![Top.c].got = Append(held[Top.c].got, ret.v)]
     \/ ret.is = "end" /\ held' = [held EXCEPT ![Top.c].st = "done"]
  /\ frames' = <<>> /\ ret' = Nothing
  /\ UNCHANGED <<cache, pending, entries, errors>>

UserDrops(c) ==
  /\ Quiet
  /\ held[c].st \in {"open", "done"}
  /\ held' = [held EXCEPT ![c] = NotHeld]
  /\ UNCHANGED <<cache, pending, entries, frames, ret, errors>>

(* An error passes the whole stack; what was assigned on the way stays.    *)
(* It comes out of a leaf's source, or of a handler: one the program's own *)
(* call runs, directly or through other handlers, or one a pull runs.      *)
CallByPull == \E j \in 1..Len(frames) : frames[j].in = "pull"

Raise ==
  /\ errors < MaxErrors
  /\ ret = Nothing
  /\ \/ InPull /\ Leaf(Pulled.node)
     \/ InCall /\ (CallByPull => CallFails)
  /\ errors' = errors + 1
  /\ frames' = <<>>
  /\ held' = [c \in Consumer |-> IF held[c].st = "calling" THEN NotHeld ELSE held[c]]
  /\ UNCHANGED <<cache, pending, entries, ret>>

Machine ==
  \/ HandlerCalls \/ HandlerGets \/ HandlerReturns
  \/ PullLeaf \/ PullChild \/ ChildAnswers \/ PullExhausted \/ PullNextChild \/ ChildCalled
  \/ UserGetsTriplet \/ UserGets

Next ==
  \/ Machine
  \/ \E c \in Consumer : UserPulls(c) \/ UserDrops(c)
  \/ \E c \in Consumer, n \in Root : UserCalls(c, n)
  \/ Raise

Spec == Init /\ [][Next]_vars

(* A function that was called runs until it returns. *)
FairSpec == Spec /\ WF_vars(Machine)

-----------------------------------------------------------------------------
(* What must hold *)

(* Concat(ss)[i]: the first i of the sequences ss, one after the other. *)
Concat(ss) ==
  LET cat[i \in 0..Len(ss)] == IF i = 0 THEN <<>> ELSE cat[i - 1] \o ss[i]
  IN cat

(* The output of n by definition: the leaves below it, from left to right. *)
Flat ==
  LET upto[k \in Nat] ==
        IF k = 0 THEN [n \in Node |-> <<n>>]
        ELSE [n \in Node |->
               IF Leaf(n) THEN <<n>>
               ELSE Concat([i \in 1..Len(Kids[n]) |-> upto[k - 1][Kids[n][i]]])[Len(Kids[n])]]
  IN [n \in Node |-> upto[Rank[n]][n]]

IsPrefixOf(s, t) == Len(s) <= Len(t) /\ \A i \in 1..Len(s) : s[i] = t[i]

(* What is committed for a node, whoever's pull finished it and whatever   *)
(* errors came between, is the concatenation of its children's output.     *)
CommitFlat == \A n \in Node : cache[n] # Nil => Buf(cache[n]) = Flat[n]

(* The program gets the leaves in order, each once. *)
HeldExact ==
  \A c \in Consumer : held[c].st \in {"open", "done"} =>
    /\ IsPrefixOf(held[c].got, Flat[held[c].node])
    /\ held[c].st = "done" => held[c].got = Flat[held[c].node]

(* "Full drain commits all exhausted intermediate caches as side effects"  *)
(* (pvm.lua:23): a committed node has committed children.                  *)
InnerFirst ==
  \A n \in Node : cache[n] # Nil =>
    \A i \in 1..Len(Kids[n]) : cache[Kids[n][i]] # Nil

(* A node shared by several parents, or several times by one, is recorded  *)
(* once: its handler never completes twice.                                *)
OncePerNode ==
  \A e, f \in 1..Len(entries) : entries[e].node = entries[f].node => e = f

(* Every call and every pull returns. *)
Returns == frames # <<>> ~> frames = <<>>
=============================================================================
