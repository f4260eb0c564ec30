-------------------------- MODULE PvmNested_proofs --------------------------
(***************************************************************************)
(* What TLAPS proves about PvmNested: for every tree, any number of        *)
(* consumers and any number of errors.  Structure says how the tables, the *)
(* recordings, the children's triplets and the call stack fit together,    *)
(* and is inductive by itself; Contents says what the recordings hold, and *)
(* is inductive given Structure if no handler fails under a pull.          *)
(***************************************************************************)
EXTENDS PvmNested, DataInduction, SequenceTheorems

-----------------------------------------------------------------------------
(* The types of the variables *)

Trip == [kind : {"seq", "rec"}, src : Nat, i : Nat]
Source == [at : Nat, open : Seq(Trip), emitted : {0, 1}]
Entry == [node : Node, buf : Seq(Node), done : BOOLEAN, source : Source]

PullFrames == [in : {"pull"}, e : Nat]
CallFrames == [in : {"call"}, node : Node, trips : Seq(Trip)]
UserFrames == [in : {"user"}, c : Consumer]
Frame == PullFrames \cup CallFrames \cup UserFrames

Answer == {Nothing, End} \cup [is : {"value"}, v : Node] \cup [is : {"triplet"}, trip : Trip]

Hold == [st : {"idle", "calling", "open", "done"}, node : Node \cup {Nil},
         trip : Trip \cup {NoTrip}, got : Seq(Node)]

Types ==
  /\ cache \in [Node -> Nat]
  /\ pending \in [Node -> Nat]
  /\ entries \in Seq(Entry)
  /\ held \in [Consumer -> Hold]
  /\ frames \in Seq(Frame)
  /\ ret \in Answer
  /\ errors \in Nat

-----------------------------------------------------------------------------
(* The recordings and their sources *)

(* t reads a recording of n. *)
Reads(t, n) ==
  /\ t \in Trip
  /\ t.src \in 1..Len(entries)
  /\ entries[t.src].node = n
  /\ t.i <= Len(Buf(t.src))

(* The tables and the recordings name each other. *)
Tables ==
  /\ \A n \in Node :
       /\ cache[n] # Nil => /\ cache[n] \in 1..Len(entries)
                            /\ entries[cache[n]].node = n
                            /\ entries[cache[n]].done
       /\ pending[n] # Nil => /\ pending[n] \in 1..Len(entries)
                              /\ entries[pending[n]].node = n
                              /\ ~entries[pending[n]].done
  /\ \A e \in 1..Len(entries) :
       IF entries[e].done THEN cache[entries[e].node] = e /\ pending[entries[e].node] = Nil
                          ELSE pending[entries[e].node] = e /\ cache[entries[e].node] = Nil

(* The children's triplets of a recording read recordings of the children. *)
SourceOK(e) ==
  LET s == entries[e].source
      n == entries[e].node IN
  IF Lazy(n)
  THEN /\ Len(s.open) <= 1
       /\ s.at <= Len(Kids[n])
       /\ s.open # <<>> => s.at >= 1 /\ Reads(s.open[1], Kids[n][s.at])
  ELSE /\ Len(s.open) = Len(Kids[n])
       /\ s.at \in 1..(Len(Kids[n]) + 1)
       /\ \A i \in 1..Len(Kids[n]) : Reads(s.open[i], Kids[n][i])

Sources == \A e \in 1..Len(entries) : SourceOK(e)

(* e is in the middle of a child, and the child's triplet. *)
HasChild(e) ==
  IF Lazy(entries[e].node) THEN entries[e].source.open # <<>>
  ELSE entries[e].source.at <= Len(Kids[entries[e].node])
ChildOf(e) ==
  IF Lazy(entries[e].node) THEN entries[e].source.open[1]
  ELSE entries[e].source.open[entries[e].source.at]

(* e has moved on to a child whose phase it has yet to call. *)
Asks(e, n) ==
  /\ Lazy(entries[e].node)
  /\ entries[e].source.open = <<>>
  /\ entries[e].source.at \in 1..Len(Kids[entries[e].node])
  /\ n = Kids[entries[e].node][entries[e].source.at]

-----------------------------------------------------------------------------
(* The call stack *)

NodeOf(f) == IF f.in = "pull" THEN entries[f.e].node ELSE f.node

FrameOK(f) ==
  /\ f.in = "pull" => f.e \in 1..Len(entries) /\ ~entries[f.e].done
  /\ f.in = "call" =>
       /\ cache[f.node] = Nil /\ pending[f.node] = Nil
       /\ Lazy(f.node) => f.trips = <<>>
       /\ Len(f.trips) <= Len(Kids[f.node])
       /\ \A i \in 1..Len(f.trips) : Reads(f.trips[i], Kids[f.node][i]) /\ f.trips[i].i = 0

(* The program's frame is at the bottom; nodes get lower towards the top;  *)
(* a handler calls handlers only.                                          *)
Stack ==
  /\ \A j \in 1..Len(frames) : (frames[j].in = "user" <=> j = 1) /\ FrameOK(frames[j])
  /\ \A j, k \in 2..Len(frames) : j < k =>
       /\ Rank[NodeOf(frames[k])] < Rank[NodeOf(frames[j])]
       /\ frames[j].in = "call" => frames[k].in = "call"

(* The handler in f is about to call the phase on n. *)
CallsNext(f, n) ==
  /\ ~Lazy(f.node)
  /\ Len(f.trips) < Len(Kids[f.node])
  /\ n = Kids[f.node][Len(f.trips) + 1]

(* What f waits for is what g, above it, is doing. *)
Link(f, g) ==
  /\ f.in = "user" /\ g.in = "call" => held[f.c].st = "calling" /\ held[f.c].node = g.node
  /\ f.in = "user" /\ g.in = "pull" =>
       held[f.c].st = "open" /\ held[f.c].trip.src = g.e /\ held[f.c].trip.i = Len(Buf(g.e))
  /\ f.in = "call" => g.in = "call" /\ CallsNext(f, g.node)
  /\ f.in = "pull" /\ g.in = "call" => Asks(f.e, g.node)
  /\ f.in = "pull" /\ g.in = "pull" =>
       HasChild(f.e) /\ ChildOf(f.e).src = g.e /\ ChildOf(f.e).i = Len(Buf(g.e))

Links == \A j \in 2..Len(frames) : Link(frames[j - 1], frames[j])

(* What ret says to a frame that reads t. *)
Told(t) ==
  \/ ret.is = "value" /\ t.i + 1 = Len(Buf(t.src)) /\ ret.v = Buf(t.src)[t.i + 1]
  \/ ret.is = "end" /\ t.i = Len(Buf(t.src)) /\ entries[t.src].done

(* What has just been returned is what the frame on top waits for. *)
Answers ==
  /\ ret # Nothing => frames # <<>>
  /\ frames # <<>> /\ Top.in = "user" =>
       \/ /\ ret.is = "triplet" /\ ret.trip.i = 0
          /\ held[Top.c].st = "calling" /\ Reads(ret.trip, held[Top.c].node)
       \/ held[Top.c].st = "open" /\ Told(held[Top.c].trip)
  /\ frames # <<>> /\ Top.in = "call" /\ ret # Nothing =>
       /\ ret.is = "triplet" /\ ret.trip.i = 0
       /\ \E n \in Node : CallsNext(Top, n) /\ Reads(ret.trip, n)
  /\ frames # <<>> /\ Top.in = "pull" /\ ret # Nothing =>
       \/ /\ ret.is = "triplet" /\ ret.trip.i = 0
          /\ \E n \in Node : Asks(Top.e, n) /\ Reads(ret.trip, n)
       \/ HasChild(Top.e) /\ Told(ChildOf(Top.e))

(* What the program has of a triplet is what the recording had up to there. *)
Holds ==
  \A c \in Consumer :
    /\ held[c].st = "calling" =>
         /\ held[c].node \in Node /\ held[c].got = <<>>
         /\ frames # <<>> /\ frames[1] = UserPull(c)
    /\ held[c].st \in {"open", "done"} =>
         /\ held[c].node \in Node
         /\ Reads(held[c].trip, held[c].node)
         /\ held[c].got = SubSeq(Buf(held[c].trip.src), 1, held[c].trip.i)
    /\ held[c].st = "done" =>
         entries[held[c].trip.src].done /\ held[c].trip.i = Len(Buf(held[c].trip.src))

Structure == Types /\ Tables /\ Sources /\ Stack /\ Links /\ Answers /\ Holds

-----------------------------------------------------------------------------
(* The contents of the recordings *)

(* The output of the first j children of n. *)
Given(n, j) == Concat([i \in 1..Len(Kids[n]) |-> Flat[Kids[n][i]]])[j]

(* e waits for its next child's triplet, on the stack fs when r is          *)
(* returned.                                                               *)
AwaitsOn(fs, r, e) ==
  \E j \in 1..Len(fs) :
    /\ fs[j] = PullFrame(e)
    /\ IF j = Len(fs) THEN r.is = "triplet" ELSE fs[j + 1].in = "call"
Awaits(e) == AwaitsOn(frames, ret, e)

(* So many children are behind e. *)
Behind(e) ==
  LET at == entries[e].source.at IN
  IF Lazy(entries[e].node) /\ ~HasChild(e) /\ ~Awaits(e) THEN at ELSE at - 1

(* What e has of the child it is in the middle of. *)
Part(e) == IF HasChild(e) THEN SubSeq(Buf(ChildOf(e).src), 1, ChildOf(e).i) ELSE <<>>

(* A recording has what its leaf or its children give, up to where its     *)
(* source is; the children behind it are committed.                        *)
ContentOK(e) ==
  LET n == entries[e].node
      s == entries[e].source IN
  /\ Leaf(n) => Buf(e) = (IF s.emitted = 0 THEN <<>> ELSE <<n>>) /\ (entries[e].done => s.emitted = 1)
  /\ ~Leaf(n) =>
       /\ Buf(e) = Given(n, Behind(e)) \o Part(e)
       /\ \A j \in 1..Behind(e) : cache[Kids[n][j]] # Nil
       /\ entries[e].done => Behind(e) = Len(Kids[n]) /\ ~HasChild(e)
       /\ ~Lazy(n) => \A j \in 1..Len(Kids[n]) : j > s.at => s.open[j].i = 0
  /\ IsPrefixOf(Buf(e), Flat[n])

Contents == \A e \in 1..Len(entries) : ContentOK(e)

-----------------------------------------------------------------------------
(* What the operators of the model do to well-typed values *)

LEMMA SeqPrefix ==
  ASSUME NEW S, NEW s \in Seq(S), NEW k \in 0..Len(s)
  PROVE  /\ SubSeq(s, 1, k) \in Seq(S)
         /\ Len(SubSeq(s, 1, k)) = k
         /\ \A j \in 1..k : SubSeq(s, 1, k)[j] = s[j]
<1>1. \A j \in 1..k : s[j] \in S
  OBVIOUS
<1>2. /\ SubSeq(s, 1, k) \in Seq(S)
      /\ Len(SubSeq(s, 1, k)) = IF 1 <= k THEN k - 1 + 1 ELSE 0
      /\ \A j \in 1..(k - 1 + 1) : SubSeq(s, 1, k)[j] = s[1 + j - 1]
  BY <1>1, SubSeqProperties
<1>. QED BY <1>2

LEMMA FrameKinds ==
  ASSUME NEW f \in Frame
  PROVE  /\ f.in = "pull" <=> f \in PullFrames
         /\ f.in = "call" <=> f \in CallFrames
         /\ f.in = "user" <=> f \in UserFrames
         /\ f.in \in {"pull", "call", "user"}
BY DEF Frame, PullFrames, CallFrames, UserFrames

(* The frame on top, and what a pop leaves. *)
LEMMA StackFacts ==
  ASSUME Types, frames # <<>>
  PROVE  /\ Len(frames) \in Nat \ {0}
         /\ Top \in Frame
         /\ Below \in Seq(Frame)
         /\ Len(Below) = Len(frames) - 1
         /\ \A j \in 1..(Len(frames) - 1) : Below[j] = frames[j]
<1>1. frames \in Seq(Frame) /\ Len(frames) \in Nat \ {0}
  BY DEF Types
<1>2. Top \in Frame
  BY <1>1 DEF Top
<1>3. Len(frames) - 1 \in 0..Len(frames)
  BY <1>1
<1>4. /\ Below \in Seq(Frame)
      /\ Len(Below) = Len(frames) - 1
      /\ \A j \in 1..(Len(frames) - 1) : Below[j] = frames[j]
  <2>. DEFINE k == Len(frames) - 1
  <2>1. frames \in Seq(Frame) /\ k \in 0..Len(frames)
    BY <1>1, <1>3
  <2>. HIDE DEF k
  <2>2. /\ SubSeq(frames, 1, k) \in Seq(Frame)
        /\ Len(SubSeq(frames, 1, k)) = k
        /\ \A j \in 1..k : SubSeq(frames, 1, k)[j] = frames[j]
    BY <2>1, SeqPrefix
  <2>. QED BY <2>2 DEF Below, k
<1>. QED BY <1>1, <1>2, <1>4

LEMMA PushFacts ==
  ASSUME Types, NEW g \in Frame
  PROVE  /\ Append(frames, g) \in Seq(Frame)
         /\ Len(Append(frames, g)) = Len(frames) + 1
         /\ Append(frames, g)[Len(frames) + 1] = g
         /\ \A j \in 1..Len(frames) : Append(frames, g)[j] = frames[j]
BY AppendProperties DEF Types

LEMMA TreeFacts ==
  ASSUME NEW n \in Node
  PROVE  /\ Kids[n] \in Seq(Node)
         /\ Len(Kids[n]) \in Nat
         /\ Rank[n] \in Nat
         /\ \A i \in 1..Len(Kids[n]) : Kids[n][i] \in Node /\ Rank[Kids[n][i]] < Rank[n]
         /\ Leaf(n) <=> Len(Kids[n]) = 0
         /\ Leaf(n) => ~Lazy(n)
BY TreeAssumption DEF Leaf, Lazy

LEMMA EntryFacts ==
  ASSUME Types, NEW e \in 1..Len(entries)
  PROVE  /\ entries[e] \in Entry
         /\ entries[e].node \in Node
         /\ Buf(e) \in Seq(Node)
         /\ Len(Buf(e)) \in Nat
         /\ entries[e].done \in BOOLEAN
         /\ entries[e].source \in Source
         /\ entries[e].source.at \in Nat
         /\ entries[e].source.open \in Seq(Trip)
         /\ Len(entries[e].source.open) \in Nat
         /\ entries[e].source.emitted \in {0, 1}
<1>1. entries[e] \in Entry
  BY DEF Types
<1>2. /\ entries[e].node \in Node
      /\ Buf(e) \in Seq(Node)
      /\ entries[e].done \in BOOLEAN
      /\ entries[e].source \in Source
  BY <1>1 DEF Entry, Buf
<1>3. /\ entries[e].source.at \in Nat
      /\ entries[e].source.open \in Seq(Trip)
      /\ entries[e].source.emitted \in {0, 1}
  BY <1>2 DEF Source
<1>. QED BY <1>1, <1>2, <1>3, LenProperties

(* The child a recording is in the middle of. *)
LEMMA ChildFacts ==
  ASSUME Types, NEW e \in 1..Len(entries), SourceOK(e), HasChild(e)
  PROVE  /\ ~Leaf(entries[e].node)
         /\ entries[e].source.at \in 1..Len(Kids[entries[e].node])
         /\ Reads(ChildOf(e), Kids[entries[e].node][entries[e].source.at])
         /\ entries[e].source.open # <<>>
BY EntryFacts, TreeFacts, SMTT(60) DEF SourceOK, HasChild, ChildOf, Lazy, Leaf

(* A frame that pulls: the model's current child is the one just named. *)
LEMMA PullFacts ==
  ASSUME Types, Sources, Stack, InPull
  PROVE  /\ Top \in PullFrames
         /\ Top.e \in 1..Len(entries)
         /\ Pulled = entries[Top.e]
         /\ ~Pulled.done
         /\ SourceOK(Top.e)
         /\ HasChild(Top.e) => Current = ChildOf(Top.e)
         /\ Current # NoTrip <=> HasChild(Top.e)
<1>1. Top \in PullFrames /\ Top = frames[Len(frames)] /\ Len(frames) \in 1..Len(frames)
  BY StackFacts, FrameKinds DEF InPull, Top
<1>2. Top.e \in 1..Len(entries) /\ ~entries[Top.e].done /\ Pulled = entries[Top.e]
  BY <1>1, FrameKinds DEF Stack, FrameOK, PullFrames, Pulled
<1>3. SourceOK(Top.e)
  BY <1>2 DEF Sources
<1>4. HasChild(Top.e) => Current = ChildOf(Top.e)
  BY <1>2, EntryFacts, TreeFacts DEF HasChild, ChildOf, Current
<1>5. ASSUME HasChild(Top.e) PROVE Current # NoTrip
  <2>1. Current \in Trip
    BY <1>2, <1>3, <1>4, <1>5, ChildFacts DEF Reads
  <2>. QED BY <2>1 DEF Trip, NoTrip
<1>6. ASSUME ~HasChild(Top.e) PROVE Current = NoTrip
  BY <1>2, <1>6, EntryFacts, TreeFacts DEF HasChild, Current
<1>. QED BY <1>1, <1>2, <1>3, <1>4, <1>5, <1>6

-----------------------------------------------------------------------------
(* What the steps do to the recordings *)

(* Recordings keep their nodes and grow; one that is done stays as it is. *)
Grown ==
  /\ Len(entries') \in Nat /\ Len(entries) <= Len(entries')
  /\ \A e \in 1..Len(entries) :
       /\ entries'[e].node = entries[e].node
       /\ Len(entries'[e].buf) \in Nat /\ Len(Buf(e)) <= Len(entries'[e].buf)
       /\ \A i \in 1..Len(Buf(e)) : entries'[e].buf[i] = Buf(e)[i]
       /\ entries[e].done => entries'[e].done /\ entries'[e].buf = Buf(e)

(* Apart from e's buffer and source nothing changes. *)
OnlyAt(e) ==
  /\ entries' \in Seq(Entry)
  /\ Len(entries') = Len(entries)
  /\ \A f \in 1..Len(entries) :
       /\ entries'[f].node = entries[f].node
       /\ entries'[f].done = entries[f].done
       /\ f # e => entries'[f] = entries[f]

LEMMA UnchangedEffect ==
  ASSUME Types, UNCHANGED entries
  PROVE  Grown /\ \A e : OnlyAt(e)
BY EntryFacts DEF Grown, OnlyAt, Types, Buf

(* e is replaced by x. *)
LEMMA Replaced ==
  ASSUME Types, NEW e \in 1..Len(entries), NEW x \in Entry, entries' = [entries EXCEPT ![e] = x]
  PROVE  /\ entries' \in Seq(Entry)
         /\ Len(entries') = Len(entries)
         /\ entries'[e] = x
         /\ \A f \in 1..Len(entries) : f # e => entries'[f] = entries[f]
BY ExceptSeq DEF Types

LEMMA RecordEffect ==
  ASSUME Types, NEW e \in 1..Len(entries), ~entries[e].done, NEW s \in Source, NEW v \in Node,
         entries' = [entries EXCEPT ![e] = [@ EXCEPT !.buf = Append(Buf(e), v), !.source = s]]
  PROVE  /\ OnlyAt(e)
         /\ entries'[e].buf = Append(Buf(e), v)
         /\ entries'[e].source = s
         /\ Grown
<1>1. entries \in Seq(Entry) /\ Buf(e) \in Seq(Node) /\ entries[e] \in Entry
  BY EntryFacts DEF Types
<1>2. Append(Buf(e), v) \in Seq(Node)
  BY <1>1
<1>3. PICK x : x = [entries[e] EXCEPT !.buf = Append(Buf(e), v), !.source = s]
  OBVIOUS
<1>4. /\ x \in Entry /\ x.node = entries[e].node /\ x.done = entries[e].done
      /\ x.buf = Append(Buf(e), v) /\ x.source = s
  BY <1>1, <1>2, <1>3 DEF Entry
<1>5. OnlyAt(e) /\ entries'[e].buf = Append(Buf(e), v) /\ entries'[e].source = s
  <2>1. entries' = [entries EXCEPT ![e] = x]
    BY <1>3
  <2>2. /\ entries' \in Seq(Entry) /\ Len(entries') = Len(entries) /\ entries'[e] = x
        /\ \A f \in 1..Len(entries) : f # e => entries'[f] = entries[f]
    BY <1>4, <2>1, Replaced
  <2>. QED BY <1>4, <2>2 DEF OnlyAt
<1>6. Grown
  <2>1. \A f \in 1..Len(entries) : f # e => entries'[f] = entries[f]
    BY <1>5 DEF OnlyAt
  <2>2. Len(Append(Buf(e), v)) = Len(Buf(e)) + 1
        /\ \A i \in 1..Len(Buf(e)) : Append(Buf(e), v)[i] = Buf(e)[i]
    BY <1>1
  <2>. QED BY <1>1, <1>5, <2>1, <2>2, EntryFacts DEF OnlyAt, Grown, Buf
<1>. QED BY <1>5, <1>6

LEMMA SourceEffect ==
  ASSUME Types, NEW e \in 1..Len(entries), NEW s \in Source, entries' = WithSource(e, s)
  PROVE  /\ OnlyAt(e)
         /\ entries'[e].buf = Buf(e)
         /\ entries'[e].source = s
         /\ Grown
<1>1. entries \in Seq(Entry) /\ Buf(e) \in Seq(Node) /\ entries[e] \in Entry
  BY EntryFacts DEF Types
<1>2. PICK x : x = [entries[e] EXCEPT !.source = s]
  OBVIOUS
<1>3. /\ x \in Entry /\ x.node = entries[e].node /\ x.done = entries[e].done
      /\ x.buf = Buf(e) /\ x.source = s
  BY <1>1, <1>2 DEF Entry, Buf
<1>4. OnlyAt(e) /\ entries'[e].buf = Buf(e) /\ entries'[e].source = s
  <2>1. entries' = [entries EXCEPT ![e] = x]
    BY <1>2 DEF WithSource
  <2>2. /\ entries' \in Seq(Entry) /\ Len(entries') = Len(entries) /\ entries'[e] = x
        /\ \A f \in 1..Len(entries) : f # e => entries'[f] = entries[f]
    BY <1>3, <2>1, Replaced
  <2>. QED BY <1>3, <2>2 DEF OnlyAt
<1>5. Grown
  <2>1. \A f \in 1..Len(entries) : entries'[f].buf = Buf(f)
    BY <1>4 DEF OnlyAt, Buf
  <2>. QED BY <1>1, <1>4, <2>1, EntryFacts DEF OnlyAt, Grown
<1>. QED BY <1>4, <1>5

LEMMA CommitEffect ==
  ASSUME Types, NEW e \in 1..Len(entries), Commit(e)
  PROVE  /\ entries' \in Seq(Entry)
         /\ Len(entries') = Len(entries)
         /\ \A f \in 1..Len(entries) :
              /\ entries'[f].node = entries[f].node
              /\ entries'[f].buf = Buf(f)
              /\ entries'[f].source = entries[f].source
              /\ entries'[f].done = (f = e \/ entries[f].done)
              /\ f # e => entries'[f] = entries[f]
         /\ Grown
<1>1. entries \in Seq(Entry) /\ Buf(e) \in Seq(Node) /\ entries[e] \in Entry
  BY EntryFacts DEF Types
<1>2. PICK d, x : d = TRUE /\ x = [entries[e] EXCEPT !.done = d]
  BY Zenon
<1>3. /\ x \in Entry /\ x.node = entries[e].node /\ x.done = TRUE
      /\ x.buf = Buf(e) /\ x.source = entries[e].source
  BY <1>1, <1>2 DEF Entry, Buf
<1>4. /\ entries' \in Seq(Entry)
      /\ Len(entries') = Len(entries)
      /\ \A f \in 1..Len(entries) :
           /\ entries'[f].node = entries[f].node
           /\ entries'[f].buf = Buf(f)
           /\ entries'[f].source = entries[f].source
           /\ entries'[f].done = (f = e \/ entries[f].done)
           /\ f # e => entries'[f] = entries[f]
  <2>1. entries' = [entries EXCEPT ![e] = x]
    BY <1>2 DEF Commit
  <2>2. /\ entries' \in Seq(Entry) /\ Len(entries') = Len(entries) /\ entries'[e] = x
        /\ \A f \in 1..Len(entries) : f # e => entries'[f] = entries[f]
    BY <1>3, <2>1, Replaced
  <2>3. \A f \in 1..Len(entries) : entries[f].done \in BOOLEAN
    BY EntryFacts
  <2>. QED BY <1>3, <2>2, <2>3 DEF Buf
<1>5. Grown
  BY <1>1, <1>4, EntryFacts DEF Grown
<1>. QED BY <1>4, <1>5

LEMMA BeginEffect ==
  ASSUME Types, NEW n \in Node, NEW trips \in Seq(Trip), Begin(n, trips)
  PROVE  /\ entries' \in Seq(Entry)
         /\ Len(entries') = Len(entries) + 1
         /\ \A f \in 1..Len(entries) : entries'[f] = entries[f]
         /\ LET new == entries'[Len(entries) + 1] IN
              /\ new.node = n /\ new.buf = <<>> /\ ~new.done
              /\ new.source = SourceOf(n, trips)
         /\ Grown
<1>1. entries \in Seq(Entry)
  BY DEF Types
<1>. DEFINE new == [node |-> n, buf |-> <<>>, done |-> FALSE, source |-> SourceOf(n, trips)]
<1>2. SourceOf(n, trips) \in Source
  BY DEF SourceOf, Source
<1>3. new \in Entry
  BY <1>2 DEF Entry
<1>4. entries' = Append(entries, new)
  BY DEF Begin
<1>5. /\ entries' \in Seq(Entry)
      /\ Len(entries') = Len(entries) + 1
      /\ \A f \in 1..Len(entries) : entries'[f] = entries[f]
      /\ entries'[Len(entries) + 1] = new
  <2>. HIDE DEF new
  <2>. QED BY <1>1, <1>3, <1>4, AppendProperties
<1>6. Grown
  BY <1>1, <1>5, EntryFacts DEF Grown, Buf
<1>. QED BY <1>5, <1>6

(* What read a recording goes on reading it. *)
LEMMA ReadsStays ==
  ASSUME Grown, NEW t, NEW n, Reads(t, n)
  PROVE  Reads(t, n)'
BY DEF Grown, Reads, Buf, Trip

-----------------------------------------------------------------------------
(* The parts of the invariant that a step does not touch *)

LEMMA TablesStay ==
  ASSUME Types, Tables, NEW e, OnlyAt(e), UNCHANGED <<cache, pending>>
  PROVE  Tables'
<1>1. \A n \in Node : cache'[n] = cache[n] /\ pending'[n] = pending[n]
  OBVIOUS
<1>2. \A f \in 1..Len(entries) : entries'[f].node = entries[f].node /\ entries'[f].done = entries[f].done
  BY DEF OnlyAt
<1>3. Len(entries') = Len(entries)
  BY DEF OnlyAt
<1>4. \A f \in 1..Len(entries) : entries[f].node \in Node
  BY EntryFacts
<1>. QED BY <1>1, <1>2, <1>3, <1>4 DEF Tables

LEMMA SourceStays ==
  ASSUME Types, Grown, NEW e \in 1..Len(entries), SourceOK(e),
         entries'[e].source.at = entries[e].source.at,
         entries'[e].source.open = entries[e].source.open
  PROVE  SourceOK(e)'
<1>1. entries'[e].node = entries[e].node
  BY DEF Grown
<1>2. \A t, n : Reads(t, n) => Reads(t, n)'
  BY ReadsStays
<1>. QED BY <1>1, <1>2 DEF SourceOK

LEMMA SourcesStay ==
  ASSUME Types, Grown, Sources, NEW e, OnlyAt(e), e \in 1..Len(entries) => SourceOK(e)'
  PROVE  Sources'
<1>1. ASSUME NEW f \in 1..Len(entries) PROVE SourceOK(f)'
  <2>1. CASE f # e
    <3>1. entries'[f].source = entries[f].source /\ SourceOK(f)
      BY <2>1 DEF OnlyAt, Sources
    <3>. QED BY <3>1, SourceStays
  <2>. QED BY <2>1
<1>2. Len(entries') = Len(entries)
  BY DEF OnlyAt
<1>. QED BY <1>1, <1>2 DEF Sources

LEMMA FrameStays ==
  ASSUME Types, Grown, NEW f \in Frame, FrameOK(f),
         f.in = "pull" => ~entries'[f.e].done,
         f.in = "call" => cache'[f.node] = Nil /\ pending'[f.node] = Nil
  PROVE  FrameOK(f)' /\ NodeOf(f)' = NodeOf(f)
<1>1. CASE f.in = "pull"
  BY <1>1, FrameKinds DEF FrameOK, NodeOf, Grown, PullFrames
<1>2. CASE f.in = "call"
  <2>1. \A t, n : Reads(t, n) => Reads(t, n)'
    BY ReadsStays
  <2>. QED BY <1>2, <2>1 DEF FrameOK, NodeOf
<1>3. CASE f.in = "user"
  BY <1>3 DEF FrameOK, NodeOf
<1>. QED BY <1>1, <1>2, <1>3, FrameKinds

(* The lowest k frames stay; at most one is above them. *)
LEMMA StackKeeps ==
  ASSUME Types, Stack, NEW k \in 0..Len(frames),
         frames' \in Seq(Frame), Len(frames') \in {k, k + 1},
         \A j \in 1..k : frames'[j] = frames[j] /\ FrameOK(frames[j])' /\ NodeOf(frames[j])' = NodeOf(frames[j]),
         Len(frames') = k + 1 =>
           /\ FrameOK(frames[k + 1])'
           /\ frames'[k + 1].in = "user" <=> k = 0
           /\ k >= 2 => /\ NodeOf(frames[k + 1])' \in Node
                        /\ Rank[NodeOf(frames[k + 1])'] < Rank[NodeOf(frames[k])]
                        /\ NodeOf(frames[k]) \in Node
                        /\ frames[k].in = "call" => frames'[k + 1].in = "call"
  PROVE  Stack'
<1>1. ASSUME NEW j \in 1..Len(frames')
      PROVE  (frames'[j].in = "user" <=> j = 1) /\ FrameOK(frames[j])'
  <2>1. CASE j \in 1..k
    BY <2>1 DEF Stack
  <2>2. CASE j = k + 1
    BY <2>2
  <2>. QED BY <2>1, <2>2
<1>2. ASSUME NEW j \in 2..Len(frames'), NEW h \in 2..Len(frames'), j < h
      PROVE  /\ Rank[NodeOf(frames[h])'] < Rank[NodeOf(frames[j])']
             /\ frames'[j].in = "call" => frames'[h].in = "call"
  <2>1. CASE h \in 1..k
    <3>1. j \in 1..k /\ h \in 2..Len(frames) /\ j \in 2..Len(frames)
      BY <2>1, <1>2
    <3>2. /\ Rank[NodeOf(frames[h])] < Rank[NodeOf(frames[j])]
          /\ frames[j].in = "call" => frames[h].in = "call"
      BY <3>1, <1>2 DEF Stack
    <3>. QED BY <3>1, <3>2, <2>1
  <2>2. CASE h = k + 1
    <3>1. j \in 2..k /\ k >= 2 /\ j \in 1..k /\ k \in 1..k /\ Len(frames') = k + 1
      BY <2>2, <1>2
    <3>2. CASE j = k
      BY <3>1, <3>2, <2>2
    <3>3. CASE j < k
      <4>1. j \in 2..Len(frames) /\ k \in 2..Len(frames)
        BY <3>1
      <4>2. /\ Rank[NodeOf(frames[k])] < Rank[NodeOf(frames[j])]
            /\ frames[j].in = "call" => frames[k].in = "call"
        BY <4>1, <3>3 DEF Stack
      <4>3. NodeOf(frames[j]) \in Node
        <5>1. frames[j] \in Frame /\ frames[j].in # "user" /\ FrameOK(frames[j])
          BY <4>1 DEF Types, Stack
        <5>2. CASE frames[j].in = "pull"
          BY <5>1, <5>2, EntryFacts DEF NodeOf, FrameOK
        <5>3. CASE frames[j].in = "call"
          BY <5>1, <5>3, FrameKinds DEF NodeOf, CallFrames
        <5>. QED BY <5>1, <5>2, <5>3, FrameKinds
      <4>4. Rank[NodeOf(frames[j])] \in Nat /\ Rank[NodeOf(frames[k])] \in Nat /\ Rank[NodeOf(frames[k + 1])'] \in Nat
        BY <3>1, <4>3, TreeFacts
      <4>5. Rank[NodeOf(frames[k + 1])'] < Rank[NodeOf(frames[k])]
            /\ (frames[k].in = "call" => frames'[k + 1].in = "call")
            /\ frames'[j] = frames[j] /\ NodeOf(frames[j])' = NodeOf(frames[j])
        BY <3>1, SMTT(60)
      <4>. QED BY <4>2, <4>4, <4>5, <2>2
    <3>. QED BY <3>1, <3>2, <3>3
  <2>. QED BY <2>1, <2>2, <1>2
<1>. QED BY <1>1, <1>2 DEF Stack

LEMMA LinkStays ==
  ASSUME NEW f, NEW g, Link(f, g),
         f.in = "user" => held'[f.c] = held[f.c],
         f.in = "pull" => entries'[f.e].source = entries[f.e].source /\ entries'[f.e].node = entries[f.e].node,
         g.in = "pull" => Len(entries'[g.e].buf) = Len(Buf(g.e))
  PROVE  Link(f, g)'
BY DEF Link, Asks, HasChild, ChildOf, CallsNext, Buf

LEMMA LinksKeep ==
  ASSUME Types, Links, NEW k \in 0..Len(frames),
         Len(frames') \in {k, k + 1},
         \A j \in 1..k : frames'[j] = frames[j],
         \A j \in 2..k : Link(frames[j - 1], frames[j]) => Link(frames[j - 1], frames[j])',
         Len(frames') = k + 1 /\ k >= 1 => Link(frames[k], frames[k + 1])'
  PROVE  Links'
<1>1. ASSUME NEW j \in 2..Len(frames') PROVE Link(frames[j - 1], frames[j])'
  <2>1. CASE j \in 2..k
    <3>1. j \in 1..k /\ j - 1 \in 1..k /\ j \in 2..Len(frames)
      BY <2>1
    <3>2. Link(frames[j - 1], frames[j])
      BY <3>1 DEF Links
    <3>. QED BY <3>1, <3>2, <2>1
  <2>2. CASE j = k + 1
    <3>1. k \in 1..k /\ k >= 1 /\ j - 1 = k /\ Len(frames') = k + 1
      BY <2>2, <1>1
    <3>2. Link(frames[k], frames[k + 1])'
      BY <3>1
    <3>. QED BY <3>1, <3>2, <2>2
  <2>. QED BY <2>1, <2>2
<1>. QED BY <1>1 DEF Links

(* What lies beneath a frame that pulls are frames that pull others, and   *)
(* what lies beneath a handler is about others.                            *)
LEMMA Beneath ==
  ASSUME Types, Stack, frames # <<>>, NEW j \in 1..(Len(frames) - 1)
  PROVE  /\ frames[j] \in Frame
         /\ FrameOK(frames[j])
         /\ Top.in # "user"
         /\ j = 1 <=> frames[j].in = "user"
         /\ Top.in = "pull" => frames[j].in # "call" /\ (frames[j].in = "pull" => frames[j].e # Top.e)
         /\ Top.in = "call" => (frames[j].in = "call" => frames[j].node # Top.node)
         /\ frames[j].in = "pull" => entries[frames[j].e].node # NodeOf(Top)
<1>. DEFINE l == Len(frames)
<1>1. l \in Nat /\ l >= 2 /\ Top = frames[l] /\ l \in 1..l /\ l \in 2..l /\ j \in 1..l /\ j < l
  BY StackFacts DEF Top
<1>2. frames[j] \in Frame /\ FrameOK(frames[j]) /\ (j = 1 <=> frames[j].in = "user") /\ Top.in # "user"
      /\ FrameOK(Top)
  BY <1>1 DEF Types, Stack
<1>3. CASE j = 1
  BY <1>2, <1>3, FrameKinds
<1>4. CASE j # 1
  <2>1. /\ Rank[NodeOf(Top)] < Rank[NodeOf(frames[j])]
        /\ frames[j].in = "call" => Top.in = "call"
    BY <1>1, <1>4 DEF Stack
  <2>2. Top \in Frame
    BY StackFacts
  <2>3. NodeOf(Top) \in Node
    BY <1>2, <2>2, EntryFacts, FrameKinds DEF NodeOf, FrameOK, CallFrames
  <2>4. NodeOf(Top) # NodeOf(frames[j])
    BY <2>1, <2>3, TreeFacts
  <2>. QED BY <1>2, <1>4, <2>1, <2>4, FrameKinds DEF NodeOf
<1>. QED BY <1>3, <1>4

(* What the program has got is still what the recording had up to there. *)
LEMMA GotStays ==
  ASSUME Types, Grown, NEW e \in 1..Len(entries), NEW i \in 0..Len(Buf(e)),
         entries' \in Seq(Entry)
  PROVE  SubSeq(entries'[e].buf, 1, i) = SubSeq(Buf(e), 1, i)
<1>1. Len(entries) \in Nat /\ Len(entries') \in Nat /\ e \in 1..Len(entries')
  BY DEF Types, Grown
<1>2. Buf(e) \in Seq(Node) /\ entries'[e].buf \in Seq(Node)
  <2>1. entries'[e] \in Entry
    BY <1>1
  <2>. QED BY <2>1, EntryFacts DEF Entry
<1>3. i \in 0..Len(entries'[e].buf)
  BY <1>2 DEF Grown
<1>4. \A j \in 1..i : entries'[e].buf[j] = Buf(e)[j]
  BY <1>2 DEF Grown
<1>5. /\ SubSeq(Buf(e), 1, i) \in Seq(Node) /\ Len(SubSeq(Buf(e), 1, i)) = i
      /\ \A j \in 1..i : SubSeq(Buf(e), 1, i)[j] = Buf(e)[j]
  BY <1>2, SeqPrefix
<1>6. /\ SubSeq(entries'[e].buf, 1, i) \in Seq(Node) /\ Len(SubSeq(entries'[e].buf, 1, i)) = i
      /\ \A j \in 1..i : SubSeq(entries'[e].buf, 1, i)[j] = entries'[e].buf[j]
  BY <1>2, <1>3, SeqPrefix
<1>. QED BY <1>4, <1>5, <1>6, SeqEqual

LEMMA HoldsStay ==
  ASSUME Types, Grown, Holds, entries' \in Seq(Entry), UNCHANGED held,
         \A c \in Consumer : held[c].st = "calling" => frames' # <<>> /\ frames'[1] = frames[1]
  PROVE  Holds'
<1>. SUFFICES ASSUME NEW c \in Consumer
              PROVE  /\ held[c].st = "calling" =>
                          /\ held[c].node \in Node /\ held[c].got = <<>>
                          /\ frames' # <<>> /\ frames'[1] = UserPull(c)
                     /\ held[c].st \in {"open", "done"} =>
                          /\ held[c].node \in Node
                          /\ Reads(held[c].trip, held[c].node)'
                          /\ held[c].got = SubSeq(entries'[held[c].trip.src].buf, 1, held[c].trip.i)
                     /\ held[c].st = "done" =>
                          entries'[held[c].trip.src].done /\ held[c].trip.i = Len(entries'[held[c].trip.src].buf)
  BY DEF Holds, Buf
<1>1. held[c].st = "calling" =>
        /\ held[c].node \in Node /\ held[c].got = <<>>
        /\ frames' # <<>> /\ frames'[1] = UserPull(c)
  BY DEF Holds
<1>2. ASSUME held[c].st \in {"open", "done"}
      PROVE  /\ held[c].node \in Node
             /\ Reads(held[c].trip, held[c].node)'
             /\ held[c].got = SubSeq(entries'[held[c].trip.src].buf, 1, held[c].trip.i)
             /\ held[c].trip.src \in 1..Len(entries)
  <2>1. /\ held[c].node \in Node /\ Reads(held[c].trip, held[c].node)
        /\ held[c].got = SubSeq(Buf(held[c].trip.src), 1, held[c].trip.i)
    BY <1>2 DEF Holds
  <2>2. held[c].trip.src \in 1..Len(entries) /\ held[c].trip.i \in 0..Len(Buf(held[c].trip.src))
    BY <2>1, EntryFacts DEF Reads, Trip
  <2>. QED BY <2>1, <2>2, ReadsStays, GotStays
<1>3. ASSUME held[c].st = "done"
      PROVE  entries'[held[c].trip.src].done /\ held[c].trip.i = Len(entries'[held[c].trip.src].buf)
  BY <1>2, <1>3 DEF Holds, Grown
<1>. QED BY <1>1, <1>2, <1>3

-----------------------------------------------------------------------------
(* Steps of the frame on top *)

(* Only what belongs to the node of the frame on top may change. *)
TopOnly ==
  /\ \A f \in 1..Len(entries) : entries[f].node # NodeOf(Top) => entries'[f] = entries[f]
  /\ \A m \in Node : m # NodeOf(Top) => cache'[m] = cache[m] /\ pending'[m] = pending[m]
  /\ UNCHANGED held

LEMMA BeneathStays ==
  ASSUME Types, Stack, Links, Grown, TopOnly, frames # <<>>
  PROVE  /\ \A j \in 1..(Len(frames) - 1) : frames'[j] = frames[j] =>
              FrameOK(frames[j])' /\ NodeOf(frames[j])' = NodeOf(frames[j])
         /\ \A j \in 2..(Len(frames) - 1) : frames'[j] = frames[j] /\ frames'[j - 1] = frames[j - 1] =>
              Link(frames[j - 1], frames[j])'
<1>1. ASSUME NEW j \in 1..(Len(frames) - 1), frames'[j] = frames[j]
      PROVE  FrameOK(frames[j])' /\ NodeOf(frames[j])' = NodeOf(frames[j])
  <2>1. /\ frames[j] \in Frame /\ FrameOK(frames[j]) /\ Top.in # "user"
        /\ Top.in = "pull" => frames[j].in # "call"
        /\ Top.in = "call" => (frames[j].in = "call" => frames[j].node # Top.node)
        /\ frames[j].in = "pull" => entries[frames[j].e].node # NodeOf(Top)
    BY Beneath
  <2>2. frames[j].in = "pull" => ~entries'[frames[j].e].done
    BY <2>1 DEF TopOnly, FrameOK
  <2>3. frames[j].in = "call" => cache'[frames[j].node] = Nil /\ pending'[frames[j].node] = Nil
    <3>1. SUFFICES ASSUME frames[j].in = "call"
                   PROVE  cache'[frames[j].node] = Nil /\ pending'[frames[j].node] = Nil
      OBVIOUS
    <3>2. Top.in = "call" /\ frames[j].node # NodeOf(Top) /\ frames[j].node \in Node
      BY <2>1, <3>1, StackFacts, FrameKinds DEF NodeOf, CallFrames
    <3>. QED BY <2>1, <3>1, <3>2 DEF TopOnly, FrameOK
  <2>4. PICK f : f = frames[j]
    OBVIOUS
  <2>5. FrameOK(f)' /\ NodeOf(f)' = NodeOf(f)
    BY <2>1, <2>2, <2>3, <2>4, FrameStays
  <2>. QED BY <2>4, <2>5, <1>1
<1>2. ASSUME NEW j \in 2..(Len(frames) - 1), frames'[j] = frames[j], frames'[j - 1] = frames[j - 1]
      PROVE  Link(frames[j - 1], frames[j])'
  <2>1. j \in 1..(Len(frames) - 1) /\ j - 1 \in 1..(Len(frames) - 1) /\ j \in 2..Len(frames)
    BY <1>2, StackFacts
  <2>2. PICK f, g : f = frames[j - 1] /\ g = frames[j]
    BY Zenon
  <2>3. /\ f \in Frame /\ FrameOK(f) /\ (f.in = "pull" => entries[f.e].node # NodeOf(Top))
        /\ g \in Frame /\ FrameOK(g) /\ (g.in = "pull" => entries[g.e].node # NodeOf(Top))
    BY <2>1, <2>2, Beneath
  <2>4. Link(f, g)
    BY <2>1, <2>2 DEF Links
  <2>5. /\ f.in = "pull" => entries'[f.e] = entries[f.e]
        /\ g.in = "pull" => entries'[g.e] = entries[g.e]
    BY <2>3 DEF TopOnly, FrameOK
  <2>6. Link(f, g)'
    BY <2>4, <2>5, LinkStays DEF TopOnly, Buf
  <2>. QED BY <2>2, <2>6, <1>2
<1>. QED BY <1>1, <1>2

(* The frame on top returns. *)
LEMMA StackPops ==
  ASSUME Types, Stack, Links, Grown, TopOnly, frames # <<>>, frames' = Below
  PROVE  Stack' /\ Links' /\ frames' \in Seq(Frame)
<1>. DEFINE k == Len(frames) - 1
<1>1. /\ frames' \in Seq(Frame) /\ Len(frames') = k /\ k \in 0..Len(frames)
      /\ \A j \in 1..k : frames'[j] = frames[j]
  BY StackFacts
<1>2. \A j \in 1..k : frames'[j] = frames[j] /\ FrameOK(frames[j])' /\ NodeOf(frames[j])' = NodeOf(frames[j])
  BY <1>1, BeneathStays
<1>3. \A j \in 2..k : Link(frames[j - 1], frames[j])'
  <2>1. \A j \in 2..k : j \in 1..k /\ j - 1 \in 1..k
    BY <1>1
  <2>. QED BY <1>1, <2>1, BeneathStays
<1>4. Len(frames') \in {k, k + 1} /\ Len(frames') # k + 1
  BY <1>1
<1>. HIDE DEF k
<1>5. Stack'
  BY <1>1, <1>2, <1>4, StackKeeps
<1>6. Links'
  BY <1>1, <1>3, <1>4, LinksKeep
<1>. QED BY <1>1, <1>5, <1>6

(* The frame on top stays, or is replaced by another one of its node. *)
LEMMA StackTurns ==
  ASSUME Types, Stack, Links, Grown, TopOnly, frames # <<>>,
         frames' \in Seq(Frame), Len(frames') = Len(frames),
         \A j \in 1..(Len(frames) - 1) : frames'[j] = frames[j],
         Top'.in = Top.in, FrameOK(Top)', NodeOf(Top)' = NodeOf(Top), Top.in # "user",
         Link(frames[Len(frames) - 1], frames[Len(frames)])'
  PROVE  Stack' /\ Links'
<1>. DEFINE k == Len(frames) - 1
<1>1. k \in 0..Len(frames) /\ Len(frames') = k + 1 /\ k \in Nat /\ Len(frames) = k + 1 /\ k # 0
  <2>1. Len(frames) \in Nat \ {0}
    BY StackFacts
  <2>2. Len(frames) # 1
    BY DEF Stack, Top
  <2>. QED BY <2>1, <2>2
<1>2. \A j \in 1..k : frames'[j] = frames[j] /\ FrameOK(frames[j])' /\ NodeOf(frames[j])' = NodeOf(frames[j])
  BY BeneathStays
<1>3. \A j \in 2..k : Link(frames[j - 1], frames[j])'
  <2>1. \A j \in 2..k : j \in 1..k /\ j - 1 \in 1..k
    BY <1>1
  <2>. QED BY <2>1, BeneathStays
<1>4. Top = frames[k + 1] /\ Top' = frames'[k + 1]
  BY <1>1 DEF Top
<1>5. FrameOK(frames[k + 1])' /\ NodeOf(frames[k + 1])' = NodeOf(Top)
  BY <1>4
<1>6. k >= 2 => /\ NodeOf(Top) \in Node
                /\ Rank[NodeOf(Top)] < Rank[NodeOf(frames[k])]
                /\ NodeOf(frames[k]) \in Node
                /\ frames[k].in = "call" => Top.in = "call"
  <2>1. SUFFICES ASSUME k >= 2 PROVE NodeOf(Top) \in Node /\ NodeOf(frames[k]) \in Node
    BY <1>1, <1>4 DEF Stack
  <2>2. FrameOK(Top) /\ FrameOK(frames[k]) /\ Top \in Frame /\ frames[k] \in Frame
        /\ Top.in # "user" /\ frames[k].in # "user"
    BY <1>1, <1>4, <2>1 DEF Stack, Types
  <2>. QED BY <2>2, EntryFacts, FrameKinds DEF NodeOf, FrameOK, CallFrames
<1>7. Link(frames[k], frames[k + 1])'
  BY <1>1
<1>. HIDE DEF k
<1>8. Stack'
  BY <1>1, <1>2, <1>4, <1>5, <1>6, StackKeeps
<1>9. Links'
  BY <1>1, <1>2, <1>3, <1>7, LinksKeep
<1>. QED BY <1>8, <1>9

(* The frame on top stays as it is and calls another one, of a child of    *)
(* its node.                                                               *)
LEMMA StackPushes ==
  ASSUME Types, Stack, Links, Grown, TopOnly, frames # <<>>, NEW g \in Frame,
         frames' = Append(frames, g), g.in # "user",
         \A f : f = Top => FrameOK(f)' /\ NodeOf(f)' = NodeOf(f) /\ Link(f, g)',
         \A f : Len(frames) > 1 /\ f = frames[Len(frames) - 1] /\ Link(f, Top) =>
            \A h : h = Top => Link(f, h)',
         FrameOK(g)', NodeOf(g)' \in Node,
         Top.in # "user" => Rank[NodeOf(g)'] < Rank[NodeOf(Top)],
         Top.in = "call" => g.in = "call"
  PROVE  Stack' /\ Links' /\ frames' \in Seq(Frame)
<1>0. PICK k : k = Len(frames)
  OBVIOUS
<1>1. /\ k \in 0..Len(frames) /\ k \in Nat \ {0} /\ frames' \in Seq(Frame) /\ Len(frames') = k + 1
      /\ \A j \in 1..k : frames'[j] = frames[j]
      /\ frames'[k + 1] = g /\ Top = frames[k] /\ k \in 1..k
  BY <1>0, StackFacts, PushFacts DEF Top
<1>2. ASSUME NEW j \in 1..k
      PROVE  FrameOK(frames[j])' /\ NodeOf(frames[j])' = NodeOf(frames[j])
  <2>1. CASE j = k
    <3>1. PICK f : f = Top
      OBVIOUS
    <3>2. FrameOK(f)' /\ NodeOf(f)' = NodeOf(f)
      BY <3>1
    <3>. QED BY <1>1, <2>1, <3>1, <3>2
  <2>2. CASE j # k
    <3>1. j \in 1..(Len(frames) - 1)
      BY <1>0, <1>1, <2>2
    <3>. QED BY <1>1, <3>1, BeneathStays
  <2>. QED BY <2>1, <2>2
<1>3. ASSUME NEW j \in 2..k PROVE Link(frames[j - 1], frames[j])'
  <2>1. CASE j = k
    <3>1. PICK f, h : f = frames[k - 1] /\ h = Top
      BY Zenon
    <3>2. k - 1 \in 1..k /\ k \in 2..Len(frames) /\ k > 1
      BY <1>0, <1>1, <2>1
    <3>3. Link(f, Top)
      BY <1>0, <1>1, <3>1, <3>2 DEF Links
    <3>4. Link(f, h)'
      BY <1>0, <3>1, <3>2, <3>3
    <3>5. f = frames'[j - 1] /\ h = frames'[j]
      BY <1>1, <2>1, <3>1, <3>2
    <3>. QED BY <3>4, <3>5
  <2>2. CASE j # k
    <3>1. j \in 2..(Len(frames) - 1) /\ j \in 1..k /\ j - 1 \in 1..k
      BY <1>0, <1>1, <2>2
    <3>. QED BY <1>1, <3>1, BeneathStays
  <2>. QED BY <2>1, <2>2
<1>4. Link(frames[k], frames[k + 1])'
  <2>1. PICK f : f = Top
    OBVIOUS
  <2>2. Link(f, g)' /\ f = frames'[k] /\ g = frames'[k + 1]
    BY <1>1, <2>1
  <2>. QED BY <2>2
<1>5. FrameOK(frames[k + 1])' /\ NodeOf(frames[k + 1])' = NodeOf(g)'
  BY <1>1
<1>6. k >= 2 => /\ Rank[NodeOf(g)'] < Rank[NodeOf(frames[k])]
                /\ NodeOf(frames[k]) \in Node
                /\ frames[k].in = "call" => g.in = "call"
  <2>1. SUFFICES ASSUME k >= 2 PROVE NodeOf(Top) \in Node /\ Top.in # "user"
    BY <1>1
  <2>2. FrameOK(Top) /\ Top \in Frame /\ Top.in # "user"
    BY <1>1, <2>1 DEF Stack, Types
  <2>. QED BY <2>2, EntryFacts, FrameKinds DEF NodeOf, FrameOK, CallFrames
<1>7. Stack'
  <2>1. Len(frames') \in {k, k + 1} /\ k # 0
    BY <1>1
  <2>2. frames'[k + 1].in # "user"
    BY <1>1
  <2>3. NodeOf(frames[k + 1])' \in Node
    BY <1>5
  <2>4. k >= 2 => /\ Rank[NodeOf(frames[k + 1])'] < Rank[NodeOf(frames[k])]
                  /\ NodeOf(frames[k]) \in Node
                  /\ frames[k].in = "call" => frames'[k + 1].in = "call"
    BY <1>1, <1>5, <1>6
  <2>. QED BY <1>1, <1>2, <1>5, <2>1, <2>2, <2>3, <2>4, StackKeeps
<1>8. Links'
  BY <1>1, <1>3, <1>4, LinksKeep
<1>. QED BY <1>1, <1>7, <1>8

-----------------------------------------------------------------------------
(* Every step preserves the structure *)

(* What there is beneath a frame that pulls or calls. *)
LEMMA LinkToTop ==
  ASSUME Structure, frames # <<>>, Top.in # "user"
  PROVE  /\ Len(frames) \in Nat /\ Len(frames) >= 2
         /\ Len(frames) - 1 \in 1..(Len(frames) - 1)
         /\ Link(frames[Len(frames) - 1], Top)
         /\ Below # <<>>
         /\ Below[Len(Below)] = frames[Len(frames) - 1]
<1>1. Len(frames) \in Nat \ {0} /\ Len(frames) # 1
  BY StackFacts DEF Structure, Stack, Top
<1>2. Len(Below) = Len(frames) - 1 /\ \A j \in 1..(Len(frames) - 1) : Below[j] = frames[j]
  BY StackFacts DEF Structure
<1>3. Len(frames) - 1 \in 1..(Len(frames) - 1) /\ Len(frames) \in 2..Len(frames)
  <2>1. PICK l : l = Len(frames)
    OBVIOUS
  <2>2. l \in Nat /\ l >= 2
    BY <1>1, <2>1
  <2>3. l - 1 \in 1..(l - 1) /\ l \in 2..l
    BY <2>2
  <2>. QED BY <2>1, <2>3
<1>4. Link(frames[Len(frames) - 1], Top)
  BY <1>3 DEF Structure, Links, Top
<1>5. Below # <<>>
  <2>1. Len(Below) # 0
    BY <1>1, <1>2
  <2>. QED BY <2>1
<1>. QED BY <1>1, <1>2, <1>3, <1>4, <1>5

LEMMA OnlyAtTop ==
  ASSUME Structure, frames # <<>>, Top.in = "pull", OnlyAt(Top.e), UNCHANGED <<cache, pending, held>>
  PROVE  TopOnly
BY DEF TopOnly, OnlyAt, NodeOf

(* The program's frame stays at the bottom. *)
LEMMA BottomStays ==
  ASSUME Structure, frames # <<>>, Top.in # "user", Below # <<>>
  PROVE  Below[1] = frames[1]
BY LinkToTop, StackFacts DEF Structure

(* advance_recording got a value from its source *)
LEMMA RecordStep ==
  ASSUME Structure, InPull, NEW e, e = Top.e, NEW s \in Source, NEW v \in Node, Record(e, s, v),
         OnlyAt(e) /\ Grown /\ entries'[e].source = s => SourceOK(e)',
         UNCHANGED <<held, errors>>
  PROVE  Structure'
<1>2. /\ frames # <<>> /\ Top.in = "pull" /\ e \in 1..Len(entries) /\ ~entries[e].done
      /\ Types /\ Tables /\ Sources /\ Stack /\ Links /\ Answers /\ Holds
  BY PullFacts DEF InPull, Structure, Pulled
<1>3. OnlyAt(e) /\ Grown /\ entries'[e].buf = Append(Buf(e), v) /\ entries'[e].source = s
  BY <1>2, RecordEffect, Zenon DEF Record
<1>4. Len(entries'[e].buf) = Len(Buf(e)) + 1 /\ entries'[e].buf[Len(Buf(e)) + 1] = v
  BY <1>2, <1>3, EntryFacts
<1>5. frames' = Below /\ ret' = Yield(v) /\ UNCHANGED <<cache, pending, held, errors>>
  BY DEF Record
<1>6. TopOnly
  BY <1>2, <1>3, <1>5, OnlyAtTop
<1>7. Stack' /\ Links' /\ frames' \in Seq(Frame)
  BY <1>2, <1>3, <1>5, <1>6, StackPops
<1>8. Types'
  BY <1>2, <1>3, <1>5, <1>7 DEF Types, OnlyAt, Answer, Yield
<1>9. Tables'
  BY <1>2, <1>3, <1>5, TablesStay
<1>10. Sources'
  BY <1>2, <1>3, SourcesStay
<1>11. Below # <<>> /\ Below[1] = frames[1] /\ Below[Len(Below)] = frames[Len(frames) - 1]
       /\ Link(frames[Len(frames) - 1], Top)
  BY <1>2, LinkToTop, BottomStays
<1>12. Holds'
  BY <1>2, <1>3, <1>5, <1>11, HoldsStay DEF OnlyAt
<1>13. Answers'
  <2>1. PICK f : f = frames[Len(frames) - 1]
    OBVIOUS
  <2>2. Top' = f /\ frames' # <<>>
    BY <1>5, <1>11, <2>1 DEF Top
  <2>3. f \in Frame /\ f.in # "call" /\ (f.in = "pull" => f.e # e /\ FrameOK(f))
    <3>1. Len(frames) - 1 \in 1..(Len(frames) - 1)
      BY <1>2, LinkToTop
    <3>. QED BY <1>2, <2>1, <3>1, Beneath
  <2>4. CASE f.in = "user"
    <3>1. held[f.c].st = "open" /\ held[f.c].trip.src = e /\ held[f.c].trip.i = Len(Buf(e))
      BY <1>2, <1>11, <2>1, <2>4 DEF Link
    <3>2. Told(held[f.c].trip)'
      BY <1>3, <1>4, <1>5, <3>1 DEF Told, Yield, Buf
    <3>. QED BY <1>5, <2>2, <2>4, <3>1, <3>2 DEF Answers, Yield
  <2>5. CASE f.in = "pull"
    <3>1. HasChild(f.e) /\ ChildOf(f.e).src = e /\ ChildOf(f.e).i = Len(Buf(e))
      BY <1>2, <1>11, <2>1, <2>5 DEF Link
    <3>2. entries'[f.e] = entries[f.e]
      BY <1>3, <2>3, <2>5 DEF OnlyAt, FrameOK
    <3>3. HasChild(f.e)' /\ ChildOf(f.e)' = ChildOf(f.e)
      BY <3>1, <3>2 DEF HasChild, ChildOf
    <3>4. Told(ChildOf(f.e))'
      BY <1>3, <1>4, <1>5, <3>1, <3>3 DEF Told, Yield, Buf
    <3>. QED BY <1>5, <2>2, <2>5, <3>3, <3>4 DEF Answers, Yield
  <2>. QED BY <2>3, <2>4, <2>5, FrameKinds
<1>. QED BY <1>7, <1>8, <1>9, <1>10, <1>12, <1>13 DEF Structure

(* finish_recording *)
LEMMA CommitStep ==
  ASSUME Structure, InPull, NEW e, e = Top.e, Commit(e), UNCHANGED <<held, errors>>
  PROVE  Structure'
<1>2. /\ frames # <<>> /\ Top.in = "pull" /\ e \in 1..Len(entries) /\ ~entries[e].done
      /\ Types /\ Tables /\ Sources /\ Stack /\ Links /\ Answers /\ Holds
  BY PullFacts DEF InPull, Structure, Pulled
<1>3. /\ entries' \in Seq(Entry)
      /\ Len(entries') = Len(entries)
      /\ \A f \in 1..Len(entries) :
           /\ entries'[f].node = entries[f].node
           /\ entries'[f].buf = Buf(f)
           /\ entries'[f].source = entries[f].source
           /\ entries'[f].done = (f = e \/ entries[f].done)
           /\ f # e => entries'[f] = entries[f]
      /\ Grown
  BY <1>2, CommitEffect
<1>. DEFINE m == entries[e].node
<1>4. /\ frames' = Below /\ ret' = End /\ UNCHANGED <<held, errors>>
      /\ cache' = [cache EXCEPT ![m] = e] /\ pending' = [pending EXCEPT ![m] = Nil]
  BY DEF Commit
<1>5. m \in Node /\ NodeOf(Top) = m
  BY <1>2, EntryFacts DEF NodeOf
<1>. HIDE DEF m
<1>6. TopOnly
  <2>1. \A n \in Node : n # m => cache'[n] = cache[n] /\ pending'[n] = pending[n]
    BY <1>2, <1>4 DEF Types
  <2>. QED BY <1>3, <1>4, <1>5, <2>1 DEF TopOnly, m
<1>7. Stack' /\ Links' /\ frames' \in Seq(Frame)
  BY <1>2, <1>3, <1>4, <1>6, StackPops
<1>8. Types'
  <2>1. e \in Nat /\ Nil \in Nat
    BY <1>2 DEF Nil
  <2>. QED BY <1>2, <1>3, <1>4, <1>7, <2>1 DEF Types, Answer
<1>9. Tables'
  <2>1. /\ cache \in [Node -> Nat] /\ pending \in [Node -> Nat]
        /\ pending[m] = e /\ cache[m] = Nil
    BY <1>2 DEF Types, Tables, m
  <2>2. \A n \in Node : /\ cache'[n] = IF n = m THEN e ELSE cache[n]
                        /\ pending'[n] = IF n = m THEN Nil ELSE pending[n]
    BY <1>4, <2>1
  <2>3. \A f \in 1..Len(entries) : f # e => entries[f].node # m /\ entries[f].node \in Node
    BY <1>2, <2>1, EntryFacts DEF Tables, Nil
  <2>4. entries[e].node = m
    BY DEF m
  <2>5. ASSUME NEW n \in Node
        PROVE  /\ cache'[n] # Nil => /\ cache'[n] \in 1..Len(entries')
                                     /\ entries'[cache'[n]].node = n
                                     /\ entries'[cache'[n]].done
               /\ pending'[n] # Nil => /\ pending'[n] \in 1..Len(entries')
                                       /\ entries'[pending'[n]].node = n
                                       /\ ~entries'[pending'[n]].done
    <3>1. CASE n = m
      BY <1>2, <1>3, <2>2, <2>4, <3>1
    <3>2. CASE n # m
      <4>1. pending[n] # e
        BY <1>2, <2>4, <3>2 DEF Tables, Nil
      <4>. QED BY <1>2, <1>3, <2>2, <3>2, <4>1 DEF Tables
    <3>. QED BY <3>1, <3>2
  <2>6. ASSUME NEW f \in 1..Len(entries')
        PROVE  IF entries'[f].done THEN cache'[entries'[f].node] = f /\ pending'[entries'[f].node] = Nil
                                   ELSE pending'[entries'[f].node] = f /\ cache'[entries'[f].node] = Nil
    <3>1. CASE f = e
      <4>1. entries'[f].done
        BY <1>2, <1>3, <3>1
      <4>2. entries'[f].node = m
        BY <1>2, <1>3, <2>4, <3>1
      <4>3. cache'[m] = f /\ pending'[m] = Nil
        BY <1>5, <2>2, <3>1
      <4>. QED BY <4>1, <4>2, <4>3
    <3>2. CASE f # e
      BY <1>2, <1>3, <2>2, <2>3, <3>2 DEF Tables
    <3>. QED BY <3>1, <3>2
  <2>. QED BY <2>5, <2>6 DEF Tables
<1>10. Sources'
  <2>1. ASSUME NEW f \in 1..Len(entries) PROVE SourceOK(f)'
    BY <1>2, <1>3, SourceStays DEF Sources
  <2>. QED BY <1>3, <2>1 DEF Sources
<1>11. Below # <<>> /\ Below[1] = frames[1] /\ Below[Len(Below)] = frames[Len(frames) - 1]
       /\ Link(frames[Len(frames) - 1], Top)
  BY <1>2, LinkToTop, BottomStays
<1>12. Holds'
  BY <1>2, <1>3, <1>4, <1>11, HoldsStay
<1>13. Answers'
  <2>1. PICK f : f = frames[Len(frames) - 1]
    OBVIOUS
  <2>2. Top' = f /\ frames' # <<>>
    BY <1>4, <1>11, <2>1 DEF Top
  <2>3. f \in Frame /\ f.in # "call" /\ (f.in = "pull" => f.e # e /\ FrameOK(f))
    <3>1. Len(frames) - 1 \in 1..(Len(frames) - 1)
      BY <1>2, LinkToTop
    <3>. QED BY <1>2, <2>1, <3>1, Beneath
  <2>4. Len(entries'[e].buf) = Len(Buf(e)) /\ entries'[e].done
    BY <1>2, <1>3
  <2>5. CASE f.in = "user"
    <3>1. held[f.c].st = "open" /\ held[f.c].trip.src = e /\ held[f.c].trip.i = Len(Buf(e))
      BY <1>2, <1>11, <2>1, <2>5 DEF Link
    <3>2. Told(held[f.c].trip)'
      BY <1>4, <2>4, <3>1 DEF Told, End, Buf
    <3>. QED BY <1>4, <2>2, <2>5, <3>1, <3>2 DEF Answers, End
  <2>6. CASE f.in = "pull"
    <3>1. HasChild(f.e) /\ ChildOf(f.e).src = e /\ ChildOf(f.e).i = Len(Buf(e))
      BY <1>2, <1>11, <2>1, <2>6 DEF Link
    <3>2. entries'[f.e] = entries[f.e]
      BY <1>3, <2>3, <2>6 DEF FrameOK
    <3>3. HasChild(f.e)' /\ ChildOf(f.e)' = ChildOf(f.e)
      BY <3>1, <3>2 DEF HasChild, ChildOf
    <3>4. Told(ChildOf(f.e))'
      BY <1>4, <2>4, <3>1, <3>3 DEF Told, End, Buf
    <3>. QED BY <1>4, <2>2, <2>6, <3>3, <3>4 DEF Answers, End
  <2>. QED BY <2>3, <2>5, <2>6, FrameKinds
<1>. QED BY <1>7, <1>8, <1>9, <1>10, <1>12, <1>13 DEF Structure

(* The source of the frame on top goes on; the frame stays.                *)
LEMMA SourceStep ==
  ASSUME Structure, InPull, NEW e, e = Top.e, NEW s \in Source, entries' = WithSource(e, s),
         OnlyAt(e) /\ Grown /\ entries'[e].source = s => SourceOK(e)',
         frames' = frames, UNCHANGED <<cache, pending, held, errors>>,
         ret' \in Answer, OnlyAt(e) /\ entries'[e].source = s => Answers'
  PROVE  Structure'
<1>2. /\ frames # <<>> /\ Top.in = "pull" /\ e \in 1..Len(entries) /\ ~entries[e].done
      /\ Types /\ Tables /\ Sources /\ Stack /\ Links /\ Answers /\ Holds
  BY PullFacts DEF InPull, Structure, Pulled
<1>3. OnlyAt(e) /\ Grown /\ entries'[e].buf = Buf(e) /\ entries'[e].source = s
  BY <1>2, SourceEffect
<1>4. TopOnly
  BY <1>2, <1>3, OnlyAtTop
<1>5. Stack' /\ Links'
  <2>1. Top \in Frame /\ FrameOK(Top) /\ Top' = Top
    BY <1>2, StackFacts DEF Top, Stack
  <2>2. PICK g : g = Top
    OBVIOUS
  <2>3. ~entries'[g.e].done
    BY <1>2, <1>3, <2>2 DEF OnlyAt
  <2>4. FrameOK(g)' /\ NodeOf(g)' = NodeOf(g)
    BY <1>2, <1>3, <2>1, <2>2, <2>3, FrameStays
  <2>5. PICK f : f = frames[Len(frames) - 1]
    OBVIOUS
  <2>6. f.in = "pull" => f.e # e /\ f.e \in 1..Len(entries)
    <3>1. Len(frames) - 1 \in 1..(Len(frames) - 1)
      BY <1>2, LinkToTop
    <3>. QED BY <1>2, <2>5, <3>1, Beneath DEF FrameOK
  <2>7. Link(f, g)
    BY <1>2, <2>2, <2>5, LinkToTop
  <2>8. Link(f, g)'
    BY <1>2, <1>3, <2>2, <2>6, <2>7, LinkStays DEF OnlyAt
  <2>9. FrameOK(Top)' /\ NodeOf(Top)' = NodeOf(Top)
    BY <2>1, <2>2, <2>4
  <2>10. Link(frames[Len(frames) - 1], frames[Len(frames)])'
    BY <2>2, <2>5, <2>8 DEF Top
  <2>11. frames' \in Seq(Frame)
    BY <1>2 DEF Types
  <2>. QED BY <1>2, <1>3, <1>4, <2>1, <2>9, <2>10, <2>11, StackTurns
<1>6. Types'
  BY <1>2, <1>3 DEF Types, OnlyAt, Answer
<1>7. Tables'
  BY <1>2, <1>3, TablesStay
<1>8. Sources'
  BY <1>2, <1>3, SourcesStay
<1>9. Holds'
  BY <1>2, <1>3, HoldsStay DEF OnlyAt, Holds
<1>10. Answers'
  BY <1>3
<1>. QED BY <1>5, <1>6, <1>7, <1>8, <1>9, <1>10 DEF Structure

(* The frame on top calls another one. *)
LEMMA PushStep ==
  ASSUME Structure, frames # <<>>, NEW e, OnlyAt(e), Grown,
         e \in 1..Len(entries) =>
            SourceOK(e)' /\ entries[e].node = NodeOf(Top) /\ entries'[e].buf = Buf(e),
         NEW g \in PullFrames \cup CallFrames,
         frames' = Append(frames, g), ret' = Nothing, UNCHANGED <<cache, pending, held, errors>>,
         FrameOK(g)', NodeOf(g)' \in Node,
         Top.in # "user",
         Rank[NodeOf(g)'] < Rank[NodeOf(Top)],
         Top.in = "call" => g.in = "call",
         \A f : f = Top => Link(f, g)'
  PROVE  Structure'
<1>1. Types /\ Tables /\ Sources /\ Stack /\ Links /\ Answers /\ Holds
  BY DEF Structure
<1>2. g \in Frame /\ g.in # "user"
  BY FrameKinds DEF Frame, PullFrames, CallFrames
<1>3. TopOnly
  BY <1>1 DEF TopOnly, OnlyAt
<1>4. PICK t, f, k : t = Top /\ k = Len(frames) /\ f = frames[k - 1]
  BY Zenon
<1>5. /\ k >= 2 /\ Link(f, t) /\ k \in Nat /\ k - 1 \in 1..(k - 1)
      /\ t = frames[k] /\ t \in Frame /\ FrameOK(t)
  BY <1>1, <1>4, LinkToTop, StackFacts DEF Top, Stack
<1>6. /\ f.in = "pull" => entries[f.e].node # NodeOf(t) /\ f.e \in 1..Len(entries)
      /\ t.in # "user"
      /\ \A d \in 1..Len(entries) : /\ entries'[d].node = entries[d].node
                                    /\ entries'[d].done = entries[d].done
                                    /\ entries'[d].buf = Buf(d)
  BY <1>1, <1>4, <1>5, Beneath, ZenonT(60) DEF FrameOK, OnlyAt, Buf
<1>7. FrameOK(t)' /\ NodeOf(t)' = NodeOf(t)
  BY <1>1, <1>5, <1>6, FrameStays DEF FrameOK
<1>8. Link(f, t)'
  <2>1. f.in = "pull" => entries'[f.e] = entries[f.e]
    BY <1>4, <1>6 DEF OnlyAt
  <2>2. t.in = "pull" => Len(entries'[t.e].buf) = Len(Buf(t.e))
    BY <1>5, <1>6 DEF FrameOK
  <2>. QED BY <1>5, <2>1, <2>2, LinkStays
<1>9. Stack' /\ Links' /\ frames' \in Seq(Frame)
  <2>1. \A h : h = Top => FrameOK(h)' /\ NodeOf(h)' = NodeOf(h) /\ Link(h, g)'
    BY <1>4, <1>7
  <2>2. \A h : Len(frames) > 1 /\ h = frames[Len(frames) - 1] /\ Link(h, Top) =>
            \A i : i = Top => Link(h, i)'
    BY <1>4, <1>8
  <2>. QED BY <1>1, <1>2, <1>3, <2>1, <2>2, StackPushes
<1>10. Types'
  BY <1>1, <1>9 DEF Types, OnlyAt, Answer
<1>11. Tables'
  BY <1>1, TablesStay
<1>12. Sources'
  BY <1>1, SourcesStay
<1>13. frames' # <<>> /\ frames'[1] = frames[1] /\ Top' = g
  BY <1>1, <1>2, <1>9, PushFacts, StackFacts DEF Top
<1>14. Holds'
  BY <1>1, <1>13, HoldsStay DEF OnlyAt
<1>15. Answers'
  BY <1>2, <1>13 DEF Answers
<1>. QED BY <1>9, <1>10, <1>11, <1>12, <1>14, <1>15 DEF Structure

(* Where the current child's triplet is. *)
Pos(e) == IF Lazy(entries[e].node) THEN 1 ELSE entries[e].source.at

(* The current child's triplet moves. *)
LEMMA MovedFacts ==
  ASSUME Structure, InPull, NEW e, e = Top.e, HasChild(e), NEW t \in Trip, NEW s,
         s = Moved(Pulled.source, t)
  PROVE  /\ s \in Source /\ s.at = entries[e].source.at /\ s.emitted = entries[e].source.emitted
         /\ Len(s.open) = Len(entries[e].source.open)
         /\ Pos(e) \in 1..Len(entries[e].source.open)
         /\ s.open[Pos(e)] = t
         /\ \A i \in 1..Len(entries[e].source.open) : i # Pos(e) => s.open[i] = entries[e].source.open[i]
<1>1. /\ Types /\ e \in 1..Len(entries) /\ SourceOK(e) /\ Pulled = entries[e]
      /\ ~Leaf(entries[e].node) /\ entries[e].node \in Node
  BY PullFacts, ChildFacts, EntryFacts DEF Structure
<1>. DEFINE src == entries[e].source
            pos == IF Lazy(entries[e].node) THEN 1 ELSE src.at
<1>2. src \in Source /\ src.open \in Seq(Trip) /\ Len(src.open) \in Nat \ {0} /\ pos \in 1..Len(src.open)
  BY <1>1, EntryFacts, TreeFacts, ChildFacts, SMTT(60) DEF SourceOK, HasChild
<1>3. PICK open : open = [src.open EXCEPT ![pos] = t]
  OBVIOUS
<1>4. /\ open \in Seq(Trip) /\ Len(open) = Len(src.open) /\ open[pos] = t
      /\ \A i \in 1..Len(src.open) : i # pos => open[i] = src.open[i]
  BY <1>2, <1>3, ExceptSeq, SMTT(60)
<1>5. s = [src EXCEPT !.open = open]
  BY <1>1, <1>2, <1>3 DEF Moved
<1>6. s \in Source /\ s.at = src.at /\ s.emitted = src.emitted /\ s.open = open
  BY <1>2, <1>4, <1>5 DEF Source
<1>. QED BY <1>2, <1>4, <1>6 DEF Pos

LEMMA MovedOK ==
  ASSUME Structure, InPull, NEW e, e = Top.e, HasChild(e), NEW t \in Trip, NEW s,
         s = Moved(Pulled.source, t),
         Grown, entries'[e].source = s,
         NEW m, m = Kids[entries[e].node][entries[e].source.at], Reads(t, m)'
  PROVE  SourceOK(e)'
<1>1. /\ Types /\ e \in 1..Len(entries) /\ SourceOK(e) /\ entries'[e].node = entries[e].node
  BY PullFacts, SMTT(60) DEF Structure, Grown
<1>2. PICK n, at, open, p : /\ n = entries[e].node /\ at = entries[e].source.at
                           /\ open = entries[e].source.open /\ p = Pos(e)
  BY Zenon
<1>3. s \in Source /\ s.at = at /\ Len(s.open) = Len(open) /\ p \in 1..Len(open) /\ s.open[p] = t
      /\ \A i \in 1..Len(open) : i # p => s.open[i] = open[i]
  <2>1. /\ s \in Source /\ s.at = entries[e].source.at
        /\ Len(s.open) = Len(entries[e].source.open)
        /\ Pos(e) \in 1..Len(entries[e].source.open)
        /\ s.open[Pos(e)] = t
        /\ \A i \in 1..Len(entries[e].source.open) : i # Pos(e) => s.open[i] = entries[e].source.open[i]
    BY MovedFacts, SMTT(60)
  <2>. QED BY <1>2, <2>1, SMTT(60)
<1>4. n \in Node /\ Len(Kids[n]) \in Nat /\ s.open \in Seq(Trip) /\ m = Kids[n][at]
      /\ n = entries'[e].node /\ s = entries'[e].source
  BY <1>1, <1>2, <1>3, EntryFacts, TreeFacts DEF Source
<1>5. CASE Lazy(n)
  <2>1. s.open # <<>> /\ open # <<>> /\ p = 1
    <3>1. p = 1
      BY <1>2, <1>5 DEF Pos
    <3>2. open \in Seq(Trip) /\ Len(open) >= 1 /\ Len(s.open) >= 1
      <4>1. open \in Seq(Trip) /\ Len(open) \in Nat
        BY <1>1, <1>2, EntryFacts
      <4>2. 1 \in 1..Len(open)
        BY <1>3, <3>1
      <4>. QED BY <1>3, <4>1, <4>2, SMTT(60)
    <3>. QED BY <1>4, <3>1, <3>2
  <2>2. Len(s.open) <= 1 /\ s.at <= Len(Kids[n]) /\ s.at >= 1
    BY <1>1, <1>2, <1>3, <1>5, <2>1, Zenon DEF SourceOK
  <2>3. Reads(s.open[1], Kids[n][s.at])'
    <3>1. s.open[1] = t /\ Kids[n][s.at] = m
      BY <1>3, <1>4, <2>1
    <3>2. PICK so, sk : so = s.open[1] /\ sk = Kids[n][s.at]
      BY Zenon
    <3>. QED BY <3>1, <3>2, Zenon
  <2>. QED BY <1>4, <1>5, <2>1, <2>2, <2>3 DEF SourceOK
<1>6. CASE ~Lazy(n)
  <2>1. p = at
    BY <1>2, <1>6 DEF Pos
  <2>2. Len(open) = Len(Kids[n]) /\ at \in 1..(Len(Kids[n]) + 1)
        /\ \A i \in 1..Len(open) : Reads(open[i], Kids[n][i])
    BY <1>1, <1>2, <1>6, Zenon DEF SourceOK
  <2>3. ASSUME NEW i \in 1..Len(open) PROVE Reads(s.open[i], Kids[n][i])'
    <3>1. CASE i = p
      BY <1>3, <1>4, <2>1, <3>1
    <3>2. CASE i # p
      <4>1. PICK u, k : u = open[i] /\ k = Kids[n][i]
        BY Zenon
      <4>2. Reads(u, k)'
        BY <2>2, <4>1, ReadsStays
      <4>. QED BY <1>3, <3>2, <4>1, <4>2
    <3>. QED BY <3>1, <3>2
  <2>. QED BY <1>3, <1>4, <1>6, <2>2, <2>3 DEF SourceOK
<1>. QED BY <1>5, <1>6

LEMMA PullLeafKeeps ==
  ASSUME Structure, PullLeaf
  PROVE  Structure'
<1>1. PICK e : e = Top.e
  OBVIOUS
<1>2. /\ InPull /\ Types /\ e \in 1..Len(entries) /\ Pulled = entries[e] /\ SourceOK(e)
      /\ entries[e].node \in Node /\ entries[e].source \in Source
  BY <1>1, PullFacts, EntryFacts DEF Structure, PullLeaf
<1>3. CASE entries[e].source.emitted = 0
  <2>1. PICK s : s = [entries[e].source EXCEPT !.emitted = 1]
    OBVIOUS
  <2>2. s \in Source /\ s.at = entries[e].source.at /\ s.open = entries[e].source.open
    BY <1>2, <2>1 DEF Source
  <2>3. Record(e, s, entries[e].node) /\ UNCHANGED <<held, errors>>
    BY <1>1, <1>2, <1>3, <2>1 DEF PullLeaf
  <2>4. Grown /\ entries'[e].source = s => SourceOK(e)'
    BY <1>2, <2>2, SourceStays
  <2>. QED BY <1>1, <1>2, <2>2, <2>3, <2>4, RecordStep
<1>4. CASE entries[e].source.emitted # 0
  <2>1. Commit(e) /\ UNCHANGED <<held, errors>>
    BY <1>1, <1>2, <1>4 DEF PullLeaf
  <2>. QED BY <1>1, <1>2, <2>1, CommitStep
<1>. QED BY <1>3, <1>4

(* What a triplet's next state is. *)
LEMMA NextTrip ==
  ASSUME NEW t \in Trip
  PROVE  /\ [t EXCEPT !.i = t.i + 1] \in Trip
         /\ [t EXCEPT !.i = t.i + 1].src = t.src
         /\ [t EXCEPT !.i = t.i + 1].i = t.i + 1
BY DEF Trip

(* The source has moved past its child. *)
LEMMA PassedOK ==
  ASSUME Structure, InPull, NEW e, e = Top.e, HasChild(e), NEW s, s = Passed(Pulled.source)
  PROVE  /\ s \in Source
         /\ s.emitted = entries[e].source.emitted
         /\ IF Lazy(entries[e].node)
            THEN s.at = entries[e].source.at /\ s.open = <<>>
            ELSE s.at = entries[e].source.at + 1 /\ s.open = entries[e].source.open
         /\ Grown /\ entries'[e].source = s => SourceOK(e)'
<1>1. /\ Types /\ e \in 1..Len(entries) /\ SourceOK(e) /\ Pulled = entries[e]
  BY PullFacts DEF Structure
<1>2. PICK n, at, open : n = entries[e].node /\ at = entries[e].source.at /\ open = entries[e].source.open
  BY Zenon
<1>3. n \in Node /\ Len(Kids[n]) \in Nat /\ open \in Seq(Trip) /\ at \in 1..Len(Kids[n])
      /\ entries[e].source \in Source
  BY <1>1, <1>2, EntryFacts, TreeFacts, ChildFacts
<1>4. /\ s \in Source /\ s.emitted = entries[e].source.emitted
      /\ IF Lazy(n) THEN s.at = at /\ s.open = <<>> ELSE s.at = at + 1 /\ s.open = open
  <2>1. <<>> \in Seq(Trip) /\ at + 1 \in Nat
    BY <1>3
  <2>2. CASE Lazy(n)
    <3>1. s = [entries[e].source EXCEPT !.open = <<>>]
      BY <1>1, <1>2, <2>2 DEF Passed
    <3>. QED BY <1>2, <1>3, <2>1, <2>2, <3>1 DEF Source
  <2>3. CASE ~Lazy(n)
    <3>1. s = [entries[e].source EXCEPT !.at = at + 1]
      BY <1>1, <1>2, <2>3 DEF Passed
    <3>. QED BY <1>2, <1>3, <2>1, <2>3, <3>1 DEF Source
  <2>. QED BY <2>2, <2>3
<1>5. ASSUME Grown, entries'[e].source = s PROVE SourceOK(e)'
  <2>1. entries'[e].node = n
    BY <1>1, <1>2, <1>5 DEF Grown
  <2>2. CASE Lazy(n)
    BY <1>3, <1>4, <1>5, <2>1, <2>2 DEF SourceOK
  <2>3. CASE ~Lazy(n)
    <3>1. Len(open) = Len(Kids[n]) /\ \A i \in 1..Len(Kids[n]) : Reads(open[i], Kids[n][i])
      BY <1>1, <1>2, <2>3 DEF SourceOK
    <3>2. ASSUME NEW i \in 1..Len(Kids[n]) PROVE Reads(entries[e].source.open[i], Kids[n][i])'
      <4>1. PICK u, k : u = open[i] /\ k = Kids[n][i]
        BY Zenon
      <4>2. Reads(u, k)'
        BY <1>5, <3>1, <4>1, ReadsStays
      <4>. QED BY <1>4, <1>5, <2>3, <4>1, <4>2
    <3>. QED BY <1>3, <1>4, <1>5, <2>1, <2>3, <3>1, <3>2 DEF SourceOK
  <2>. QED BY <2>2, <2>3
<1>. QED BY <1>2, <1>4, <1>5

(* The child's triplet, and the child it belongs to. *)
LEMMA ChildTrip ==
  ASSUME Structure, InPull, NEW e, e = Top.e, HasChild(e), NEW t, t = ChildOf(e),
         NEW m, m = Kids[entries[e].node][entries[e].source.at]
  PROVE  /\ Reads(t, m) /\ m \in Node /\ Rank[m] < Rank[entries[e].node]
         /\ t \in Trip /\ t.src \in 1..Len(entries) /\ t.i \in 0..Len(Buf(t.src))
         /\ Len(Buf(t.src)) \in Nat /\ Buf(t.src) \in Seq(Node)
<1>1. Types /\ e \in 1..Len(entries) /\ SourceOK(e) /\ entries[e].node \in Node
  BY PullFacts, EntryFacts DEF Structure
<1>2. Reads(t, m) /\ m \in Node /\ Rank[m] < Rank[entries[e].node]
  BY <1>1, ChildFacts, TreeFacts, Zenon
<1>3. t \in Trip /\ t.src \in 1..Len(entries) /\ t.i <= Len(Buf(t.src)) /\ t.i \in Nat
  BY <1>2, Zenon DEF Reads, Trip
<1>4. Len(Buf(t.src)) \in Nat /\ Buf(t.src) \in Seq(Node)
  BY <1>1, <1>3, EntryFacts
<1>5. t.i \in 0..Len(Buf(t.src))
  BY <1>3, <1>4
<1>. QED BY <1>2, <1>3, <1>4, <1>5, Zenon

(* The child gives its next element. *)
LEMMA ChildGives ==
  ASSUME Structure, InPull, NEW e, e = Top.e, HasChild(e), NEW t, t = ChildOf(e),
         t.i < Len(Buf(t.src)), NEW v, v = Buf(t.src)[t.i + 1],
         Record(e, Moved(Pulled.source, [t EXCEPT !.i = t.i + 1]), v),
         UNCHANGED <<held, errors>>
  PROVE  Structure'
<1>1. PICK m : m = Kids[entries[e].node][entries[e].source.at]
  OBVIOUS
<1>2. /\ Reads(t, m) /\ m \in Node /\ t \in Trip
      /\ t.i \in 0..Len(Buf(t.src)) /\ Len(Buf(t.src)) \in Nat /\ Buf(t.src) \in Seq(Node)
  BY <1>1, ChildTrip
<1>3. PICK u, s : u = [t EXCEPT !.i = t.i + 1] /\ s = Moved(Pulled.source, u)
  BY Zenon
<1>4. u \in Trip /\ u.src = t.src /\ u.i = t.i + 1
  BY <1>2, <1>3, NextTrip
<1>5. Reads(u, m)
  BY <1>2, <1>4 DEF Reads
<1>6. s \in Source
  BY <1>3, <1>4, MovedFacts
<1>7. v \in Node
  <2>1. t.i + 1 \in 1..Len(Buf(t.src))
    BY <1>2, SMTT(60)
  <2>. QED BY <1>2, <2>1
<1>8. Grown /\ entries'[e].source = s => SourceOK(e)'
  <2>1. SUFFICES ASSUME Grown, entries'[e].source = s PROVE SourceOK(e)'
    OBVIOUS
  <2>2. Reads(u, m)'
    BY <1>5, <2>1, ReadsStays
  <2>. QED BY <1>1, <1>3, <1>4, <2>1, <2>2, MovedOK
<1>. QED BY <1>3, <1>6, <1>7, <1>8, RecordStep

(* The child has no more. *)
LEMMA ChildEnds ==
  ASSUME Structure, InPull, NEW e, e = Top.e, HasChild(e),
         entries' = WithSource(e, Passed(Pulled.source)),
         ret' = Nothing, UNCHANGED <<cache, pending, frames, held, errors>>
  PROVE  Structure'
<1>1. PICK s : s = Passed(Pulled.source)
  OBVIOUS
<1>2. s \in Source /\ (Grown /\ entries'[e].source = s => SourceOK(e)')
  BY <1>1, PassedOK
<1>3. Answers'
  BY DEF Answers, Top, Nothing, InPull
<1>4. ret' \in Answer
  BY DEF Answer
<1>. QED BY <1>1, <1>2, <1>3, <1>4, SourceStep

LEMMA PullChildKeeps ==
  ASSUME Structure, PullChild
  PROVE  Structure'
<1>1. PICK e, t : e = Top.e /\ t = Current
  BY Zenon
<1>2. /\ InPull /\ frames # <<>> /\ Top.in = "pull" /\ ret = Nothing
      /\ Types /\ e \in 1..Len(entries) /\ Pulled = entries[e] /\ SourceOK(e)
      /\ entries[e].node \in Node /\ HasChild(e) /\ t = ChildOf(e)
  BY <1>1, PullFacts, EntryFacts DEF Structure, PullChild, InPull
<1>3. PICK m : m = Kids[entries[e].node][entries[e].source.at]
  OBVIOUS
<1>4. /\ Reads(t, m) /\ m \in Node /\ Rank[m] < Rank[entries[e].node]
      /\ t \in Trip /\ t.src \in 1..Len(entries) /\ t.i \in 0..Len(Buf(t.src))
      /\ Len(Buf(t.src)) \in Nat
  BY <1>1, <1>2, <1>3, ChildTrip, Zenon
<1>5. CASE t.i < Len(Buf(t.src))
  <2>1. PICK v : v = Buf(t.src)[t.i + 1]
    OBVIOUS
  <2>2. Record(e, Moved(Pulled.source, [t EXCEPT !.i = t.i + 1]), v) /\ UNCHANGED <<held, errors>>
    BY <1>1, <1>4, <1>5, <2>1 DEF PullChild
  <2>. QED BY <1>1, <1>2, <1>5, <2>1, <2>2, ChildGives
<1>6. CASE t.i >= Len(Buf(t.src)) /\ entries[t.src].done
  <2>1. /\ entries' = WithSource(e, Passed(Pulled.source))
        /\ ret' = Nothing /\ UNCHANGED <<cache, pending, frames, held, errors>>
    BY <1>1, <1>2, <1>4, <1>6 DEF PullChild
  <2>. QED BY <1>1, <1>2, <2>1, ChildEnds
<1>7. CASE t.i >= Len(Buf(t.src)) /\ ~entries[t.src].done
  <2>1. PICK g : g = PullFrame(t.src)
    OBVIOUS
  <2>2. /\ frames' = Append(frames, g) /\ ret' = Nothing
        /\ UNCHANGED <<cache, pending, entries, held, errors>>
    BY <1>1, <1>2, <1>4, <1>7, <2>1 DEF PullChild
  <2>3. g \in PullFrames /\ g.in = "pull" /\ g.e = t.src
    BY <1>4, <2>1 DEF PullFrames, PullFrame
  <2>4. FrameOK(g)' /\ NodeOf(g)' = m
    BY <1>4, <1>7, <2>2, <2>3 DEF FrameOK, NodeOf, Reads
  <2>5. ASSUME NEW f, f = Top PROVE Link(f, g)'
    <3>1. f.in = "pull" /\ f.e = e
      BY <1>1, <1>2, <2>5
    <3>2. HasChild(e)' /\ ChildOf(e)' = t /\ Len(Buf(t.src))' = t.i
      <4>1. Len(Buf(t.src)) = t.i
        BY <1>4, <1>7
      <4>2. Len(entries'[t.src].buf) = t.i
        BY <2>2, <4>1 DEF Buf
      <4>3. HasChild(e)' /\ ChildOf(e)' = t
        BY <1>2, <2>2 DEF HasChild, ChildOf
      <4>. QED BY <4>2, <4>3 DEF Buf
    <3>. QED BY <2>3, <3>1, <3>2 DEF Link
  <2>6. NodeOf(Top) = entries[e].node
    BY <1>1, <1>2 DEF NodeOf
  <2>7. OnlyAt(e) /\ Grown /\ entries'[e].buf = Buf(e)
    BY <1>2, <2>2, UnchangedEffect DEF Buf
  <2>8. SourceOK(e)'
    BY <1>2, <2>2, <2>7, SourceStays
  <2>. QED BY <1>2, <1>4, <2>2, <2>3, <2>4, <2>5, <2>6, <2>7, <2>8, PushStep
<1>. QED BY <1>4, <1>5, <1>6, <1>7

LEMMA ChildAnswersKeeps ==
  ASSUME Structure, ChildAnswers
  PROVE  Structure'
<1>1. PICK e, t : e = Top.e /\ t = ChildOf(e)
  BY Zenon
<1>2. /\ InPull /\ frames # <<>> /\ Top.in = "pull" /\ ret.is \in {"value", "end"}
      /\ Pulled = entries[e] /\ Answers
  BY <1>1, PullFacts DEF Structure, ChildAnswers, InPull
<1>3. HasChild(e) /\ Told(t)
  BY <1>1, <1>2 DEF Answers, Nothing
<1>4. t = Current
  BY <1>1, <1>2, <1>3, PullFacts DEF Structure
<1>5. CASE ret.is = "value"
  <2>1. t.i + 1 = Len(Buf(t.src)) /\ ret.v = Buf(t.src)[t.i + 1]
    BY <1>3, <1>5 DEF Told
  <2>2. t.i < Len(Buf(t.src))
    <3>1. t.i \in 0..Len(Buf(t.src)) /\ Len(Buf(t.src)) \in Nat
      BY <1>1, <1>2, <1>3, ChildTrip
    <3>. QED BY <2>1, <3>1
  <2>3. PICK v : v = ret.v
    OBVIOUS
  <2>4. Record(e, Moved(Pulled.source, [t EXCEPT !.i = t.i + 1]), v) /\ UNCHANGED <<held, errors>>
    BY <1>1, <1>4, <1>5, <2>3 DEF ChildAnswers
  <2>. QED BY <1>1, <1>2, <1>3, <2>1, <2>2, <2>3, <2>4, ChildGives
<1>6. CASE ret.is = "end"
  <2>1. /\ entries' = WithSource(e, Passed(Pulled.source))
        /\ ret' = Nothing /\ UNCHANGED <<cache, pending, frames, held, errors>>
    BY <1>1, <1>6 DEF ChildAnswers
  <2>. QED BY <1>1, <1>2, <1>3, <2>1, ChildEnds
<1>. QED BY <1>2, <1>5, <1>6

LEMMA PullExhaustedKeeps ==
  ASSUME Structure, PullExhausted
  PROVE  Structure'
<1>1. PICK e : e = Top.e
  OBVIOUS
<1>2. InPull /\ Commit(e) /\ UNCHANGED <<held, errors>>
  BY <1>1 DEF PullExhausted
<1>. QED BY <1>1, <1>2, CommitStep

(* What the phase's call answers at once is a triplet of the node. *)
LEMMA CallPhaseEffect ==
  ASSUME Types, Tables, NEW n \in Node, NEW fs, CallPhase(n, fs)
  PROVE  \/ /\ frames' = fs
            /\ \E t \in Trip : ret' = Triplet(t) /\ t.i = 0 /\ Reads(t, n)
         \/ /\ frames' = Append(fs, CallFrame(n)) /\ ret' = Nothing
            /\ cache[n] = Nil /\ pending[n] = Nil
<1>1. CASE cache[n] # Nil
  <2>1. PICK t : t = [kind |-> "seq", src |-> cache[n], i |-> 0]
    OBVIOUS
  <2>2. cache[n] \in 1..Len(entries) /\ entries[cache[n]].node = n /\ Len(Buf(cache[n])) \in Nat
    BY <1>1, EntryFacts DEF Tables
  <2>3. t \in Trip /\ t.i = 0 /\ Reads(t, n)
    BY <2>1, <2>2 DEF Trip, Reads
  <2>. QED BY <1>1, <2>1, <2>3 DEF CallPhase
<1>2. CASE cache[n] = Nil /\ pending[n] # Nil
  <2>1. PICK t : t = [kind |-> "rec", src |-> pending[n], i |-> 0]
    OBVIOUS
  <2>2. pending[n] \in 1..Len(entries) /\ entries[pending[n]].node = n /\ Len(Buf(pending[n])) \in Nat
    BY <1>2, EntryFacts DEF Tables
  <2>3. t \in Trip /\ t.i = 0 /\ Reads(t, n)
    BY <2>1, <2>2 DEF Trip, Reads
  <2>. QED BY <1>2, <2>1, <2>3 DEF CallPhase
<1>3. CASE cache[n] = Nil /\ pending[n] = Nil
  BY <1>3 DEF CallPhase
<1>. QED BY <1>1, <1>2, <1>3

(* The frame of a handler that has just been entered. *)
LEMMA CallFrameFacts ==
  ASSUME NEW n \in Node, cache[n] = Nil, pending[n] = Nil, UNCHANGED <<cache, pending>>
  PROVE  /\ CallFrame(n) \in CallFrames /\ CallFrame(n).in = "call" /\ CallFrame(n).node = n
         /\ FrameOK(CallFrame(n))'
         /\ NodeOf(CallFrame(n))' = n
<1>1. CallFrame(n).in = "call" /\ CallFrame(n).node = n /\ CallFrame(n).trips = <<>>
  BY DEF CallFrame
<1>2. CallFrame(n) \in CallFrames
  BY DEF CallFrame, CallFrames
<1>3. FrameOK(CallFrame(n))'
  BY <1>1, TreeFacts DEF FrameOK
<1>4. NodeOf(CallFrame(n))' = n
  BY <1>1 DEF NodeOf
<1>. QED BY <1>1, <1>2, <1>3, <1>4

LEMMA PullNextChildKeeps ==
  ASSUME Structure, PullNextChild
  PROVE  Structure'
<1>1. PICK e, i, s, n : /\ e = Top.e /\ i = Pulled.source.at + 1
                        /\ s = [Pulled.source EXCEPT !.at = i] /\ n = Kids[Pulled.node][i]
  BY Zenon
<1>2. /\ InPull /\ frames # <<>> /\ Top.in = "pull" /\ ret = Nothing
      /\ Types /\ Tables /\ e \in 1..Len(entries) /\ Pulled = entries[e] /\ SourceOK(e)
      /\ entries[e].node \in Node /\ ~HasChild(e) /\ Lazy(entries[e].node)
      /\ i <= Len(Kids[entries[e].node])
  BY <1>1, PullFacts, EntryFacts DEF Structure, PullNextChild, InPull
<1>3. i \in 1..Len(Kids[entries[e].node]) /\ n \in Node /\ Rank[n] < Rank[entries[e].node]
  <2>1. entries[e].source.at \in Nat /\ Len(Kids[entries[e].node]) \in Nat
    BY <1>2, EntryFacts, TreeFacts
  <2>2. i = entries[e].source.at + 1 /\ n = Kids[entries[e].node][i]
    BY <1>1, <1>2
  <2>3. i \in 1..Len(Kids[entries[e].node])
    BY <1>2, <2>1, <2>2
  <2>. QED BY <1>2, <2>2, <2>3, TreeFacts
<1>4. entries[e].source.open = <<>>
  BY <1>2 DEF HasChild
<1>5. s \in Source /\ s.at = i /\ s.open = <<>>
  <2>1. entries[e].source \in Source
    BY <1>2, EntryFacts
  <2>2. s = [entries[e].source EXCEPT !.at = i]
    BY <1>1, <1>2
  <2>3. i \in Nat
    BY <1>3
  <2>. QED BY <1>4, <2>1, <2>2, <2>3 DEF Source
<1>6. /\ entries' = WithSource(e, s) /\ CallPhase(n, frames)
      /\ UNCHANGED <<cache, pending, held, errors>>
  BY <1>1, <1>2, Zenon DEF PullNextChild
<1>7. OnlyAt(e) /\ Grown /\ entries'[e].buf = Buf(e) /\ entries'[e].source = s
  BY <1>2, <1>5, <1>6, SourceEffect
<1>8. SourceOK(e)'
  BY <1>2, <1>3, <1>5, <1>7, TreeFacts DEF SourceOK, OnlyAt
<1>9. Asks(e, n)'
  <2>1. entries'[e].node = entries[e].node
    BY <1>2, <1>7 DEF OnlyAt
  <2>. QED BY <1>1, <1>2, <1>3, <1>5, <1>7, <2>1, Zenon DEF Asks
<1>10. CASE frames' = frames /\ \E t \in Trip : ret' = Triplet(t) /\ t.i = 0 /\ Reads(t, n)
  <2>1. PICK t \in Trip : ret' = Triplet(t) /\ t.i = 0 /\ Reads(t, n)
    BY <1>10
  <2>2. ret' \in Answer /\ ret'.is = "triplet" /\ ret'.trip = t
    BY <2>1 DEF Answer, Triplet
  <2>3. Answers'
    <3>1. Reads(t, n)'
      BY <1>7, <2>1, ReadsStays
    <3>2. Top' = Top
      BY <1>10 DEF Top
    <3>. QED BY <1>1, <1>2, <1>3, <1>9, <1>10, <2>1, <2>2, <3>1, <3>2, Zenon DEF Answers
  <2>. QED BY <1>1, <1>2, <1>5, <1>6, <1>7, <1>8, <1>10, <2>2, <2>3, SourceStep, Zenon
<1>11. CASE /\ frames' = Append(frames, CallFrame(n)) /\ ret' = Nothing
            /\ cache[n] = Nil /\ pending[n] = Nil
  <2>1. PICK g : g = CallFrame(n)
    OBVIOUS
  <2>2. g \in CallFrames /\ g.in = "call" /\ g.node = n /\ FrameOK(g)' /\ NodeOf(g)' = n
    BY <1>3, <1>6, <1>11, <2>1, CallFrameFacts
  <2>3. ASSUME NEW f, f = Top PROVE Link(f, g)'
    <3>1. f.in = "pull" /\ f.e = e
      BY <1>1, <1>2, <2>3
    <3>. QED BY <1>9, <2>2, <3>1 DEF Link
  <2>4. NodeOf(Top) = entries[e].node
    BY <1>1, <1>2 DEF NodeOf
  <2>. QED BY <1>2, <1>3, <1>6, <1>7, <1>8, <1>11, <2>1, <2>2, <2>3, <2>4, PushStep
<1>. QED BY <1>2, <1>3, <1>6, <1>10, <1>11, CallPhaseEffect

LEMMA ChildCalledKeeps ==
  ASSUME Structure, ChildCalled
  PROVE  Structure'
<1>1. PICK e, t : e = Top.e /\ t = ret.trip
  BY Zenon
<1>2. /\ InPull /\ frames # <<>> /\ Top.in = "pull" /\ ret.is = "triplet"
      /\ Types /\ e \in 1..Len(entries) /\ Pulled = entries[e] /\ Answers
      /\ entries[e].node \in Node
  BY <1>1, PullFacts, EntryFacts DEF Structure, ChildCalled, InPull
<1>3. PICK n \in Node : Asks(e, n) /\ Reads(t, n)
  BY <1>1, <1>2 DEF Answers, Told, Nothing
<1>4. PICK s : s = [entries[e].source EXCEPT !.open = <<t>>]
  OBVIOUS
<1>5. s \in Source /\ s.at = entries[e].source.at /\ s.open = <<t>>
  <2>1. entries[e].source \in Source /\ t \in Trip
    BY <1>2, <1>3, EntryFacts DEF Reads
  <2>2. <<t>> \in Seq(Trip)
    BY <2>1
  <2>3. PICK o : o = <<t>>
    OBVIOUS
  <2>4. s = [entries[e].source EXCEPT !.open = o] /\ o \in Seq(Trip)
    BY <1>4, <2>2, <2>3
  <2>5. s \in Source /\ s.at = entries[e].source.at /\ s.open = o
    BY <2>1, <2>4 DEF Source
  <2>. QED BY <2>3, <2>5
<1>6. /\ entries' = WithSource(e, s) /\ ret' = Nothing
      /\ UNCHANGED <<cache, pending, held, frames, errors>>
  BY <1>1, <1>2, <1>4 DEF ChildCalled
<1>7. Grown /\ entries'[e].source = s => SourceOK(e)'
  <2>1. SUFFICES ASSUME Grown, entries'[e].source = s PROVE SourceOK(e)'
    OBVIOUS
  <2>2. Reads(t, n)' /\ entries'[e].node = entries[e].node
    BY <1>2, <1>3, <2>1, ReadsStays DEF Grown
  <2>3. /\ Lazy(entries[e].node) /\ n = Kids[entries[e].node][s.at]
        /\ s.at \in 1..Len(Kids[entries[e].node]) /\ Len(Kids[entries[e].node]) \in Nat
    BY <1>2, <1>3, <1>5, TreeFacts DEF Asks
  <2>4. Len(s.open) = 1 /\ s.open[1] = t
    BY <1>5
  <2>. QED BY <2>1, <2>2, <2>3, <2>4 DEF SourceOK
<1>8. Answers'
  BY <1>2, <1>6 DEF Answers, Top
<1>9. ret' \in Answer
  BY <1>6 DEF Answer
<1>. QED BY <1>1, <1>2, <1>5, <1>6, <1>7, <1>8, <1>9, SourceStep

(* Where the recordings stay as they are. *)
LEMMA SameRecordings ==
  ASSUME Types, Tables, Sources, UNCHANGED <<cache, pending, entries>>
  PROVE  /\ Tables' /\ Sources'
         /\ \A t, n : Reads(t, n)' <=> Reads(t, n)
         /\ \A f : (FrameOK(f)' <=> FrameOK(f)) /\ NodeOf(f)' = NodeOf(f)
         /\ \A e : (HasChild(e)' <=> HasChild(e)) /\ ChildOf(e)' = ChildOf(e)
         /\ \A e, n : Asks(e, n)' <=> Asks(e, n)
<1>1. \A t, n : Reads(t, n)' <=> Reads(t, n)
  BY DEF Reads, Buf
<1>2. Tables'
  BY TablesStay, UnchangedEffect
<1>3. Sources'
  <2>1. OnlyAt(Nil) /\ Grown /\ Nil \notin 1..Len(entries)
    BY UnchangedEffect DEF Nil, Types
  <2>. QED BY <2>1, SourcesStay
<1>4. ASSUME NEW f PROVE (FrameOK(f)' <=> FrameOK(f)) /\ NodeOf(f)' = NodeOf(f)
  BY <1>1 DEF FrameOK, NodeOf
<1>5. ASSUME NEW e PROVE /\ (HasChild(e)' <=> HasChild(e)) /\ ChildOf(e)' = ChildOf(e)
                         /\ \A n : Asks(e, n)' <=> Asks(e, n)
  BY DEF HasChild, ChildOf, Asks
<1>. QED BY <1>1, <1>2, <1>3, <1>4, <1>5

LEMMA SameStack ==
  ASSUME Types, Tables, Sources, Stack, Links, UNCHANGED <<cache, pending, entries, held, frames>>
  PROVE  Stack' /\ Links'
<1>1. /\ \A f : (FrameOK(f)' <=> FrameOK(f)) /\ NodeOf(f)' = NodeOf(f)
      /\ \A e : (HasChild(e)' <=> HasChild(e)) /\ ChildOf(e)' = ChildOf(e)
      /\ \A e, n : Asks(e, n)' <=> Asks(e, n)
  BY SameRecordings
<1>2. ASSUME NEW j PROVE (FrameOK(frames[j])' <=> FrameOK(frames[j])) /\ NodeOf(frames[j])' = NodeOf(frames[j])
  <2>1. PICK f : f = frames[j]
    OBVIOUS
  <2>2. (FrameOK(f)' <=> FrameOK(f)) /\ NodeOf(f)' = NodeOf(f)
    BY <1>1
  <2>. QED BY <2>1, <2>2
<1>3. Stack'
  BY <1>2 DEF Stack
<1>4. ASSUME NEW f, NEW g, Link(f, g) PROVE Link(f, g)'
  BY <1>1, <1>4 DEF Link, Buf, CallsNext
<1>5. Links'
  <2>1. ASSUME NEW j \in 2..Len(frames) PROVE Link(frames[j - 1], frames[j])'
    <3>1. PICK f, g : f = frames[j - 1] /\ g = frames[j]
      BY Zenon
    <3>2. Link(f, g)'
      BY <1>4, <3>1 DEF Links
    <3>. QED BY <3>1, <3>2
  <2>. QED BY <2>1 DEF Links
<1>. QED BY <1>3, <1>5

(* The handler on top. *)
LEMMA CallFacts ==
  ASSUME Structure, InCall
  PROVE  /\ frames # <<>> /\ Top.in = "call" /\ Top \in CallFrames
         /\ Top.node \in Node /\ Top.trips \in Seq(Trip) /\ Len(Top.trips) \in Nat
         /\ FrameOK(Top) /\ NodeOf(Top) = Top.node
<1>1. Types /\ Stack /\ frames # <<>> /\ Top.in = "call" /\ Top \in Frame /\ FrameOK(Top)
  <2>1. Types /\ Stack /\ frames # <<>> /\ Top.in = "call"
    BY DEF Structure, InCall
  <2>2. Top \in Frame /\ Len(frames) \in 1..Len(frames)
    BY <2>1, StackFacts
  <2>. QED BY <2>1, <2>2 DEF Stack, Top
<1>. QED BY <1>1, FrameKinds DEF CallFrames, NodeOf

LEMMA HandlerCallsKeeps ==
  ASSUME Structure, HandlerCalls
  PROVE  Structure'
<1>1. PICK t, n : t = Top /\ n = Kids[Top.node][Len(Top.trips) + 1]
  BY Zenon
<1>2. /\ frames # <<>> /\ t.in = "call" /\ t.node \in Node /\ Len(t.trips) \in Nat
      /\ FrameOK(t) /\ NodeOf(t) = t.node
      /\ Types /\ Tables /\ Stack /\ Links /\ Sources /\ Holds /\ ret = Nothing
  BY <1>1, CallFacts DEF Structure, HandlerCalls
<1>3. CallPhase(n, frames) /\ UNCHANGED <<cache, pending, entries, held, errors>>
  BY <1>1 DEF HandlerCalls
<1>4. CallsNext(t, n) /\ n \in Node /\ Rank[n] < Rank[t.node]
  <2>1. ~Lazy(t.node) /\ Len(t.trips) < Len(Kids[t.node])
    BY <1>1 DEF HandlerCalls
  <2>2. Len(t.trips) + 1 \in 1..Len(Kids[t.node])
    BY <1>2, <2>1, TreeFacts
  <2>. QED BY <1>1, <1>2, <2>1, <2>2, TreeFacts DEF CallsNext
<1>5. CASE frames' = frames /\ \E u \in Trip : ret' = Triplet(u) /\ u.i = 0 /\ Reads(u, n)
  <2>1. PICK u \in Trip : ret' = Triplet(u) /\ u.i = 0 /\ Reads(u, n)
    BY <1>5
  <2>2. ret' \in Answer /\ ret'.is = "triplet" /\ ret'.trip = u
    BY <2>1 DEF Answer, Triplet
  <2>3. Reads(u, n)' /\ Top' = Top
    BY <1>3, <1>5, <2>1 DEF Reads, Buf, Top
  <2>4. Answers'
    BY <1>1, <1>2, <1>4, <1>5, <2>1, <2>2, <2>3 DEF Answers
  <2>5. Types'
    BY <1>2, <1>3, <1>5, <2>2 DEF Types
  <2>6. Holds'
    BY <1>2, <1>3, <1>5 DEF Holds, Reads, Buf
  <2>7. Tables' /\ Sources'
    BY <1>2, <1>3, SameRecordings
  <2>8. Stack' /\ Links'
    BY <1>2, <1>3, <1>5, SameStack, SMTT(60)
  <2>. QED BY <2>4, <2>5, <2>6, <2>7, <2>8 DEF Structure
<1>6. CASE /\ frames' = Append(frames, CallFrame(n)) /\ ret' = Nothing
           /\ cache[n] = Nil /\ pending[n] = Nil
  <2>1. PICK g : g = CallFrame(n)
    OBVIOUS
  <2>2. g \in CallFrames /\ g.in = "call" /\ g.node = n /\ FrameOK(g)' /\ NodeOf(g)' = n
    BY <1>3, <1>4, <1>6, <2>1, CallFrameFacts
  <2>3. ASSUME NEW f, f = Top PROVE Link(f, g)'
    BY <1>1, <1>2, <1>4, <2>2, <2>3 DEF Link, CallsNext
  <2>4. OnlyAt(Nil) /\ Grown /\ Nil \notin 1..Len(entries)
    BY <1>2, <1>3, UnchangedEffect DEF Nil
  <2>. QED BY <1>1, <1>2, <1>3, <1>4, <1>6, <2>1, <2>2, <2>3, <2>4, PushStep
<1>. QED BY <1>2, <1>3, <1>4, <1>5, <1>6, CallPhaseEffect

LEMMA HandlerGetsKeeps ==
  ASSUME Structure, HandlerGets
  PROVE  Structure'
<1>1. PICK t, g, u : t = Top /\ g = [Top EXCEPT !.trips = Append(Top.trips, ret.trip)] /\ u = ret.trip
  BY Zenon
<1>2. /\ frames # <<>> /\ t.in = "call" /\ t \in CallFrames /\ t.node \in Node
      /\ Len(t.trips) \in Nat /\ t.trips \in Seq(Trip)
      /\ FrameOK(t) /\ NodeOf(t) = t.node /\ InCall
      /\ Types /\ Tables /\ Stack /\ Links /\ Sources /\ Holds /\ Answers /\ ret.is = "triplet"
  BY <1>1, CallFacts DEF Structure, HandlerGets
<1>3. PICK n \in Node : CallsNext(t, n) /\ Reads(u, n) /\ u.i = 0
  BY <1>1, <1>2 DEF Answers, Nothing
<1>4. g \in CallFrames /\ g.in = "call" /\ g.node = t.node /\ g.trips = Append(t.trips, u)
  <2>1. u \in Trip
    BY <1>3 DEF Reads
  <2>2. Append(t.trips, u) \in Seq(Trip)
    BY <1>2, <2>1
  <2>. QED BY <1>1, <1>2, <2>2 DEF CallFrames
<1>5. /\ frames' = Append(Below, g) /\ ret' = Nothing
      /\ UNCHANGED <<cache, pending, entries, held, errors>>
  BY <1>1 DEF HandlerGets
<1>6. /\ Len(frames) \in Nat \ {0} /\ frames' \in Seq(Frame) /\ Len(frames') = Len(frames) /\ Top' = g
      /\ \A j \in 1..(Len(frames) - 1) : frames'[j] = frames[j]
  <2>1. /\ Len(frames) \in Nat \ {0} /\ Below \in Seq(Frame) /\ Len(Below) = Len(frames) - 1
        /\ \A j \in 1..(Len(frames) - 1) : Below[j] = frames[j]
    BY <1>2, StackFacts
  <2>2. g \in Frame
    BY <1>4 DEF Frame
  <2>3. /\ frames' \in Seq(Frame) /\ Len(frames') = Len(Below) + 1 /\ frames'[Len(Below) + 1] = g
        /\ \A j \in 1..Len(Below) : frames'[j] = Below[j]
    BY <1>5, <2>1, <2>2, AppendProperties
  <2>. QED BY <2>1, <2>3 DEF Top
<1>7. FrameOK(g)
  <2>1. Len(g.trips) = Len(t.trips) + 1 /\ Len(Kids[t.node]) \in Nat
        /\ g.trips[Len(t.trips) + 1] = u /\ \A i \in 1..Len(t.trips) : g.trips[i] = t.trips[i]
    BY <1>2, <1>4, TreeFacts
  <2>2. /\ ~Lazy(t.node) /\ Len(t.trips) + 1 <= Len(Kids[t.node])
        /\ n = Kids[t.node][Len(t.trips) + 1]
    BY <1>2, <1>3, TreeFacts DEF CallsNext
  <2>3. ASSUME NEW i \in 1..Len(g.trips) PROVE Reads(g.trips[i], Kids[t.node][i]) /\ g.trips[i].i = 0
    <3>1. i \in 1..Len(t.trips) \/ i = Len(t.trips) + 1
      BY <1>2, <2>1
    <3>. QED BY <1>2, <1>3, <2>1, <2>2, <3>1 DEF FrameOK
  <2>. QED BY <1>2, <1>4, <2>1, <2>2, <2>3 DEF FrameOK
<1>8. OnlyAt(Nil) /\ Grown /\ TopOnly
  BY <1>2, <1>5, UnchangedEffect DEF TopOnly
<1>9. FrameOK(g)' /\ NodeOf(g)' = NodeOf(t)
  BY <1>2, <1>4, <1>5, <1>7 DEF FrameOK, NodeOf, Reads, Buf
<1>10. PICK f : f = frames[Len(frames) - 1]
  OBVIOUS
<1>11. Link(f, g)'
  <2>1. Link(f, t)
    BY <1>1, <1>2, <1>10, LinkToTop
  <2>. QED BY <1>2, <1>4, <1>5, <2>1 DEF Link, Asks, CallsNext
<1>12. Len(frames) # 1 /\ f = frames'[Len(frames) - 1] /\ g = frames'[Len(frames)]
  <2>1. Len(frames) >= 2 /\ Len(frames) - 1 \in 1..(Len(frames) - 1)
    BY <1>1, <1>2, LinkToTop
  <2>. QED BY <1>6, <1>10, <2>1 DEF Top
<1>13. Stack' /\ Links'
  <2>1. Top'.in = Top.in /\ FrameOK(Top)' /\ NodeOf(Top)' = NodeOf(Top) /\ Top.in # "user"
    BY <1>1, <1>2, <1>4, <1>6, <1>9
  <2>2. Link(frames[Len(frames) - 1], frames[Len(frames)])'
    BY <1>6, <1>11, <1>12
  <2>. QED BY <1>2, <1>6, <1>8, <2>1, <2>2, StackTurns
<1>14. Types' /\ Tables' /\ Sources'
  <2>1. Types'
    BY <1>2, <1>5, <1>6 DEF Types, Answer
  <2>. QED BY <1>2, <1>5, <2>1, SameRecordings
<1>15. frames'[1] = frames[1] /\ frames' # <<>>
  <2>1. 1 \in 1..(Len(frames) - 1)
    BY <1>6, <1>12
  <2>. QED BY <1>6, <2>1
<1>16. Holds'
  BY <1>2, <1>5, <1>8, <1>15, HoldsStay DEF OnlyAt
<1>17. Answers'
  BY <1>4, <1>5, <1>6 DEF Answers
<1>. QED BY <1>13, <1>14, <1>16, <1>17 DEF Structure

(* begin_recording: the handler on top gives its node's recording. *)
LEMMA HandlerReturnsKeeps ==
  ASSUME Structure, HandlerReturns
  PROVE  Structure'
<1>1. PICK t, n, trips, l : t = Top /\ n = Top.node /\ trips = Top.trips /\ l = Len(entries) + 1
  BY Zenon
<1>2. /\ frames # <<>> /\ t.in = "call" /\ n \in Node /\ trips \in Seq(Trip) /\ Len(trips) \in Nat
      /\ FrameOK(t) /\ NodeOf(t) = n
      /\ Types /\ Tables /\ Stack /\ Links /\ Sources /\ Holds
  BY <1>1, CallFacts DEF Structure, HandlerReturns
<1>3. Begin(n, trips) /\ UNCHANGED <<cache, held, errors>>
  BY <1>1 DEF HandlerReturns
<1>4. PICK trip : trip = [kind |-> "rec", src |-> l, i |-> 0]
  OBVIOUS
<1>5. /\ pending' = [pending EXCEPT ![n] = l] /\ ret' = Triplet(trip) /\ frames' = Below
  BY <1>1, <1>3, <1>4 DEF Begin
<1>6. /\ entries' \in Seq(Entry) /\ Len(entries') = l /\ Grown /\ l \in Nat /\ l = Len(entries) + 1
      /\ \A f \in 1..Len(entries) : entries'[f] = entries[f]
      /\ entries'[l].node = n /\ entries'[l].buf = <<>> /\ ~entries'[l].done
      /\ entries'[l].source = SourceOf(n, trips)
  BY <1>1, <1>2, <1>3, BeginEffect DEF Types
<1>7. cache[n] = Nil /\ pending[n] = Nil
  BY <1>1, <1>2 DEF FrameOK
<1>8. \A m \in Node : pending'[m] = IF m = n THEN l ELSE pending[m]
  BY <1>2, <1>5 DEF Types
<1>9. TopOnly
  BY <1>1, <1>2, <1>3, <1>6, <1>8 DEF TopOnly
<1>10. Stack' /\ Links' /\ frames' \in Seq(Frame)
  BY <1>2, <1>5, <1>6, <1>9, StackPops
<1>11. trip \in Trip /\ trip.src = l /\ trip.i = 0
  BY <1>4, <1>6 DEF Trip
<1>12. Types'
  <2>1. pending' \in [Node -> Nat]
    BY <1>2, <1>5, <1>6 DEF Types
  <2>2. ret' \in Answer
    BY <1>5, <1>11 DEF Answer, Triplet
  <2>. QED BY <1>2, <1>3, <1>6, <1>10, <2>1, <2>2 DEF Types
<1>13. Tables'
  <2>1. \A f \in 1..l : f = l \/ f \in 1..Len(entries)
    BY <1>2, <1>6 DEF Types
  <2>2. l \in 1..l /\ l # Nil /\ \A f \in 1..Len(entries) : f \in 1..l
    BY <1>2, <1>6 DEF Types, Nil
  <2>3. ASSUME NEW m \in Node
        PROVE  /\ cache[m] # Nil => /\ cache[m] \in 1..l
                                    /\ entries'[cache[m]].node = m
                                    /\ entries'[cache[m]].done
               /\ pending'[m] # Nil => /\ pending'[m] \in 1..l
                                       /\ entries'[pending'[m]].node = m
                                       /\ ~entries'[pending'[m]].done
    <3>1. CASE m = n
      BY <1>6, <1>7, <1>8, <2>2, <3>1
    <3>2. CASE m # n
      BY <1>2, <1>6, <1>8, <2>2, <3>2 DEF Tables
    <3>. QED BY <3>1, <3>2
  <2>4. ASSUME NEW f \in 1..l
        PROVE  IF entries'[f].done THEN cache[entries'[f].node] = f /\ pending'[entries'[f].node] = Nil
                                   ELSE pending'[entries'[f].node] = f /\ cache[entries'[f].node] = Nil
    <3>1. CASE f = l
      BY <1>2, <1>6, <1>7, <1>8, <3>1
    <3>2. CASE f # l
      <4>1. f \in 1..Len(entries) /\ entries'[f] = entries[f] /\ entries[f].node \in Node
        BY <1>2, <1>6, <2>1, <3>2, EntryFacts
      <4>2. entries[f].node # n
        BY <1>2, <1>7, <4>1 DEF Tables, Nil
      <4>. QED BY <1>2, <1>8, <4>1, <4>2 DEF Tables
    <3>. QED BY <3>1, <3>2
  <2>. QED BY <1>3, <1>6, <2>3, <2>4 DEF Tables
<1>14. Sources'
  <2>1. ASSUME NEW f \in 1..Len(entries) PROVE SourceOK(f)'
    BY <1>2, <1>6, <2>1, SourceStays DEF Sources
  <2>2. SourceOK(l)'
    <3>1. Lazy(n) \/ Len(trips) = Len(Kids[n])
      BY <1>1 DEF HandlerReturns
    <3>2. /\ Lazy(n) => trips = <<>>
          /\ \A i \in 1..Len(trips) : Reads(trips[i], Kids[n][i])
      BY <1>1, <1>2 DEF FrameOK
    <3>3. Len(Kids[n]) \in Nat
      BY <1>2, TreeFacts
    <3>4. CASE Lazy(n)
      BY <1>6, <3>2, <3>3, <3>4 DEF SourceOK, SourceOf
    <3>5. CASE ~Lazy(n)
      <4>1. ASSUME NEW i \in 1..Len(Kids[n]) PROVE Reads(trips[i], Kids[n][i])'
        <5>1. PICK u, k : u = trips[i] /\ k = Kids[n][i]
          BY Zenon
        <5>2. Reads(u, k)'
          BY <1>6, <3>1, <3>2, <3>5, <5>1, ReadsStays
        <5>. QED BY <5>1, <5>2
      <4>. QED BY <1>6, <3>1, <3>3, <3>5, <4>1 DEF SourceOK, SourceOf
    <3>. QED BY <3>4, <3>5
  <2>3. \A f \in 1..l : f = l \/ f \in 1..Len(entries)
    BY <1>2, <1>6 DEF Types
  <2>. QED BY <1>6, <2>1, <2>2, <2>3 DEF Sources
<1>15. Below # <<>> /\ Below[1] = frames[1] /\ Below[Len(Below)] = frames[Len(frames) - 1]
       /\ Link(frames[Len(frames) - 1], Top)
  BY <1>1, <1>2, LinkToTop, BottomStays
<1>16. Holds'
  BY <1>2, <1>3, <1>5, <1>6, <1>15, HoldsStay
<1>17. Answers'
  <2>1. PICK f : f = frames[Len(frames) - 1]
    OBVIOUS
  <2>2. Top' = f /\ frames' # <<>>
    BY <1>5, <1>15, <2>1 DEF Top
  <2>3. f \in Frame /\ FrameOK(f) /\ (f.in = "pull" => entries[f.e].node # n)
    <3>1. Len(frames) - 1 \in 1..(Len(frames) - 1)
      BY <1>1, <1>2, LinkToTop
    <3>. QED BY <1>1, <1>2, <2>1, <3>1, Beneath
  <2>4. Reads(trip, n)' /\ ret'.is = "triplet" /\ ret'.trip = trip /\ trip.i = 0
    <3>1. l \in 1..Len(entries') /\ Len(entries'[l].buf) = 0
      BY <1>2, <1>6 DEF Types
    <3>. QED BY <1>5, <1>6, <1>11, <3>1 DEF Reads, Buf, Triplet
  <2>5. CASE f.in = "user"
    <3>1. held[f.c].st = "calling" /\ held[f.c].node = n
      BY <1>1, <1>2, <1>15, <2>1, <2>5 DEF Link
    <3>. QED BY <1>3, <2>2, <2>4, <2>5, <3>1 DEF Answers
  <2>6. CASE f.in = "call"
    <3>1. CallsNext(f, n)
      BY <1>1, <1>2, <1>15, <2>1, <2>6 DEF Link
    <3>. QED BY <1>2, <2>2, <2>4, <2>6, <3>1 DEF Answers
  <2>7. CASE f.in = "pull"
    <3>1. Asks(f.e, n)
      BY <1>1, <1>2, <1>15, <2>1, <2>7 DEF Link
    <3>2. entries'[f.e] = entries[f.e]
      BY <1>6, <2>3, <2>7 DEF FrameOK
    <3>3. Asks(f.e, n)'
      BY <3>1, <3>2 DEF Asks
    <3>. QED BY <1>2, <2>2, <2>4, <2>7, <3>3 DEF Answers
  <2>. QED BY <2>3, <2>5, <2>6, <2>7, FrameKinds
<1>. QED BY <1>10, <1>12, <1>13, <1>14, <1>16, <1>17 DEF Structure

LEMMA AppendTwo ==
  ASSUME NEW S, NEW f \in S, NEW g \in S
  PROVE  Append(<<f>>, g) = <<f, g>>
<1>1. <<f>> \in Seq(S) /\ Len(<<f>>) = 1 /\ <<f>>[1] = f
  OBVIOUS
<1>2. /\ Append(<<f>>, g) \in Seq(S) /\ Len(Append(<<f>>, g)) = 2
      /\ Append(<<f>>, g)[1] = f /\ Append(<<f>>, g)[2] = g
  BY <1>1, AppendProperties
<1>3. <<f, g>> \in Seq(S) /\ Len(<<f, g>>) = 2 /\ <<f, g>>[1] = f /\ <<f, g>>[2] = g
  OBVIOUS
<1>4. \A i \in 1..2 : Append(<<f>>, g)[i] = <<f, g>>[i]
  <2>1. \A i \in 1..2 : i = 1 \/ i = 2
    OBVIOUS
  <2>. QED BY <1>2, <1>3, <2>1
<1>. QED BY <1>2, <1>3, <1>4, SeqEqual

(* The program's frame, and at most one above it. *)
LEMMA StackStarts ==
  ASSUME NEW f \in UserFrames, NEW g \in PullFrames \cup CallFrames,
         frames' = <<f>> \/ (frames' = <<f, g>> /\ FrameOK(g)' /\ Link(f, g)')
  PROVE  frames' \in Seq(Frame) /\ Stack' /\ Links' /\ frames' # <<>> /\ frames'[1] = f
<1>1. f.in = "user" /\ g.in # "user" /\ f \in Frame /\ g \in Frame
  BY DEF UserFrames, PullFrames, CallFrames, Frame
<1>2. FrameOK(f)'
  BY <1>1 DEF FrameOK
<1>3. CASE frames' = <<f>>
  <2>1. frames' \in Seq(Frame) /\ Len(frames') = 1 /\ frames'[1] = f /\ frames' # <<>>
    BY <1>1, <1>3
  <2>2. Stack'
    BY <1>1, <1>2, <2>1 DEF Stack
  <2>3. Links'
    BY <2>1 DEF Links
  <2>. QED BY <2>1, <2>2, <2>3
<1>4. CASE frames' = <<f, g>> /\ FrameOK(g)' /\ Link(f, g)'
  <2>1. frames' \in Seq(Frame) /\ Len(frames') = 2 /\ frames'[1] = f /\ frames'[2] = g /\ frames' # <<>>
    BY <1>1, <1>4
  <2>2. Stack'
    <3>1. ASSUME NEW j \in 1..Len(frames') PROVE (frames'[j].in = "user" <=> j = 1) /\ FrameOK(frames[j])'
      <4>1. j = 1 \/ j = 2
        BY <2>1
      <4>. QED BY <1>1, <1>2, <1>4, <2>1, <4>1
    <3>. QED BY <2>1, <3>1 DEF Stack
  <2>3. Links'
    <3>1. ASSUME NEW j \in 2..Len(frames') PROVE Link(frames[j - 1], frames[j])'
      <4>1. j = 2 /\ frames'[j - 1] = f /\ frames'[j] = g
        BY <2>1
      <4>. QED BY <1>4, <4>1
    <3>. QED BY <3>1 DEF Links
  <2>. QED BY <2>1, <2>2, <2>3
<1>. QED BY <1>3, <1>4

(* The call stack is empty. *)
LEMMA StackEnds ==
  ASSUME frames' = <<>>
  PROVE  frames' \in Seq(Frame) /\ Stack' /\ Links'
<1>1. frames' \in Seq(Frame) /\ Len(frames') = 0
  OBVIOUS
<1>. QED BY <1>1 DEF Stack, Links

(* What holds of what the program holds, for one triplet. *)
HoldOK(c) ==
  /\ held[c].st = "calling" =>
       /\ held[c].node \in Node /\ held[c].got = <<>>
       /\ frames # <<>> /\ frames[1] = UserPull(c)
  /\ held[c].st \in {"open", "done"} =>
       /\ held[c].node \in Node
       /\ Reads(held[c].trip, held[c].node)
       /\ held[c].got = SubSeq(Buf(held[c].trip.src), 1, held[c].trip.i)
  /\ held[c].st = "done" =>
       entries[held[c].trip.src].done /\ held[c].trip.i = Len(Buf(held[c].trip.src))

(* A step of the program changes what it holds of one triplet. *)
LEMMA HoldsTurn ==
  ASSUME Types, Tables, Sources, Holds, UNCHANGED <<cache, pending, entries>>,
         NEW c \in Consumer, HoldOK(c)',
         \A d \in Consumer : d # c => held'[d] = held[d] /\ held[d].st # "calling"
  PROVE  Holds'
<1>1. ASSUME NEW d \in Consumer, d # c PROVE HoldOK(d)'
  <2>1. held'[d] = held[d] /\ held[d].st # "calling" /\ HoldOK(d)
    BY <1>1 DEF Holds, HoldOK
  <2>2. \A t, n : Reads(t, n)' <=> Reads(t, n)
    BY SameRecordings
  <2>. QED BY <2>1, <2>2 DEF HoldOK, Buf
<1>2. \A d \in Consumer : HoldOK(d)'
  BY <1>1
<1>. QED BY <1>2 DEF Holds, HoldOK

(* Nothing is being called while the program is not in a call. *)
LEMMA QuietFacts ==
  ASSUME Structure, Quiet
  PROVE  ret = Nothing /\ \A c \in Consumer : held[c].st # "calling"
BY DEF Structure, Quiet, Answers, Holds

LEMMA UserFrameFacts ==
  ASSUME NEW c \in Consumer
  PROVE  UserPull(c) \in UserFrames /\ UserPull(c).in = "user" /\ UserPull(c).c = c
BY DEF UserPull, UserFrames

LEMMA UserCallsKeeps ==
  ASSUME Structure, NEW c \in Consumer, NEW n \in Root, UserCalls(c, n)
  PROVE  Structure'
<1>1. PICK f, x : f = UserPull(c) /\ x = [st |-> "calling", node |-> n, trip |-> NoTrip, got |-> <<>>]
  BY Zenon
<1>2. /\ n \in Node /\ Types /\ Tables /\ Sources /\ Holds
      /\ f \in UserFrames /\ f.in = "user" /\ f.c = c
      /\ \A d \in Consumer : held[d].st # "calling"
  BY <1>1, TreeAssumption, QuietFacts, UserFrameFacts DEF Structure, UserCalls
<1>3. /\ held' = [held EXCEPT ![c] = x] /\ CallPhase(n, <<f>>)
      /\ UNCHANGED <<cache, pending, entries, errors>>
  BY <1>1 DEF UserCalls
<1>4. /\ x \in Hold /\ x.st = "calling" /\ x.node = n /\ x.got = <<>>
      /\ held' \in [Consumer -> Hold] /\ held'[c] = x
      /\ \A d \in Consumer : d # c => held'[d] = held[d]
  <2>1. x \in Hold /\ x.st = "calling" /\ x.node = n /\ x.got = <<>>
    BY <1>1, <1>2 DEF Hold
  <2>. QED BY <1>2, <1>3, <2>1 DEF Types
<1>5. Tables' /\ Sources'
  BY <1>2, <1>3, SameRecordings
<1>6. PICK g : g = CallFrame(n)
  OBVIOUS
<1>7. g \in CallFrames /\ g.in = "call" /\ g.node = n
  BY <1>2, <1>6 DEF CallFrame, CallFrames
<1>8. ASSUME frames' \in Seq(Frame), Stack', Links', frames' # <<>>, frames'[1] = f, ret' \in Answer, Answers'
      PROVE  Structure'
  <2>1. Types'
    BY <1>2, <1>3, <1>4, <1>8 DEF Types
  <2>2. HoldOK(c)'
    BY <1>1, <1>2, <1>4, <1>8 DEF HoldOK
  <2>3. Holds'
    BY <1>2, <1>3, <1>4, <2>2, HoldsTurn
  <2>. QED BY <1>5, <1>8, <2>1, <2>3 DEF Structure
<1>9. CASE frames' = <<f>> /\ \E t \in Trip : ret' = Triplet(t) /\ t.i = 0 /\ Reads(t, n)
  <2>1. PICK t \in Trip : ret' = Triplet(t) /\ t.i = 0 /\ Reads(t, n)
    BY <1>9
  <2>2. ret' \in Answer /\ ret'.is = "triplet" /\ ret'.trip = t
    BY <2>1 DEF Answer, Triplet
  <2>3. Reads(t, n)'
    BY <1>2, <1>3, <2>1, SameRecordings
  <2>4. Top' = f
    BY <1>9 DEF Top
  <2>5. Answers'
    BY <1>2, <1>4, <1>9, <2>1, <2>2, <2>3, <2>4 DEF Answers
  <2>. QED BY <1>2, <1>7, <1>8, <1>9, <2>2, <2>5, StackStarts
<1>10. CASE /\ frames' = Append(<<f>>, CallFrame(n)) /\ ret' = Nothing
            /\ cache[n] = Nil /\ pending[n] = Nil
  <2>1. frames' = <<f, g>> /\ Top' = g
    <3>1. frames' = <<f, g>>
      <4>1. f \in Frame /\ g \in Frame
        BY <1>2, <1>7 DEF Frame
      <4>2. Append(<<f>>, g) = <<f, g>>
        BY <4>1, AppendTwo
      <4>. QED BY <1>6, <1>10, <4>2
    <3>2. Len(frames') = 2 /\ frames'[2] = g
      BY <3>1
    <3>. QED BY <3>1, <3>2 DEF Top
  <2>2. FrameOK(g)'
    BY <1>2, <1>3, <1>6, <1>10, CallFrameFacts
  <2>3. Link(f, g)'
    BY <1>2, <1>4, <1>7 DEF Link
  <2>4. frames' \in Seq(Frame) /\ Stack' /\ Links' /\ frames' # <<>> /\ frames'[1] = f
    BY <1>2, <1>7, <2>1, <2>2, <2>3, StackStarts
  <2>5. Answers' /\ ret' \in Answer
    BY <1>7, <1>10, <2>1, <2>4 DEF Answers, Answer
  <2>. QED BY <1>8, <2>4, <2>5
<1>. QED BY <1>2, <1>3, <1>9, <1>10, CallPhaseEffect

(* The program's frame on top. *)
LEMMA UserFacts ==
  ASSUME Structure, InUser, NEW c, c = Top.c
  PROVE  /\ frames # <<>> /\ c \in Consumer /\ Top.in = "user" /\ ret # Nothing
         /\ held[c] \in Hold
         /\ \A d \in Consumer : d # c => held[d].st # "calling"
<1>1. Types /\ Stack /\ Holds /\ Answers /\ frames # <<>> /\ Top.in = "user"
  BY DEF Structure, InUser
<1>2. Top \in UserFrames
  BY <1>1, StackFacts, FrameKinds
<1>3. Len(frames) = 1 /\ frames[1] = Top
  <2>1. Len(frames) \in 1..Len(frames)
    BY <1>1, StackFacts
  <2>. QED BY <1>1, <2>1 DEF Stack, Top
<1>4. c \in Consumer
  BY <1>2 DEF UserFrames
<1>5. ASSUME NEW d \in Consumer, held[d].st = "calling" PROVE d = c
  BY <1>1, <1>3, <1>5, UserFrameFacts DEF Holds
<1>6. ret # Nothing
  BY <1>1 DEF Answers, Nothing, Told
<1>. QED BY <1>1, <1>4, <1>5, <1>6 DEF Types

(* The program has what it asked for. *)
LEMMA UserStep ==
  ASSUME Structure, NEW c \in Consumer, NEW x \in Hold, held' = [held EXCEPT ![c] = x],
         \A d \in Consumer : d # c => held[d].st # "calling",
         frames' = <<>>, ret' = Nothing, errors' \in Nat, UNCHANGED <<cache, pending, entries>>,
         HoldOK(c)'
  PROVE  Structure'
<1>1. Types /\ Tables /\ Sources /\ Holds
  BY DEF Structure
<1>2. frames' \in Seq(Frame) /\ Stack' /\ Links'
  BY StackEnds
<1>3. /\ held' \in [Consumer -> Hold]
      /\ \A d \in Consumer : d # c => held'[d] = held[d]
  BY <1>1 DEF Types
<1>4. Types'
  BY <1>1, <1>2, <1>3 DEF Types, Answer
<1>5. Tables' /\ Sources'
  BY <1>1, SameRecordings
<1>6. Holds'
  BY <1>1, <1>3, HoldsTurn
<1>7. Answers'
  BY DEF Answers
<1>. QED BY <1>2, <1>4, <1>5, <1>6, <1>7 DEF Structure

LEMMA UserGetsTripletKeeps ==
  ASSUME Structure, UserGetsTriplet
  PROVE  Structure'
<1>1. PICK c, t, x : c = Top.c /\ t = ret.trip /\ x = [held[c] EXCEPT !.st = "open", !.trip = t]
  BY Zenon
<1>2. /\ frames # <<>> /\ c \in Consumer /\ Top.in = "user" /\ ret.is = "triplet" /\ Answers
      /\ held[c] \in Hold /\ \A d \in Consumer : d # c => held[d].st # "calling"
      /\ Types /\ Tables /\ Sources /\ Holds
  BY <1>1, UserFacts DEF UserGetsTriplet, Structure
<1>3. t.i = 0 /\ held[c].st = "calling" /\ Reads(t, held[c].node)
  BY <1>1, <1>2 DEF Answers, Told
<1>4. held[c].node \in Node /\ held[c].got = <<>>
  BY <1>2, <1>3 DEF Holds
<1>5. x \in Hold /\ x.st = "open" /\ x.trip = t /\ x.node = held[c].node /\ x.got = <<>>
  <2>1. t \in Trip
    BY <1>3 DEF Reads
  <2>. QED BY <1>1, <1>2, <1>4, <2>1 DEF Hold
<1>6. /\ held' = [held EXCEPT ![c] = x] /\ frames' = <<>> /\ ret' = Nothing
      /\ UNCHANGED <<cache, pending, entries, errors>> /\ held'[c] = x
  <2>1. /\ held' = [held EXCEPT ![c].st = "open", ![c].trip = t] /\ frames' = <<>> /\ ret' = Nothing
        /\ UNCHANGED <<cache, pending, entries, errors>>
    BY <1>1 DEF UserGetsTriplet
  <2>2. held \in [Consumer -> Hold]
    BY <1>2 DEF Types
  <2>3. held' = [held EXCEPT ![c] = x]
    BY <1>1, <1>2, <2>1, <2>2
  <2>. QED BY <1>2, <2>1, <2>2, <2>3
<1>7. HoldOK(c)'
  <2>1. Reads(t, held[c].node)
    BY <1>3
  <2>2. PICK n : n = held[c].node
    OBVIOUS
  <2>3. Reads(t, n)'
    BY <1>2, <1>6, <2>1, <2>2, SameRecordings
  <2>4. SubSeq(Buf(t.src), 1, 0) = <<>>
    <3>1. t.src \in 1..Len(entries)
      BY <1>3 DEF Reads
    <3>2. Buf(t.src) \in Seq(Node) /\ 0 \in 0..Len(Buf(t.src))
      BY <1>2, <3>1, EntryFacts
    <3>3. SubSeq(Buf(t.src), 1, 0) \in Seq(Node) /\ Len(SubSeq(Buf(t.src), 1, 0)) = 0
      BY <3>2, SeqPrefix
    <3>. QED BY <3>3
  <2>5. SubSeq(entries'[t.src].buf, 1, 0) = <<>>
    BY <1>6, <2>4 DEF Buf
  <2>. QED BY <1>3, <1>4, <1>5, <1>6, <2>2, <2>3, <2>5 DEF HoldOK, Buf
<1>8. errors' \in Nat
  BY <1>2, <1>6 DEF Types
<1>. QED BY <1>2, <1>5, <1>6, <1>7, <1>8, UserStep

(* One more element of the recording is one more of what the program has. *)
LEMMA OneMore ==
  ASSUME NEW S, NEW s \in Seq(S), NEW i \in 0..Len(s), i < Len(s)
  PROVE  Append(SubSeq(s, 1, i), s[i + 1]) = SubSeq(s, 1, i + 1)
<1>1. i + 1 \in 0..Len(s) /\ i + 1 \in 1..Len(s) /\ i \in Nat
  BY LenProperties
<1>2. /\ SubSeq(s, 1, i) \in Seq(S) /\ Len(SubSeq(s, 1, i)) = i
      /\ \A j \in 1..i : SubSeq(s, 1, i)[j] = s[j]
  BY SeqPrefix
<1>3. /\ SubSeq(s, 1, i + 1) \in Seq(S) /\ Len(SubSeq(s, 1, i + 1)) = i + 1
      /\ \A j \in 1..(i + 1) : SubSeq(s, 1, i + 1)[j] = s[j]
  BY <1>1, SeqPrefix
<1>. DEFINE a == Append(SubSeq(s, 1, i), s[i + 1])
<1>4. /\ a \in Seq(S) /\ Len(a) = i + 1 /\ a[i + 1] = s[i + 1]
      /\ \A j \in 1..i : a[j] = s[j]
  <2>1. s[i + 1] \in S
    BY <1>1
  <2>. QED BY <1>2, <2>1, AppendProperties
<1>. HIDE DEF a
<1>5. \A j \in 1..(i + 1) : a[j] = SubSeq(s, 1, i + 1)[j]
  <2>1. \A j \in 1..(i + 1) : j = i + 1 \/ j \in 1..i
    BY <1>1
  <2>2. i + 1 \in 1..(i + 1)
    BY <1>1
  <2>. QED BY <1>3, <1>4, <2>1, <2>2
<1>6. a = SubSeq(s, 1, i + 1)
  BY <1>3, <1>4, <1>5, SeqEqual
<1>. QED BY <1>6 DEF a

(* The program gets the next element of a triplet, or its end. *)
LEMMA GetsOne ==
  ASSUME Types, Tables, Sources, Holds, NEW c \in Consumer, held[c].st = "open",
         held[c].trip.i < Len(Buf(held[c].trip.src)),
         held' = [held EXCEPT ![c].trip.i = held[c].trip.i + 1,
                              ![c].got = Append(held[c].got, Buf(held[c].trip.src)[held[c].trip.i + 1])],
         UNCHANGED <<cache, pending, entries>>
  PROVE  HoldOK(c)' /\ \E x \in Hold : held' = [held EXCEPT ![c] = x]
<1>1. PICK t, v : t = held[c].trip /\ v = Buf(t.src)[t.i + 1]
  BY Zenon
<1>2. PICK u : u = [t EXCEPT !.i = t.i + 1]
  OBVIOUS
<1>3. PICK x : x = [held[c] EXCEPT !.trip = u, !.got = Append(held[c].got, v)]
  OBVIOUS
<1>4. /\ held[c] \in Hold /\ held[c].node \in Node /\ Reads(t, held[c].node) /\ t \in Trip
      /\ held[c].got = SubSeq(Buf(t.src), 1, t.i) /\ held[c].got \in Seq(Node)
  BY <1>1 DEF Types, Holds, Hold, Reads
<1>5. /\ Buf(t.src) \in Seq(Node) /\ t.i \in 0..Len(Buf(t.src)) /\ v \in Node /\ t.i < Len(Buf(t.src))
      /\ Len(Buf(t.src)) \in Nat
  <2>1. Buf(t.src) \in Seq(Node) /\ Len(Buf(t.src)) \in Nat
    BY <1>4, EntryFacts DEF Reads
  <2>2. t.i \in 0..Len(Buf(t.src)) /\ t.i < Len(Buf(t.src))
    BY <1>1, <1>4, <2>1 DEF Reads, Trip
  <2>3. t.i + 1 \in 1..Len(Buf(t.src))
    BY <2>1, <2>2
  <2>. QED BY <1>1, <2>1, <2>2, <2>3
<1>6. u \in Trip /\ u.src = t.src /\ u.i = t.i + 1
  BY <1>2, <1>4, NextTrip
<1>7. /\ x \in Hold /\ x.st = "open" /\ x.trip = u /\ x.node = held[c].node
      /\ x.got = Append(held[c].got, v)
  <2>1. PICK a : a = Append(held[c].got, v)
    OBVIOUS
  <2>2. a \in Seq(Node)
    BY <1>4, <1>5, <2>1, AppendProperties
  <2>3. x = [held[c] EXCEPT !.trip = u, !.got = a] /\ u \in Trip \cup {NoTrip}
    BY <1>3, <1>6, <2>1
  <2>4. x \in Hold /\ x.st = "open" /\ x.trip = u /\ x.node = held[c].node /\ x.got = a
    BY <1>4, <2>2, <2>3 DEF Hold
  <2>. QED BY <2>1, <2>4
<1>8. held' = [held EXCEPT ![c] = x] /\ held'[c] = x
  <2>1. held \in [Consumer -> Hold]
    BY DEF Types
  <2>2. held' = [held EXCEPT ![c] = x]
    BY <1>1, <1>2, <1>3, <2>1, Zenon
  <2>. QED BY <2>1, <2>2
<1>9. HoldOK(c)'
  <2>1. x.got = SubSeq(Buf(u.src), 1, u.i)
    BY <1>1, <1>4, <1>5, <1>6, <1>7, OneMore, ZenonT(60)
  <2>2. Reads(u, x.node)
    <3>1. u.i <= Len(Buf(u.src))
      BY <1>5, <1>6
    <3>. QED BY <1>4, <1>6, <1>7, <3>1 DEF Reads
  <2>3. Reads(u, x.node)'
    BY <2>2, SameRecordings
  <2>4. x.got = SubSeq(entries'[u.src].buf, 1, u.i)
    BY <2>1 DEF Buf
  <2>. QED BY <1>4, <1>7, <1>8, <2>3, <2>4, Zenon DEF HoldOK, Buf
<1>. QED BY <1>7, <1>8, <1>9

(* ... or finds that there is no more. *)
LEMMA GetsEnd ==
  ASSUME Types, Tables, Sources, Holds, NEW c \in Consumer, held[c].st = "open",
         held[c].trip.i = Len(Buf(held[c].trip.src)), entries[held[c].trip.src].done,
         held' = [held EXCEPT ![c].st = "done"],
         UNCHANGED <<cache, pending, entries>>
  PROVE  HoldOK(c)' /\ \E x \in Hold : held' = [held EXCEPT ![c] = x]
<1>1. PICK x : x = [held[c] EXCEPT !.st = "done"]
  OBVIOUS
<1>2. /\ held[c] \in Hold /\ held[c].node \in Node /\ Reads(held[c].trip, held[c].node)
      /\ held[c].got = SubSeq(Buf(held[c].trip.src), 1, held[c].trip.i)
  BY DEF Types, Holds
<1>3. /\ x \in Hold /\ x.st = "done" /\ x.trip = held[c].trip /\ x.node = held[c].node
      /\ x.got = held[c].got
  BY <1>1, <1>2 DEF Hold
<1>4. held' = [held EXCEPT ![c] = x] /\ held'[c] = x
  BY <1>1 DEF Types
<1>5. Reads(x.trip, x.node)'
  BY <1>2, <1>3, SameRecordings, SMTT(60)
<1>6. HoldOK(c)'
  BY <1>2, <1>3, <1>4, <1>5 DEF HoldOK, Buf
<1>. QED BY <1>3, <1>4, <1>6

LEMMA UserGetsKeeps ==
  ASSUME Structure, UserGets
  PROVE  Structure'
<1>1. PICK c, t : c = Top.c /\ t = held[c].trip
  BY Zenon
<1>2. /\ frames # <<>> /\ c \in Consumer /\ Top.in = "user" /\ ret.is \in {"value", "end"} /\ Answers
      /\ \A d \in Consumer : d # c => held[d].st # "calling"
      /\ Types /\ Tables /\ Sources /\ Holds
  BY <1>1, UserFacts DEF UserGets, Structure
<1>3. held[c].st = "open" /\ Told(t)
  BY <1>1, <1>2 DEF Answers
<1>4. /\ frames' = <<>> /\ ret' = Nothing /\ UNCHANGED <<cache, pending, entries, errors>>
  BY DEF UserGets
<1>5. HoldOK(c)' /\ \E x \in Hold : held' = [held EXCEPT ![c] = x]
  <2>1. CASE ret.is = "value"
    <3>1. t.i + 1 = Len(Buf(t.src)) /\ ret.v = Buf(t.src)[t.i + 1]
      BY <1>3, <2>1 DEF Told
    <3>2. t.i < Len(Buf(t.src))
      <4>1. Reads(t, held[c].node)
        BY <1>1, <1>2, <1>3 DEF Holds
      <4>2. t.i \in Nat /\ Len(Buf(t.src)) \in Nat
        BY <1>2, <4>1, EntryFacts DEF Reads, Trip
      <4>. QED BY <3>1, <4>2
    <3>3. held' = [held EXCEPT ![c].trip.i = held[c].trip.i + 1,
                               ![c].got = Append(held[c].got, Buf(held[c].trip.src)[held[c].trip.i + 1])]
      BY <1>1, <2>1, <3>1 DEF UserGets
    <3>. QED BY <1>1, <1>2, <1>3, <1>4, <3>2, <3>3, GetsOne, Zenon
  <2>2. CASE ret.is = "end"
    <3>1. t.i = Len(Buf(t.src)) /\ entries[t.src].done
      BY <1>3, <2>2 DEF Told
    <3>2. held' = [held EXCEPT ![c].st = "done"]
      BY <1>1, <2>2 DEF UserGets
    <3>. QED BY <1>1, <1>2, <1>3, <1>4, <3>1, <3>2, GetsEnd
  <2>. QED BY <1>2, <2>1, <2>2
<1>6. errors' \in Nat
  BY <1>2, <1>4 DEF Types
<1>. QED BY <1>2, <1>4, <1>5, <1>6, UserStep

LEMMA UserPullsKeeps ==
  ASSUME Structure, NEW c \in Consumer, UserPulls(c)
  PROVE  Structure'
<1>1. PICK t : t = held[c].trip
  OBVIOUS
<1>2. /\ frames = <<>> /\ held[c].st = "open" /\ ret = Nothing
      /\ \A d \in Consumer : held[d].st # "calling"
      /\ Types /\ Tables /\ Sources /\ Holds
  BY QuietFacts DEF UserPulls, Structure, Quiet
<1>3. UNCHANGED <<cache, pending, entries, errors>>
  BY DEF UserPulls
<1>4. Reads(t, held[c].node) /\ t.i \in Nat /\ Len(Buf(t.src)) \in Nat /\ t.i <= Len(Buf(t.src))
      /\ t.src \in 1..Len(entries)
  <2>1. Reads(t, held[c].node)
    BY <1>1, <1>2 DEF Holds
  <2>. QED BY <1>2, <2>1, EntryFacts DEF Reads, Trip
<1>5. errors' \in Nat
  BY <1>2, <1>3 DEF Types
<1>6. CASE t.i < Len(Buf(t.src))
  <2>1. /\ held' = [held EXCEPT ![c].trip.i = held[c].trip.i + 1,
                                ![c].got = Append(held[c].got, Buf(held[c].trip.src)[held[c].trip.i + 1])]
        /\ UNCHANGED <<frames, ret>>
    BY <1>1, <1>4, <1>6 DEF UserPulls
  <2>2. HoldOK(c)' /\ \E x \in Hold : held' = [held EXCEPT ![c] = x]
    BY <1>1, <1>2, <1>3, <1>6, <2>1, GetsOne
  <2>. QED BY <1>2, <1>3, <1>5, <2>1, <2>2, UserStep
<1>7. CASE t.i = Len(Buf(t.src)) /\ entries[t.src].done
  <2>1. held' = [held EXCEPT ![c].st = "done"] /\ UNCHANGED <<frames, ret>>
    BY <1>1, <1>4, <1>7 DEF UserPulls
  <2>2. HoldOK(c)' /\ \E x \in Hold : held' = [held EXCEPT ![c] = x]
    BY <1>1, <1>2, <1>3, <1>7, <2>1, GetsEnd
  <2>. QED BY <1>2, <1>3, <1>5, <2>1, <2>2, UserStep
<1>8. CASE t.i = Len(Buf(t.src)) /\ ~entries[t.src].done
  <2>1. PICK f, g : f = UserPull(c) /\ g = PullFrame(t.src)
    BY Zenon
  <2>2. frames' = <<f, g>> /\ UNCHANGED <<held, ret>>
    BY <1>1, <1>4, <1>8, <2>1 DEF UserPulls
  <2>3. /\ f \in UserFrames /\ f.in = "user" /\ f.c = c
        /\ g \in PullFrames /\ g.in = "pull" /\ g.e = t.src
    BY <1>4, <2>1, UserFrameFacts DEF PullFrame, PullFrames
  <2>4. FrameOK(g)'
    BY <1>3, <1>4, <1>8, <2>3 DEF FrameOK
  <2>5. Link(f, g)'
    BY <1>1, <1>2, <1>3, <1>8, <2>2, <2>3 DEF Link, Buf
  <2>6. frames' \in Seq(Frame) /\ Stack' /\ Links' /\ frames' # <<>>
    BY <2>2, <2>3, <2>4, <2>5, StackStarts
  <2>7. Types'
    BY <1>2, <1>3, <1>5, <2>2, <2>6 DEF Types
  <2>8. Tables' /\ Sources'
    BY <1>2, <1>3, SameRecordings
  <2>9. Holds'
    <3>1. Grown
      BY <1>2, <1>3, UnchangedEffect
    <3>. QED BY <1>2, <1>3, <2>2, <2>7, <3>1, HoldsStay DEF Types
  <2>10. Answers'
    <3>1. Top' = g
      BY <2>2 DEF Top
    <3>. QED BY <1>2, <2>2, <2>3, <2>6, <3>1 DEF Answers
  <2>. QED BY <2>6, <2>7, <2>8, <2>9, <2>10 DEF Structure
<1>. QED BY <1>4, <1>6, <1>7, <1>8

LEMMA UserDropsKeeps ==
  ASSUME Structure, NEW c \in Consumer, UserDrops(c)
  PROVE  Structure'
<1>1. /\ frames = <<>> /\ ret = Nothing /\ \A d \in Consumer : held[d].st # "calling"
      /\ Types
  BY QuietFacts DEF UserDrops, Structure, Quiet
<1>2. held' = [held EXCEPT ![c] = NotHeld] /\ UNCHANGED <<cache, pending, entries, frames, ret, errors>>
  BY DEF UserDrops
<1>3. NotHeld \in Hold /\ NotHeld.st = "idle"
  BY DEF NotHeld, Hold
<1>4. HoldOK(c)'
  <2>1. held'[c] = NotHeld
    BY <1>1, <1>2 DEF Types
  <2>. QED BY <1>3, <2>1 DEF HoldOK
<1>. QED BY <1>1, <1>2, <1>3, <1>4, UserStep DEF Types

LEMMA RaiseKeeps ==
  ASSUME Structure, Raise
  PROVE  Structure'
<1>1. Types /\ Tables /\ Sources /\ Holds /\ ret = Nothing
  BY DEF Structure, Raise
<1>2. /\ errors' = errors + 1 /\ frames' = <<>> /\ UNCHANGED <<cache, pending, entries, ret>>
      /\ held' = [c \in Consumer |-> IF held[c].st = "calling" THEN NotHeld ELSE held[c]]
  BY DEF Raise
<1>3. frames' \in Seq(Frame) /\ Stack' /\ Links'
  BY <1>2, StackEnds
<1>4. NotHeld \in Hold /\ NotHeld.st = "idle"
  BY DEF NotHeld, Hold
<1>5. Types'
  BY <1>1, <1>2, <1>3, <1>4 DEF Types
<1>6. Tables' /\ Sources' /\ \A t, n : Reads(t, n)' <=> Reads(t, n)
  BY <1>1, <1>2, SameRecordings
<1>7. Holds'
  <2>1. ASSUME NEW c \in Consumer PROVE HoldOK(c)'
    <3>1. CASE held[c].st = "calling"
      BY <1>2, <1>4, <3>1 DEF HoldOK
    <3>2. CASE held[c].st # "calling"
      <4>1. held'[c] = held[c] /\ HoldOK(c)
        BY <1>1, <1>2, <3>2 DEF Holds, HoldOK
      <4>. QED BY <1>2, <1>6, <3>2, <4>1 DEF HoldOK, Buf
    <3>. QED BY <3>1, <3>2
  <2>. QED BY <2>1 DEF Holds, HoldOK
<1>8. Answers'
  BY <1>1, <1>2 DEF Answers
<1>. QED BY <1>3, <1>5, <1>6, <1>7, <1>8 DEF Structure

(* Nothing happens. *)
LEMMA StutterKeeps ==
  ASSUME Structure, UNCHANGED vars
  PROVE  Structure'
<1>1. /\ Types /\ Tables /\ Sources /\ Stack /\ Links /\ Answers /\ Holds
      /\ UNCHANGED <<cache, pending, entries, held, frames, ret, errors>>
  BY DEF Structure, vars
<1>2. Types' /\ Tables' /\ Sources' /\ Stack' /\ Links'
  BY <1>1, SameRecordings, SameStack DEF Types
<1>3. Holds'
  <2>1. Grown
    BY <1>1, UnchangedEffect
  <2>. QED BY <1>1, <2>1, HoldsStay DEF Types, Holds
<1>4. Answers'
  <2>1. /\ \A t, n : Reads(t, n)' <=> Reads(t, n)
        /\ \A e : (HasChild(e)' <=> HasChild(e)) /\ ChildOf(e)' = ChildOf(e)
        /\ \A e, n : Asks(e, n)' <=> Asks(e, n)
    BY <1>1, SameRecordings
  <2>2. \A t : Told(t)' <=> Told(t)
    BY <1>1 DEF Told, Buf
  <2>3. Top' = Top
    BY <1>1 DEF Top
  <2>4. \A f, n : CallsNext(f, n)' <=> CallsNext(f, n)
    BY DEF CallsNext
  <2>. QED BY <1>1, <2>1, <2>2, <2>3, <2>4 DEF Answers
<1>. QED BY <1>1, <1>2, <1>3, <1>4 DEF Structure

LEMMA InitStructure ==
  ASSUME Init
  PROVE  Structure
<1>1. frames = <<>> /\ entries = <<>> /\ Len(entries) = 0 /\ Len(frames) = 0 /\ ret = Nothing /\ errors = 0
  BY DEF Init
<1>2. NotHeld \in Hold /\ NotHeld.st = "idle"
  BY DEF NotHeld, Hold
<1>3. Types
  BY <1>1, <1>2 DEF Init, Types, Nil, Answer
<1>4. Tables /\ Sources /\ Stack /\ Links
  BY <1>1 DEF Init, Tables, Sources, Stack, Links
<1>5. Answers /\ Holds
  BY <1>1, <1>2 DEF Init, Answers, Holds
<1>. QED BY <1>3, <1>4, <1>5 DEF Structure

LEMMA NextStructure ==
  ASSUME Structure, [Next]_vars
  PROVE  Structure'
<1>1. CASE Machine
  BY <1>1, HandlerCallsKeeps, HandlerGetsKeeps, HandlerReturnsKeeps, PullLeafKeeps, PullChildKeeps,
     ChildAnswersKeeps, PullExhaustedKeeps, PullNextChildKeeps, ChildCalledKeeps,
     UserGetsTripletKeeps, UserGetsKeeps DEF Machine
<1>2. CASE \E c \in Consumer : UserPulls(c) \/ UserDrops(c)
  BY <1>2, UserPullsKeeps, UserDropsKeeps
<1>3. CASE \E c \in Consumer, n \in Root : UserCalls(c, n)
  BY <1>3, UserCallsKeeps
<1>4. CASE Raise
  BY <1>4, RaiseKeeps
<1>5. CASE UNCHANGED vars
  BY <1>5, StutterKeeps
<1>. QED BY <1>1, <1>2, <1>3, <1>4, <1>5 DEF Next

(* In every reachable state the tables, the recordings, the children's     *)
(* triplets and the call stack fit together.                               *)
THEOREM StructureHolds == Spec => []Structure
<1>. QED BY InitStructure, NextStructure, PTL DEF Spec

(* A node shared by several parents, or several times by one, is recorded  *)
(* once (pvm.lua: the pending table).                                      *)
THEOREM RecordedOnce == Spec => []OncePerNode
<1>1. ASSUME Structure PROVE OncePerNode
  <2>1. Types /\ Tables
    BY <1>1 DEF Structure
  <2>2. ASSUME NEW e \in 1..Len(entries), NEW f \in 1..Len(entries), entries[e].node = entries[f].node
        PROVE  e = f
    <3>1. e # Nil /\ f # Nil
      BY DEF Nil
    <3>. QED BY <2>1, <2>2, <3>1 DEF Tables
  <2>. QED BY <2>2 DEF OncePerNode
<1>. QED BY <1>1, StructureHolds, PTL

-----------------------------------------------------------------------------
(* The output of a node by definition *)

LEMMA ConcatDef ==
  ASSUME NEW S, NEW ss \in Seq(Seq(S))
  PROVE  /\ Concat(ss) \in [0..Len(ss) -> Seq(S)]
         /\ Concat(ss)[0] = <<>>
         /\ \A i \in 1..Len(ss) : Concat(ss)[i] = Concat(ss)[i - 1] \o ss[i]
<1>. DEFINE n == Len(ss)
            X == Seq(S)
            G == [i \in Nat |-> [s \in X |-> IF i \in 1..n THEN s \o ss[i] ELSE <<>>]]
            Def(c) == [i \in 0..n |-> IF i = 0 THEN <<>> ELSE c[i - 1] \o ss[i]]
            C == Concat(ss)
<1>1. n \in Nat /\ <<>> \in X /\ \A i \in 1..n : ss[i] \in X
  OBVIOUS
<1>2. C = CHOOSE c : c = Def(c)
  BY DEF Concat
<1>3. \A s, t \in X : s \o t \in X
  OBVIOUS
<1>. HIDE DEF n, C, X
<1>4. IsStep(G, X) /\ \A i \in 1..n, s \in X : G[i][s] = s \o ss[i]
  <2>1. \A i \in Nat, s \in X : G[i][s] = IF i \in 1..n THEN s \o ss[i] ELSE <<>>
    OBVIOUS
  <2>. HIDE DEF G
  <2>2. \A i \in 1..n : i \in Nat
    BY <1>1
  <2>3. \A i \in 1..n, s \in X : G[i][s] = s \o ss[i]
    BY <2>1, <2>2
  <2>4. ASSUME NEW i \in Nat, NEW s \in X PROVE G[i][s] \in X
    BY <1>1, <1>3, <2>1
  <2>. QED BY <2>3, <2>4 DEF IsStep
<1>. HIDE DEF G
<1>5. PICK f : Iterates(f, X, <<>>, G, n)
  BY <1>1, <1>4, IterationExists
<1>6. /\ f = [i \in 0..n |-> f[i]]
      /\ f[0] = <<>>
      /\ \A i \in 0..n : f[i] \in X
      /\ \A i \in 1..n : f[i] = G[i][f[i - 1]]
  BY <1>5 DEF Iterates
<1>7. \A i \in 1..n : i \in 0..n /\ i - 1 \in 0..n /\ i # 0
  BY <1>1
<1>8. \A i \in 1..n : f[i] = f[i - 1] \o ss[i]
  BY <1>4, <1>6, <1>7
<1>9. f = Def(f)
  <2>1. \A i \in 0..n : i = 0 \/ i \in 1..n
    BY <1>1
  <2>2. \A i \in 0..n : f[i] = IF i = 0 THEN <<>> ELSE f[i - 1] \o ss[i]
    BY <1>6, <1>8, <2>1
  <2>3. [i \in 0..n |-> f[i]] = Def(f)
    BY <2>2
  <2>. QED BY <2>3, <1>6
<1>10. C = Def(C)
  <2>. HIDE DEF Def
  <2>. QED BY <1>9, <1>2
<1>11. C[0] = <<>> /\ \A i \in 1..n : C[i] = C[i - 1] \o ss[i]
  <2>1. \A i \in 0..n : C[i] = IF i = 0 THEN <<>> ELSE C[i - 1] \o ss[i]
    BY <1>10
  <2>2. 0 \in 0..n
    BY <1>1
  <2>. HIDE DEF Def
  <2>. QED BY <2>1, <2>2, <1>7
<1>. DEFINE T == {i \in Nat : C[i] \in X}
<1>12. 0..n \subseteq T
  <2>1. 0 \in T
    BY <1>1, <1>11
  <2>2. ASSUME NEW i \in 1..n, i - 1 \in T PROVE i \in T
    <3>1. C[i - 1] \in X /\ ss[i] \in X /\ C[i] = C[i - 1] \o ss[i]
      BY <1>1, <1>11, <2>2
    <3>2. C[i] \in X
      BY <3>1, <1>3
    <3>. QED BY <3>2, <1>1
  <2>. HIDE DEF T
  <2>. QED BY <2>1, <2>2, <1>1, IntervalInduction
<1>13. C \in [0..n -> X]
  <2>1. \A i \in 0..n : C[i] \in X
    BY <1>12
  <2>2. C = [i \in 0..n |-> C[i]]
    BY <1>10
  <2>. HIDE DEF T
  <2>. QED BY <2>1, <2>2
<1>. QED BY <1>11, <1>13 DEF C, n, X

(* The output of n's children, if x gives the output of nodes; of n itself. *)
KidsOut(x, n) == [i \in 1..Len(Kids[n]) |-> x[Kids[n][i]]]
Deeper(x) == [n \in Node |-> IF Leaf(n) THEN <<n>> ELSE Concat(KidsOut(x, n))[Len(Kids[n])]]

LEMMA KidsOutFacts ==
  ASSUME NEW x \in [Node -> Seq(Node)], NEW n \in Node
  PROVE  /\ KidsOut(x, n) \in Seq(Seq(Node)) /\ Len(KidsOut(x, n)) = Len(Kids[n])
         /\ \A i \in 1..Len(Kids[n]) : KidsOut(x, n)[i] = x[Kids[n][i]]
         /\ Concat(KidsOut(x, n)) \in [0..Len(Kids[n]) -> Seq(Node)]
         /\ Concat(KidsOut(x, n))[0] = <<>>
         /\ \A i \in 1..Len(Kids[n]) :
              Concat(KidsOut(x, n))[i] = Concat(KidsOut(x, n))[i - 1] \o x[Kids[n][i]]
<1>. DEFINE S == Seq(Node)
<1>1. PICK l, y : l = Len(Kids[n]) /\ y = KidsOut(x, n)
  BY Zenon
<1>2. y \in [1..l -> S] /\ l \in Nat /\ \A i \in 1..l : y[i] = x[Kids[n][i]]
  <2>1. l \in Nat /\ \A i \in 1..l : x[Kids[n][i]] \in S
    BY <1>1, TreeFacts
  <2>2. y = [i \in 1..l |-> x[Kids[n][i]]]
    BY <1>1 DEF KidsOut
  <2>. HIDE DEF S
  <2>. QED BY <2>1, <2>2
<1>3. y \in Seq(S) /\ Len(y) = l
  <2>. HIDE DEF S
  <2>. QED BY <1>2
<1>4. /\ Concat(y) \in [0..l -> Seq(Node)] /\ Concat(y)[0] = <<>>
      /\ \A i \in 1..l : Concat(y)[i] = Concat(y)[i - 1] \o y[i]
  <2>1. /\ Concat(y) \in [0..Len(y) -> Seq(Node)] /\ Concat(y)[0] = <<>>
        /\ \A i \in 1..Len(y) : Concat(y)[i] = Concat(y)[i - 1] \o y[i]
    BY <1>3, ConcatDef
  <2>. QED BY <1>3, <2>1
<1>5. \A i \in 1..l : Concat(y)[i] = Concat(y)[i - 1] \o x[Kids[n][i]]
  BY <1>2, <1>4
<1>6. y \in Seq(Seq(Node))
  BY <1>3
<1>. HIDE DEF S
<1>. QED BY <1>1, <1>2, <1>3, <1>4, <1>5, <1>6, Zenon

(* Flat, level by level. *)
LEMMA FlatLevels ==
  \E U : /\ U \in [Nat -> [Node -> Seq(Node)]]
         /\ U[0] = [n \in Node |-> <<n>>]
         /\ \A k \in Nat \ {0} : U[k] = Deeper(U[k - 1])
         /\ Flat = [n \in Node |-> U[Rank[n]][n]]
<1>. DEFINE X == [Node -> Seq(Node)]
            zero == [n \in Node |-> <<n>>]
            G == [k \in Nat |-> [x \in X |-> Deeper(x)]]
            Level(u, k) == IF k = 0 THEN zero
                           ELSE [n \in Node |->
                                  IF Leaf(n) THEN <<n>>
                                  ELSE Concat([i \in 1..Len(Kids[n]) |-> u[k - 1][Kids[n][i]]])[Len(Kids[n])]]
            Def(u) == [k \in Nat |-> Level(u, k)]
            U == CHOOSE u : u = Def(u)
<1>1. Flat = [n \in Node |-> U[Rank[n]][n]]
  BY DEF Flat
<1>. HIDE DEF U
<1>2. U = CHOOSE u : u = Def(u)
  BY DEF U
<1>3. \A u : \A k \in Nat \ {0} : Level(u, k) = Deeper(u[k - 1])
  BY DEF Deeper, KidsOut
<1>4. \A u : Level(u, 0) = zero
  OBVIOUS
<1>. HIDE DEF Level
<1>5. zero \in X
  OBVIOUS
<1>6. ASSUME NEW x \in X PROVE Deeper(x) \in X
  <2>1. ASSUME NEW n \in Node, ~Leaf(n) PROVE Concat(KidsOut(x, n))[Len(Kids[n])] \in Seq(Node)
    <3>1. Len(Kids[n]) \in 0..Len(Kids[n])
      BY TreeFacts
    <3>2. x \in [Node -> Seq(Node)]
      BY <1>6 DEF X
    <3>3. Concat(KidsOut(x, n)) \in [0..Len(Kids[n]) -> Seq(Node)]
      BY <3>2, KidsOutFacts
    <3>. QED BY <3>1, <3>3
  <2>2. \A n \in Node : <<n>> \in Seq(Node)
    OBVIOUS
  <2>. QED BY <2>1, <2>2 DEF Deeper
<1>. HIDE DEF X, zero
<1>7. IsStep(G, X) /\ \A k \in Nat, x \in X : G[k][x] = Deeper(x)
  <2>1. \A k \in Nat, x \in X : G[k][x] = Deeper(x)
    OBVIOUS
  <2>. HIDE DEF G
  <2>. QED BY <1>6, <2>1 DEF IsStep
<1>. HIDE DEF G
<1>8. PICK f : IteratesOn(f, X, zero, G)
  BY <1>5, <1>7, RecursionExists
<1>9. /\ f = [k \in Nat |-> f[k]] /\ f[0] = zero /\ \A k \in Nat : f[k] \in X
      /\ \A k \in Nat \ {0} : f[k] = G[k][f[k - 1]]
  BY <1>8 DEF IteratesOn
<1>10. \A k \in Nat \ {0} : f[k] = Deeper(f[k - 1])
  <2>1. \A k \in Nat \ {0} : k \in Nat /\ k - 1 \in Nat
    OBVIOUS
  <2>. QED BY <1>7, <1>9, <2>1
<1>11. f = Def(f)
  <2>1. \A k \in Nat : f[k] = Level(f, k)
    <3>1. ASSUME NEW k \in Nat PROVE f[k] = Level(f, k)
      BY <1>3, <1>4, <1>9, <1>10
    <3>. QED BY <3>1
  <2>. QED BY <2>1, <1>9
<1>12. U = Def(U)
  <2>. HIDE DEF Def
  <2>. QED BY <1>2, <1>11
<1>13. \A k \in Nat : U[k] = Level(U, k)
  BY <1>12
<1>14. U[0] = zero /\ \A k \in Nat \ {0} : U[k] = Deeper(U[k - 1])
  <2>1. 0 \in Nat /\ \A k \in Nat \ {0} : k \in Nat
    OBVIOUS
  <2>. QED BY <1>3, <1>4, <1>13, <2>1
<1>. DEFINE S == {k \in Nat : U[k] \in X}
<1>15. Nat \subseteq S
  <2>1. 0 \in S
    BY <1>5, <1>14
  <2>2. ASSUME NEW k \in Nat, k \in S PROVE k + 1 \in S
    <3>1. k + 1 \in Nat \ {0} /\ (k + 1) - 1 = k
      OBVIOUS
    <3>2. U[k + 1] = Deeper(U[k])
      BY <1>14, <3>1
    <3>3. U[k + 1] \in X
      BY <1>6, <2>2, <3>2
    <3>. QED BY <3>1, <3>3
  <2>. HIDE DEF S
  <2>. QED BY <2>1, <2>2, SetInduction
<1>16. U \in [Nat -> X]
  <2>1. \A k \in Nat : U[k] \in X
    BY <1>15
  <2>2. U = [k \in Nat |-> U[k]]
    BY <1>12
  <2>. QED BY <2>1, <2>2
<1>. QED BY <1>1, <1>14, <1>16, Zenon DEF X, zero

(* The output of a leaf is the leaf, that of an inner node what its        *)
(* children give, one after the other.                                     *)
LEMMA FlatIs ==
  /\ Flat \in [Node -> Seq(Node)]
  /\ \A n \in Node : IF Leaf(n) THEN Flat[n] = <<n>> ELSE Flat[n] = Given(n, Len(Kids[n]))
<1>1. PICK U : /\ U \in [Nat -> [Node -> Seq(Node)]]
               /\ U[0] = [n \in Node |-> <<n>>]
               /\ \A k \in Nat \ {0} : U[k] = Deeper(U[k - 1])
               /\ Flat = [n \in Node |-> U[Rank[n]][n]]
  BY FlatLevels, Zenon
<1>2. Flat \in [Node -> Seq(Node)] /\ \A n \in Node : Flat[n] = U[Rank[n]][n]
  <2>1. \A n \in Node : U[Rank[n]][n] \in Seq(Node)
    BY <1>1, TreeFacts, Zenon
  <2>. QED BY <1>1, <2>1
<1>3. ASSUME NEW k \in Nat, NEW n \in Node, Leaf(n) PROVE U[k][n] = <<n>>
  <2>1. CASE k = 0
    BY <1>1, <2>1
  <2>2. CASE k # 0
    <3>1. U[k] = Deeper(U[k - 1])
      BY <1>1, <2>2
    <3>. QED BY <1>3, <3>1 DEF Deeper
  <2>. QED BY <2>1, <2>2
<1>4. ASSUME NEW k \in Nat, NEW n \in Node, ~Leaf(n), k # 0
      PROVE  U[k][n] = Concat(KidsOut(U[k - 1], n))[Len(Kids[n])]
  <2>1. U[k] = Deeper(U[k - 1])
    BY <1>1, <1>4
  <2>. QED BY <1>4, <2>1 DEF Deeper
<1>5. ASSUME NEW n \in Node, ~Leaf(n) PROVE Rank[n] \in Nat /\ Rank[n] # 0
  <2>1. Rank[n] \in Nat /\ 1 \in 1..Len(Kids[n])
    BY <1>5, TreeFacts
  <2>2. Rank[Kids[n][1]] < Rank[n] /\ Rank[Kids[n][1]] \in Nat
    BY <2>1, TreeFacts
  <2>. QED BY <2>1, <2>2
<1>. DEFINE Settled(r) == \A n \in Node : Rank[n] = r => \A k \in Nat : k >= r => U[k][n] = Flat[n]
            S == {r \in Nat : Settled(r)}
<1>6. ASSUME NEW r \in Nat, \A q \in Nat : q < r => q \in S
      PROVE  r \in S
  <2>1. ASSUME NEW n \in Node, Rank[n] = r, NEW k \in Nat, k >= r PROVE U[k][n] = Flat[n]
    <3>1. CASE Leaf(n)
      BY <1>2, <1>3, <2>1, <3>1, TreeFacts, ZenonT(60)
    <3>2. CASE ~Leaf(n)
      <4>1. r # 0 /\ k # 0 /\ r - 1 \in Nat /\ k - 1 \in Nat
        BY <1>5, <2>1, <3>2
      <4>2. ASSUME NEW i \in 1..Len(Kids[n]) PROVE U[k - 1][Kids[n][i]] = U[r - 1][Kids[n][i]]
        <5>1. Kids[n][i] \in Node /\ Rank[Kids[n][i]] < r /\ Rank[Kids[n][i]] \in Nat
          BY <2>1, TreeFacts
        <5>2. Settled(Rank[Kids[n][i]])
          BY <1>6, <5>1
        <5>3. k - 1 >= Rank[Kids[n][i]] /\ r - 1 >= Rank[Kids[n][i]]
          BY <2>1, <4>1, <5>1
        <5>. QED BY <4>1, <5>1, <5>2, <5>3
      <4>3. KidsOut(U[k - 1], n) = KidsOut(U[r - 1], n)
        BY <4>2 DEF KidsOut
      <4>4. U[k][n] = U[r][n]
        BY <1>4, <3>2, <4>1, <4>3
      <4>. QED BY <1>2, <2>1, <4>4
    <3>. QED BY <3>1, <3>2
  <2>. QED BY <2>1
<1>7. Nat \subseteq S
  <2>. HIDE DEF S
  <2>. QED BY <1>6, StrongInduction
<1>8. ASSUME NEW n \in Node, NEW k \in Nat, k >= Rank[n] PROVE U[k][n] = Flat[n]
  <2>1. Settled(Rank[n])
    BY <1>7, TreeFacts
  <2>. QED BY <1>8, <2>1
<1>. HIDE DEF S
<1>9. ASSUME NEW n \in Node, ~Leaf(n) PROVE Flat[n] = Given(n, Len(Kids[n]))
  <2>1. PICK k : k = Rank[n] - 1
    OBVIOUS
  <2>2. k \in Nat /\ Rank[n] = k + 1 /\ Rank[n] \in Nat /\ Rank[n] # 0
    BY <1>5, <1>9, <2>1
  <2>3. ASSUME NEW i \in 1..Len(Kids[n]) PROVE U[k][Kids[n][i]] = Flat[Kids[n][i]]
    <3>1. Kids[n][i] \in Node /\ Rank[Kids[n][i]] < Rank[n] /\ Rank[Kids[n][i]] \in Nat
      BY TreeFacts
    <3>2. k >= Rank[Kids[n][i]]
      BY <2>2, <3>1
    <3>. QED BY <1>8, <2>2, <3>1, <3>2
  <2>4. KidsOut(U[k], n) = KidsOut(Flat, n)
    BY <2>3 DEF KidsOut
  <2>5. Flat[n] = Concat(KidsOut(U[k], n))[Len(Kids[n])]
    BY <1>2, <1>4, <1>9, <2>1, <2>2
  <2>. QED BY <2>4, <2>5 DEF Given, KidsOut
<1>10. ASSUME NEW n \in Node, Leaf(n) PROVE Flat[n] = <<n>>
  BY <1>2, <1>3, <1>10, TreeFacts
<1>. QED BY <1>2, <1>9, <1>10

(* What the first children of a node give. *)
LEMMA GivenFacts ==
  ASSUME NEW n \in Node
  PROVE  /\ \A j \in 0..Len(Kids[n]) : Given(n, j) \in Seq(Node)
         /\ Given(n, 0) = <<>>
         /\ \A j \in 1..Len(Kids[n]) : Given(n, j) = Given(n, j - 1) \o Flat[Kids[n][j]]
<1>1. \A j : Given(n, j) = Concat(KidsOut(Flat, n))[j]
  BY DEF Given, KidsOut
<1>2. Flat \in [Node -> Seq(Node)]
  BY FlatIs
<1>3. PICK c : c = Concat(KidsOut(Flat, n))
  OBVIOUS
<1>4. /\ c \in [0..Len(Kids[n]) -> Seq(Node)] /\ c[0] = <<>>
      /\ \A i \in 1..Len(Kids[n]) : c[i] = c[i - 1] \o Flat[Kids[n][i]]
  BY <1>2, <1>3, KidsOutFacts
<1>. QED BY <1>1, <1>3, <1>4

-----------------------------------------------------------------------------
(* Prefixes *)

LEMMA PrefixTrans ==
  ASSUME NEW S, NEW s \in Seq(S), NEW t \in Seq(S), NEW u \in Seq(S),
         IsPrefixOf(s, t), IsPrefixOf(t, u)
  PROVE  IsPrefixOf(s, u)
BY DEF IsPrefixOf

LEMMA PrefixConcat ==
  ASSUME NEW S, NEW s \in Seq(S), NEW t \in Seq(S), NEW u \in Seq(S), IsPrefixOf(t, u)
  PROVE  /\ s \o t \in Seq(S) /\ Len(s \o t) = Len(s) + Len(t)
         /\ IsPrefixOf(s \o t, s \o u)
         /\ IsPrefixOf(s, s \o t)
         /\ s \o <<>> = s
<1>1. /\ s \o t \in Seq(S) /\ Len(s \o t) = Len(s) + Len(t)
      /\ \A i \in 1..Len(s) : (s \o t)[i] = s[i]
      /\ \A i \in 1..(Len(s) + Len(t)) : (s \o t)[i] = IF i <= Len(s) THEN s[i] ELSE t[i - Len(s)]
      /\ s \o u \in Seq(S) /\ Len(s \o u) = Len(s) + Len(u)
      /\ \A i \in 1..(Len(s) + Len(u)) : (s \o u)[i] = IF i <= Len(s) THEN s[i] ELSE u[i - Len(s)]
      /\ Len(s) \in Nat /\ Len(t) \in Nat /\ Len(u) \in Nat
  OBVIOUS
<1>2. IsPrefixOf(s, s \o t)
  BY <1>1 DEF IsPrefixOf
<1>3. IsPrefixOf(s \o t, s \o u)
  <2>1. Len(t) <= Len(u) /\ \A i \in 1..Len(t) : t[i] = u[i]
    BY DEF IsPrefixOf
  <2>2. ASSUME NEW i \in 1..(Len(s) + Len(t)) PROVE (s \o t)[i] = (s \o u)[i]
    <3>1. i \in 1..(Len(s) + Len(u))
      BY <1>1, <2>1
    <3>2. CASE i <= Len(s)
      BY <1>1, <3>1, <3>2
    <3>3. CASE i > Len(s)
      <4>1. i - Len(s) \in 1..Len(t) /\ ~(i <= Len(s))
        BY <1>1, <3>3
      <4>2. (s \o t)[i] = t[i - Len(s)]
        BY <1>1, <4>1
      <4>3. (s \o u)[i] = u[i - Len(s)]
        BY <1>1, <3>1, <4>1
      <4>. QED BY <2>1, <4>1, <4>2, <4>3
    <3>4. i <= Len(s) \/ i > Len(s)
      <4>1. i \in Nat /\ Len(s) \in Nat
        BY <1>1
      <4>. QED BY <4>1
    <3>. QED BY <3>2, <3>3, <3>4
  <2>3. Len(s) + Len(t) <= Len(s) + Len(u)
    BY <1>1, <2>1
  <2>. QED BY <1>1, <2>2, <2>3 DEF IsPrefixOf
<1>4. s \o <<>> = s
  OBVIOUS
<1>. QED BY <1>1, <1>2, <1>3, <1>4

(* A recording that is somewhere in its children is a beginning of what    *)
(* its node gives.                                                         *)
LEMMA GivenPrefix ==
  ASSUME NEW n \in Node, NEW j \in 0..Len(Kids[n])
  PROVE  /\ IsPrefixOf(Given(n, j), Given(n, Len(Kids[n])))
<1>. DEFINE l == Len(Kids[n])
            S == {k \in Nat : j <= k => IsPrefixOf(Given(n, j), Given(n, k))}
<1>1. l \in Nat /\ j \in Nat /\ j <= l /\ l \in 0..l
  BY TreeFacts
<1>2. IsPrefixOf(Given(n, j), Given(n, j))
  BY DEF IsPrefixOf, Given
<1>3. 0 \in S
  <2>1. j <= 0 => j = 0
    BY <1>1
  <2>. QED BY <1>2, <2>1
<1>4. ASSUME NEW k \in 1..l, k - 1 \in S PROVE k \in S
  <2>1. SUFFICES ASSUME j <= k PROVE IsPrefixOf(Given(n, j), Given(n, k))
    BY <1>1
  <2>2. CASE j = k
    BY <1>2, <2>2
  <2>3. CASE j # k
    <3>1. j <= k - 1 /\ k - 1 \in 0..l
      BY <1>1, <2>1, <2>3
    <3>2. IsPrefixOf(Given(n, j), Given(n, k - 1))
      BY <1>4, <3>1
    <3>3. /\ Given(n, j) \in Seq(Node) /\ Given(n, k - 1) \in Seq(Node)
          /\ Given(n, k) = Given(n, k - 1) \o Flat[Kids[n][k]] /\ Flat[Kids[n][k]] \in Seq(Node)
      BY <3>1, GivenFacts, FlatIs, TreeFacts
    <3>4. IsPrefixOf(Flat[Kids[n][k]], Flat[Kids[n][k]])
      BY <3>3 DEF IsPrefixOf
    <3>5. IsPrefixOf(Given(n, k - 1), Given(n, k)) /\ Given(n, k) \in Seq(Node)
      BY <3>3, <3>4, PrefixConcat
    <3>. QED BY <3>2, <3>3, <3>5, PrefixTrans
  <2>. QED BY <2>2, <2>3
<1>5. 0..l \subseteq S
  <2>. HIDE DEF S
  <2>. QED BY <1>1, <1>3, <1>4, IntervalInduction
<1>. QED BY <1>1, <1>5

-----------------------------------------------------------------------------
(* Who waits for a child's triplet *)

(* A handler calls handlers only. *)
CallsAbove(fs) == \A j, k \in 2..Len(fs) : j < k /\ fs[j].in = "call" => fs[k].in = "call"

LEMMA NoAwait ==
  ASSUME NEW fs \in Seq(Frame), NEW r, NEW e, CallsAbove(fs),
         fs = <<>> \/ (fs[Len(fs)].in # "call" /\ r.is # "triplet")
  PROVE  ~AwaitsOn(fs, r, e)
<1>. SUFFICES ASSUME NEW j \in 1..Len(fs), fs[j] = PullFrame(e),
                     IF j = Len(fs) THEN r.is = "triplet" ELSE fs[j + 1].in = "call"
              PROVE  FALSE
  BY DEF AwaitsOn
<1>1. Len(fs) \in Nat /\ fs # <<>> /\ Len(fs) >= 1
  OBVIOUS
<1>2. j # Len(fs) /\ fs[j + 1].in = "call" /\ fs[Len(fs)].in # "call"
  BY <1>1
<1>3. j + 1 \in 2..Len(fs) /\ Len(fs) \in 2..Len(fs) /\ j + 1 # Len(fs)
  BY <1>1, <1>2
<1>. QED BY <1>2, <1>3 DEF CallsAbove

(* Before and after a step of the frame on top, a pull, that calls no      *)
(* handler nobody waits.                                                   *)
LEMMA PullQuiet ==
  ASSUME Structure, Structure', InPull, ret.is # "triplet", ret'.is # "triplet",
         \/ frames' = Below
         \/ frames' = frames
         \/ \E g \in PullFrames : frames' = Append(frames, g)
  PROVE  \A f : ~Awaits(f) /\ ~Awaits(f)'
<1>1. Types /\ Stack /\ frames \in Seq(Frame) /\ frames' \in Seq(Frame) /\ Top.in = "pull" /\ frames # <<>>
  BY DEF Structure, Types, InPull
<1>2. CallsAbove(frames) /\ CallsAbove(frames')
  BY DEF Structure, Stack, CallsAbove
<1>3. \A f : ~Awaits(f)
  BY <1>1, <1>2, NoAwait DEF Awaits, Top
<1>4. frames' = <<>> \/ frames'[Len(frames')].in # "call"
  <2>1. CASE frames' = Below
    <3>1. Len(Below) = Len(frames) - 1 /\ Len(frames) >= 2 /\ Len(frames) - 1 \in 1..(Len(frames) - 1)
          /\ \A j \in 1..(Len(frames) - 1) : Below[j] = frames[j]
      BY <1>1, StackFacts, LinkToTop
    <3>2. frames[Len(frames) - 1].in # "call"
      BY <1>1, <3>1, Beneath
    <3>. QED BY <2>1, <3>1, <3>2
  <2>2. CASE frames' = frames
    BY <1>1, <2>2 DEF Top
  <2>3. CASE \E g \in PullFrames : frames' = Append(frames, g)
    <3>1. PICK g \in PullFrames : frames' = Append(frames, g)
      BY <2>3
    <3>2. g \in Frame /\ g.in # "call"
      BY DEF Frame, PullFrames
    <3>3. Len(frames') = Len(frames) + 1 /\ frames'[Len(frames) + 1] = g
      BY <1>1, <3>1, <3>2, PushFacts
    <3>. QED BY <3>2, <3>3
  <2>. QED BY <2>1, <2>2, <2>3
<1>5. ASSUME NEW f PROVE ~AwaitsOn(frames', ret', f)
  BY <1>1, <1>2, <1>4, NoAwait
<1>. QED BY <1>3, <1>5 DEF Awaits

-----------------------------------------------------------------------------
(* What a step leaves of the contents *)

CacheGrows == \A m \in Node : cache[m] # Nil => cache'[m] # Nil

LEMMA ChildStays ==
  ASSUME NEW e, entries'[e].node = entries[e].node, entries'[e].source = entries[e].source
  PROVE  /\ HasChild(e)' <=> HasChild(e)
         /\ ChildOf(e)' = ChildOf(e)
         /\ (Awaits(e)' <=> Awaits(e)) => Behind(e)' = Behind(e)
<1>1. (HasChild(e)' <=> HasChild(e)) /\ ChildOf(e)' = ChildOf(e)
  BY DEF HasChild, ChildOf
<1>2. ASSUME Awaits(e)' <=> Awaits(e) PROVE Behind(e)' = Behind(e)
  BY <1>1, <1>2 DEF Behind
<1>. QED BY <1>1, <1>2

LEMMA PartStays ==
  ASSUME Structure, Grown, entries' \in Seq(Entry), NEW e \in 1..Len(entries),
         entries'[e].source = entries[e].source
  PROVE  Part(e)' = Part(e)
<1>1. Types /\ SourceOK(e) /\ entries'[e].node = entries[e].node
  BY DEF Structure, Sources, Grown
<1>2. (HasChild(e)' <=> HasChild(e)) /\ ChildOf(e)' = ChildOf(e)
  BY <1>1, ChildStays
<1>3. CASE HasChild(e)
  <2>1. PICK t : t = ChildOf(e)
    OBVIOUS
  <2>2. t.src \in 1..Len(entries) /\ t.i \in 0..Len(Buf(t.src))
    <3>1. \E m : Reads(t, m)
      BY <1>1, <1>3, <2>1, ChildFacts
    <3>2. t.src \in 1..Len(entries) /\ t.i \in Nat /\ t.i <= Len(Buf(t.src))
      BY <3>1 DEF Reads, Trip
    <3>3. Len(Buf(t.src)) \in Nat
      BY <1>1, <3>2, EntryFacts
    <3>. QED BY <3>2, <3>3
  <2>3. SubSeq(entries'[t.src].buf, 1, t.i) = SubSeq(Buf(t.src), 1, t.i)
    BY <1>1, <2>2, GotStays
  <2>. QED BY <1>2, <1>3, <2>1, <2>3 DEF Part, Buf
<1>4. CASE ~HasChild(e)
  BY <1>2, <1>4 DEF Part
<1>. QED BY <1>3, <1>4

LEMMA ContentStays ==
  ASSUME Structure, Grown, entries' \in Seq(Entry), CacheGrows,
         NEW e \in 1..Len(entries), ContentOK(e),
         entries'[e].source = entries[e].source, entries'[e].buf = Buf(e),
         Awaits(e)' <=> Awaits(e),
         entries'[e].done /\ ~entries[e].done =>
            IF Leaf(entries[e].node) THEN entries[e].source.emitted = 1
            ELSE Behind(e) = Len(Kids[entries[e].node]) /\ ~HasChild(e)
  PROVE  ContentOK(e)'
<1>1. entries'[e].node = entries[e].node /\ entries[e].node \in Node /\ SourceOK(e) /\ Types
  BY EntryFacts DEF Grown, Structure, Sources
<1>2. (HasChild(e)' <=> HasChild(e)) /\ Behind(e)' = Behind(e) /\ Part(e)' = Part(e)
  BY <1>1, ChildStays, PartStays
<1>3. PICK n, b : n = entries[e].node /\ b = Behind(e)
  BY Zenon
<1>4. Flat' = Flat /\ Given(n, b)' = Given(n, b)
  OBVIOUS
<1>5. ASSUME ~Leaf(n) PROVE \A j \in 1..b : cache'[Kids[n][j]] # Nil
  <2>1. \A j \in 1..b : cache[Kids[n][j]] # Nil
    BY <1>3, <1>5 DEF ContentOK
  <2>2. \A j \in 1..b : Kids[n][j] \in Node
    <3>1. b \in Int /\ b <= Len(Kids[n])
      BY <1>1, <1>3, EntryFacts, TreeFacts, SMTT(60) DEF Behind, SourceOK
    <3>. QED BY <1>1, <1>3, <3>1, TreeFacts
  <2>. QED BY <2>1, <2>2 DEF CacheGrows
<1>6. Buf(e)' = Buf(e)
  BY DEF Buf
<1>7. Leaf(n) => /\ Buf(e)' = (IF entries'[e].source.emitted = 0 THEN <<>> ELSE <<n>>)
                 /\ entries'[e].done => entries'[e].source.emitted = 1
  BY <1>3, <1>6 DEF ContentOK
<1>8. ~Leaf(n) => /\ Buf(e)' = Given(n, b) \o Part(e)'
                  /\ entries'[e].done => b = Len(Kids[n]) /\ ~HasChild(e)'
                  /\ ~Lazy(n) => \A j \in 1..Len(Kids[n]) : j > entries'[e].source.at =>
                                    entries'[e].source.open[j].i = 0
  BY <1>2, <1>3, <1>6 DEF ContentOK
<1>9. IsPrefixOf(Buf(e)', Flat[n])
  BY <1>3, <1>6 DEF ContentOK
<1>. QED BY <1>1, <1>2, <1>3, <1>5, <1>7, <1>8, <1>9 DEF ContentOK

(* Only the recording e gets other contents. *)
LEMMA ContentsTurn ==
  ASSUME Structure, Contents, Grown, entries' \in Seq(Entry), Len(entries') = Len(entries), CacheGrows,
         NEW e,
         \A f \in 1..Len(entries) : f # e => entries'[f] = entries[f] /\ (Awaits(f)' <=> Awaits(f)),
         e \in 1..Len(entries) => ContentOK(e)'
  PROVE  Contents'
<1>1. ASSUME NEW f \in 1..Len(entries) PROVE ContentOK(f)'
  <2>1. CASE f # e
    <3>1. entries'[f] = entries[f] /\ (Awaits(f)' <=> Awaits(f)) /\ ContentOK(f)
      BY <2>1 DEF Contents
    <3>2. entries'[f].source = entries[f].source /\ entries'[f].buf = Buf(f)
          /\ ~(entries'[f].done /\ ~entries[f].done)
      BY <3>1 DEF Buf
    <3>. QED BY <3>1, <3>2, ContentStays
  <2>. QED BY <2>1
<1>. QED BY <1>1 DEF Contents

(* A recording that is finished is its node's output, and its children     *)
(* are committed.                                                          *)
LEMMA DoneContent ==
  ASSUME Structure, Contents, NEW e \in 1..Len(entries), entries[e].done
  PROVE  /\ Buf(e) = Flat[entries[e].node]
         /\ \A i \in 1..Len(Kids[entries[e].node]) : cache[Kids[entries[e].node][i]] # Nil
<1>1. PICK n : n = entries[e].node
  OBVIOUS
<1>2. n \in Node /\ ContentOK(e)
  BY <1>1, EntryFacts DEF Structure, Contents
<1>3. CASE Leaf(n)
  <2>1. entries[e].source.emitted = 1 /\ Buf(e) = <<n>>
    BY <1>1, <1>2, <1>3 DEF ContentOK
  <2>2. Flat[n] = <<n>> /\ Len(Kids[n]) = 0
    BY <1>2, <1>3, FlatIs, TreeFacts
  <2>. QED BY <1>1, <2>1, <2>2
<1>4. CASE ~Leaf(n)
  <2>1. Buf(e) = Given(n, Len(Kids[n])) \o <<>> /\ \A i \in 1..Len(Kids[n]) : cache[Kids[n][i]] # Nil
    BY <1>1, <1>2, <1>4 DEF ContentOK, Part
  <2>2. Flat[n] = Given(n, Len(Kids[n])) /\ Flat[n] \in Seq(Node)
    BY <1>2, <1>4, FlatIs
  <2>3. Flat[n] \o <<>> = Flat[n]
    BY <2>2
  <2>. QED BY <1>1, <2>1, <2>2, <2>3
<1>. QED BY <1>3, <1>4

(* A beginning of a child's output after what the children before it gave. *)
LEMMA PartPrefix ==
  ASSUME NEW n \in Node, NEW j \in 1..Len(Kids[n]), NEW p \in Seq(Node), IsPrefixOf(p, Flat[Kids[n][j]])
  PROVE  Given(n, j - 1) \o p \in Seq(Node) /\ IsPrefixOf(Given(n, j - 1) \o p, Flat[n])
<1>1. /\ j - 1 \in 0..Len(Kids[n]) /\ j \in 0..Len(Kids[n]) /\ Len(Kids[n]) \in 0..Len(Kids[n])
      /\ ~Leaf(n) /\ Kids[n][j] \in Node
  BY TreeFacts
<1>2. /\ Given(n, j - 1) \in Seq(Node) /\ Given(n, j) \in Seq(Node) /\ Given(n, Len(Kids[n])) \in Seq(Node)
      /\ Given(n, j) = Given(n, j - 1) \o Flat[Kids[n][j]]
      /\ Flat[Kids[n][j]] \in Seq(Node) /\ Flat[n] = Given(n, Len(Kids[n]))
  BY <1>1, GivenFacts, FlatIs
<1>3. Given(n, j - 1) \o p \in Seq(Node) /\ IsPrefixOf(Given(n, j - 1) \o p, Given(n, j))
  BY <1>2, PrefixConcat
<1>4. IsPrefixOf(Given(n, j), Flat[n])
  BY <1>1, <1>2, GivenPrefix
<1>. QED BY <1>2, <1>3, <1>4, PrefixTrans

LEMMA AppendConcat ==
  ASSUME NEW S, NEW s \in Seq(S), NEW t \in Seq(S), NEW v \in S
  PROVE  Append(s \o t, v) = s \o Append(t, v)
OBVIOUS

LEMMA SubSeqPrefix ==
  ASSUME NEW S, NEW s \in Seq(S), NEW i \in 0..Len(s)
  PROVE  IsPrefixOf(SubSeq(s, 1, i), s) /\ SubSeq(s, 1, i) \in Seq(S)
BY SeqPrefix DEF IsPrefixOf

(* Where a recording with a child is. *)
ChildAt(e, n, at, t) ==
  /\ n \in Node /\ ~Leaf(n) /\ at \in 1..Len(Kids[n]) /\ Behind(e) = at - 1
  /\ Reads(t, Kids[n][at]) /\ t.src \in 1..Len(entries)
  /\ Buf(t.src) \in Seq(Node) /\ t.i \in 0..Len(Buf(t.src)) /\ Len(Buf(t.src)) \in Nat
  /\ entries[t.src].node = Kids[n][at]
  /\ IsPrefixOf(Buf(t.src), Flat[Kids[n][at]])
  /\ Buf(e) = Given(n, at - 1) \o SubSeq(Buf(t.src), 1, t.i)

LEMMA ChildPlace ==
  ASSUME Structure, Contents, NEW e \in 1..Len(entries), HasChild(e),
         NEW n, n = entries[e].node, NEW at, at = entries[e].source.at, NEW t, t = ChildOf(e)
  PROVE  ChildAt(e, n, at, t)
<1>1. Types /\ SourceOK(e) /\ ContentOK(e)
  BY DEF Structure, Sources, Contents
<1>2. n \in Node /\ ~Leaf(n) /\ at \in 1..Len(Kids[n]) /\ Reads(t, Kids[n][at])
  BY <1>1, ChildFacts, EntryFacts
<1>3. t.src \in 1..Len(entries) /\ t.i \in Nat /\ t.i <= Len(Buf(t.src)) /\ entries[t.src].node = Kids[n][at]
  BY <1>2 DEF Reads, Trip
<1>4. Buf(t.src) \in Seq(Node) /\ Len(Buf(t.src)) \in Nat
  BY <1>1, <1>3, EntryFacts
<1>5. t.i \in 0..Len(Buf(t.src))
  BY <1>3, <1>4
<1>6. Behind(e) = at - 1
  BY SMTT(60) DEF Behind
<1>7. Buf(e) = Given(n, at - 1) \o SubSeq(Buf(t.src), 1, t.i)
  BY <1>1, <1>2, <1>6 DEF ContentOK, Part
<1>8. IsPrefixOf(Buf(t.src), Flat[Kids[n][at]])
  BY <1>3 DEF Contents, ContentOK
<1>. QED BY <1>2, <1>3, <1>4, <1>5, <1>6, <1>7, <1>8, Zenon DEF ChildAt

LEMMA RecordGrows ==
  ASSUME Types, NEW e \in 1..Len(entries), ~entries[e].done, NEW s, s \in Source, NEW v, v \in Node, Record(e, s, v)
  PROVE  OnlyAt(e) /\ entries'[e].buf = Append(Buf(e), v) /\ entries'[e].source = s /\ Grown
BY RecordEffect, Zenon DEF Record

LEMMA GivesContent ==
  ASSUME Structure, Structure', Contents, InPull, NEW e, e = Top.e, HasChild(e), NEW t, t = ChildOf(e),
         t.i < Len(Buf(t.src)), NEW v, v = Buf(t.src)[t.i + 1], ret.is # "triplet",
         Record(e, Moved(Pulled.source, [t EXCEPT !.i = t.i + 1]), v)
  PROVE  Contents'
<1>1. Types /\ e \in 1..Len(entries) /\ ~entries[e].done /\ SourceOK(e)
  BY PullFacts DEF Structure, Pulled
<1>2. PICK n, at, u, s : /\ n = entries[e].node /\ at = entries[e].source.at
                         /\ u = [t EXCEPT !.i = t.i + 1] /\ s = Moved(Pulled.source, u)
  BY Zenon
<1>3. /\ n \in Node /\ ~Leaf(n) /\ at \in 1..Len(Kids[n])
      /\ Reads(t, Kids[n][at]) /\ t.src \in 1..Len(entries)
      /\ Buf(t.src) \in Seq(Node) /\ t.i \in 0..Len(Buf(t.src)) /\ Len(Buf(t.src)) \in Nat
      /\ IsPrefixOf(Buf(t.src), Flat[Kids[n][at]])
      /\ Buf(e) = Given(n, at - 1) \o SubSeq(Buf(t.src), 1, t.i)
      /\ t \in Trip /\ ContentOK(e) /\ Behind(e) = at - 1
  <2>1. /\ n \in Node /\ ~Leaf(n) /\ at \in 1..Len(Kids[n]) /\ Behind(e) = at - 1
        /\ Reads(t, Kids[n][at]) /\ t.src \in 1..Len(entries)
        /\ Buf(t.src) \in Seq(Node) /\ t.i \in 0..Len(Buf(t.src)) /\ Len(Buf(t.src)) \in Nat
        /\ IsPrefixOf(Buf(t.src), Flat[Kids[n][at]])
        /\ Buf(e) = Given(n, at - 1) \o SubSeq(Buf(t.src), 1, t.i)
    <3>1. ChildAt(e, n, at, t)
      BY <1>1, <1>2, ChildPlace
    <3>. QED BY <3>1 DEF ChildAt
  <2>2. t \in Trip
    BY <2>1 DEF Reads
  <2>3. ContentOK(e)
    BY <1>1 DEF Contents
  <2>. QED BY <2>1, <2>2, <2>3
<1>4. u \in Trip /\ u.src = t.src /\ u.i = t.i + 1
  BY <1>2, <1>3, NextTrip, Zenon
<1>5. v \in Node /\ t.i + 1 \in 0..Len(Buf(t.src))
  <2>1. PICK i, k : i = t.i /\ k = Len(Buf(t.src))
    BY Zenon
  <2>2. i \in 0..k /\ k \in Nat /\ i < k
    BY <1>3, <2>1
  <2>3. i + 1 \in 1..k /\ i + 1 \in 0..k
    BY <2>2
  <2>4. \A j \in 1..Len(Buf(t.src)) : Buf(t.src)[j] \in Node
    BY <1>3
  <2>. QED BY <2>1, <2>3, <2>4
<1>6. /\ s \in Source /\ s.at = at /\ Len(s.open) = Len(entries[e].source.open)
      /\ Pos(e) \in 1..Len(entries[e].source.open) /\ s.open[Pos(e)] = u
      /\ \A i \in 1..Len(entries[e].source.open) : i # Pos(e) => s.open[i] = entries[e].source.open[i]
  <2>1. u \in Trip /\ s = Moved(Pulled.source, u)
    BY <1>2, <1>4
  <2>2. /\ s \in Source /\ s.at = entries[e].source.at /\ Len(s.open) = Len(entries[e].source.open)
        /\ Pos(e) \in 1..Len(entries[e].source.open) /\ s.open[Pos(e)] = u
        /\ \A i \in 1..Len(entries[e].source.open) : i # Pos(e) => s.open[i] = entries[e].source.open[i]
    BY <2>1, MovedFacts
  <2>. QED BY <1>2, <2>2
<1>7. Record(e, s, v)
  BY <1>2
<1>8. OnlyAt(e) /\ entries'[e].buf = Append(Buf(e), v) /\ entries'[e].source = s /\ Grown
  BY <1>1, <1>5, <1>6, <1>7, RecordGrows
<1>9. entries'[e].node = n /\ entries'[e].done = entries[e].done
  BY <1>1, <1>2, <1>8 DEF OnlyAt
<1>10. \A f : ~Awaits(f) /\ ~Awaits(f)'
  <2>1. ret'.is # "triplet" /\ frames' = Below
    BY DEF Record, Yield
  <2>. QED BY <2>1, PullQuiet
<1>11. HasChild(e)' /\ ChildOf(e)' = u
  <2>1. CASE Lazy(n)
    <3>1. Pos(e) = 1 /\ s.open # <<>>
      <4>1. Pos(e) = 1
        BY <1>2, <2>1 DEF Pos
      <4>2. Len(s.open) # 0
        BY <1>1, <1>6, <4>1, EntryFacts
      <4>. QED BY <4>1, <4>2
    <3>. QED BY <1>6, <1>8, <1>9, <2>1, <3>1, Zenon DEF HasChild, ChildOf
  <2>2. CASE ~Lazy(n)
    <3>1. Pos(e) = at
      BY <1>2, <2>2 DEF Pos
    <3>2. at <= Len(Kids[n])
      BY <1>3, TreeFacts
    <3>. QED BY <1>6, <1>8, <1>9, <2>2, <3>1, <3>2, Zenon DEF HasChild, ChildOf
  <2>. QED BY <2>1, <2>2
<1>12. Behind(e)' = at - 1
  BY <1>6, <1>8, <1>11, SMTT(60) DEF Behind
<1>13. Part(e)' = SubSeq(Buf(t.src), 1, t.i + 1)
  <2>1. SubSeq(entries'[t.src].buf, 1, t.i + 1) = SubSeq(Buf(t.src), 1, t.i + 1)
    BY <1>1, <1>3, <1>5, <1>8, GotStays DEF OnlyAt
  <2>. QED BY <1>4, <1>11, <2>1 DEF Part, Buf
<1>14. /\ entries'[e].buf = Given(n, at - 1) \o SubSeq(Buf(t.src), 1, t.i + 1)
       /\ IsPrefixOf(entries'[e].buf, Flat[n])
  <2>1. PICK p, q : p = SubSeq(Buf(t.src), 1, t.i) /\ q = SubSeq(Buf(t.src), 1, t.i + 1)
    BY Zenon
  <2>2. /\ p \in Seq(Node) /\ q \in Seq(Node) /\ Append(p, v) = q
        /\ IsPrefixOf(q, Buf(t.src))
    BY <1>3, <1>5, <2>1, OneMore, SubSeqPrefix
  <2>3. at - 1 \in 0..Len(Kids[n]) /\ Kids[n][at] \in Node
    BY <1>3, TreeFacts, SMTT(60)
  <2>4. Given(n, at - 1) \in Seq(Node) /\ Flat[Kids[n][at]] \in Seq(Node)
    BY <1>3, <2>3, GivenFacts, FlatIs
  <2>5. entries'[e].buf = Given(n, at - 1) \o q
    <3>1. PICK g : g = Given(n, at - 1)
      OBVIOUS
    <3>2. g \in Seq(Node) /\ p \in Seq(Node) /\ v \in Node
      BY <1>5, <2>2, <2>4, <3>1
    <3>3. Append(g \o p, v) = g \o Append(p, v)
      BY <3>2, SMTT(60)
    <3>. QED BY <1>3, <1>8, <2>1, <2>2, <3>1, <3>3, Zenon
  <2>6. IsPrefixOf(q, Flat[Kids[n][at]])
    BY <1>3, <2>2, <2>4, PrefixTrans
  <2>. QED BY <1>3, <2>1, <2>2, <2>5, <2>6, PartPrefix
<1>15. \A j \in 1..(at - 1) : cache'[Kids[n][j]] # Nil
  <2>1. \A j \in 1..(at - 1) : cache[Kids[n][j]] # Nil
    BY <1>2, <1>3, Zenon DEF ContentOK
  <2>. QED BY <2>1 DEF Record
<1>16. ~Lazy(n) => \A j \in 1..Len(Kids[n]) : j > at => s.open[j].i = 0
  <2>1. SUFFICES ASSUME ~Lazy(n), NEW j \in 1..Len(Kids[n]), j > at PROVE s.open[j].i = 0
    OBVIOUS
  <2>2. j # Pos(e) /\ j \in 1..Len(entries[e].source.open) /\ entries[e].source.open[j].i = 0
    <3>1. Pos(e) = at
      BY <1>2, <2>1 DEF Pos
    <3>2. Len(entries[e].source.open) = Len(Kids[n])
      BY <1>1, <1>2, <2>1 DEF SourceOK
    <3>3. entries[e].source.open[j].i = 0
      BY <1>2, <1>3, <2>1, Zenon DEF ContentOK
    <3>4. j # at
      BY <1>3, <2>1
    <3>. QED BY <3>1, <3>2, <3>3, <3>4
  <2>. QED BY <1>6, <2>2
<1>17. ContentOK(e)'
  <2>1. Buf(e)' = entries'[e].buf
    BY DEF Buf
  <2>. QED BY <1>1, <1>3, <1>6, <1>8, <1>9, <1>12, <1>13, <1>14, <1>15, <1>16, <2>1, Zenon DEF ContentOK
<1>18. CacheGrows
  BY DEF Record, CacheGrows
<1>. QED BY <1>8, <1>10, <1>17, <1>18, ContentsTurn DEF OnlyAt

LEMMA SubSeqEnds ==
  ASSUME NEW S, NEW s \in Seq(S)
  PROVE  SubSeq(s, 1, 0) = <<>> /\ SubSeq(s, 1, Len(s)) = s
<1>1. /\ SubSeq(s, 1, 0) \in Seq(S) /\ Len(SubSeq(s, 1, 0)) = 0
  BY SeqPrefix
<1>2. /\ SubSeq(s, 1, Len(s)) \in Seq(S) /\ Len(SubSeq(s, 1, Len(s))) = Len(s)
      /\ \A j \in 1..Len(s) : SubSeq(s, 1, Len(s))[j] = s[j]
  BY SeqPrefix
<1>3. SubSeq(s, 1, 0) = <<>>
  BY <1>1
<1>4. SubSeq(s, 1, Len(s)) = s
  BY <1>2, SeqEqual
<1>. QED BY <1>3, <1>4

LEMMA SourceTurns ==
  ASSUME Types, NEW e \in 1..Len(entries), NEW s, s \in Source, entries' = WithSource(e, s)
  PROVE  OnlyAt(e) /\ entries'[e].buf = Buf(e) /\ entries'[e].source = s /\ Grown
BY SourceEffect

(* A child has nothing more: it is put behind the recording. *)
LEMMA EndsContent ==
  ASSUME Structure, Structure', Contents, InPull, NEW e, e = Top.e, HasChild(e), NEW t, t = ChildOf(e),
         t.i = Len(Buf(t.src)), entries[t.src].done, ret.is # "triplet", ret'.is # "triplet",
         entries' = WithSource(e, Passed(Pulled.source)), frames' = frames, UNCHANGED cache
  PROVE  Contents'
<1>1. Types /\ Tables /\ e \in 1..Len(entries) /\ ~entries[e].done /\ SourceOK(e) /\ ContentOK(e) /\ Types'
  <2>1. Types /\ Tables /\ e \in 1..Len(entries) /\ ~entries[e].done /\ SourceOK(e) /\ Types'
    BY PullFacts DEF Structure, Pulled
  <2>. QED BY <2>1 DEF Contents
<1>2. PICK n, at, s : /\ n = entries[e].node /\ at = entries[e].source.at
                      /\ s = Passed(Pulled.source)
  BY Zenon
<1>3. ChildAt(e, n, at, t)
  BY <1>1, <1>2, ChildPlace
<1>4. PICK k : k = Kids[n][at]
  OBVIOUS
<1>5. k \in Node /\ Buf(t.src) = Flat[k] /\ cache[k] # Nil
  <2>1. t.src \in 1..Len(entries) /\ entries[t.src].node = k /\ at \in 1..Len(Kids[n]) /\ n \in Node
    BY <1>3, <1>4 DEF ChildAt
  <2>2. k \in Node
    BY <1>4, <2>1, TreeFacts
  <2>3. cache[k] = t.src
    BY <1>1, <2>1 DEF Tables
  <2>4. t.src # Nil
    BY <2>1 DEF Nil
  <2>. QED BY <2>1, <2>2, <2>3, <2>4, DoneContent
<1>6. /\ s \in Source
      /\ s.emitted = entries[e].source.emitted
      /\ IF Lazy(n) THEN s.at = at /\ s.open = <<>>
         ELSE s.at = at + 1 /\ s.open = entries[e].source.open
  BY <1>2, PassedOK
<1>7. OnlyAt(e) /\ entries'[e].buf = Buf(e) /\ entries'[e].source = s /\ Grown
  <2>1. entries' = WithSource(e, s)
    BY <1>2
  <2>. QED BY <1>1, <1>6, <2>1, SourceTurns
<1>8. entries'[e].node = n /\ ~entries'[e].done /\ Len(entries') = Len(entries) /\ entries' \in Seq(Entry)
  BY <1>1, <1>2, <1>7 DEF OnlyAt
<1>9. \A f : ~Awaits(f) /\ ~Awaits(f)'
  BY PullQuiet
<1>10. at \in 1..Len(Kids[n]) /\ n \in Node /\ ~Leaf(n) /\ Len(Kids[n]) \in Nat /\ at \in Nat
  <2>1. at \in 1..Len(Kids[n]) /\ n \in Node /\ ~Leaf(n)
    BY <1>3 DEF ChildAt
  <2>. QED BY <2>1, TreeFacts
<1>11. Behind(e)' = at
  <2>1. CASE Lazy(n)
    <3>1. ~HasChild(e)'
      BY <1>6, <1>7, <1>8, <2>1 DEF HasChild
    <3>. QED BY <1>6, <1>7, <1>8, <1>9, <2>1, <3>1 DEF Behind
  <2>2. CASE ~Lazy(n)
    <3>1. entries'[e].source.at - 1 = at
      <4>1. \A x, y \in Nat : x = y + 1 => x - 1 = y
        OBVIOUS
      <4>2. PICK x : x = entries'[e].source.at
        OBVIOUS
      <4>3. x = at + 1
        BY <1>6, <1>7, <2>2, <4>2
      <4>4. x \in Nat /\ at \in Nat
        BY <1>10, <4>3
      <4>5. x - 1 = at
        BY <4>1, <4>3, <4>4, SMTT(60)
      <4>. QED BY <4>2, <4>5
    <3>. QED BY <1>8, <2>2, <3>1 DEF Behind
  <2>. QED BY <2>1, <2>2
<1>12. ~Lazy(n) => \A j \in 1..Len(Kids[n]) : j > at => s.open[j].i = 0
  BY <1>1, <1>2, <1>6, <1>10 DEF ContentOK
<1>13. Part(e)' = <<>>
  <2>1. CASE Lazy(n)
    <3>1. ~HasChild(e)'
      BY <1>6, <1>7, <1>8, <2>1 DEF HasChild
    <3>. QED BY <3>1 DEF Part
  <2>2. CASE ~Lazy(n) /\ HasChild(e)'
    <3>1. s.at = at + 1 /\ ChildOf(e)' = s.open[at + 1] /\ at + 1 <= Len(Kids[n])
      BY <1>6, <1>7, <1>8, <2>2, Zenon DEF HasChild, ChildOf
    <3>2. at + 1 \in 1..Len(Kids[n]) /\ at + 1 > at
      BY <1>10, <3>1
    <3>3. PICK u : u = s.open[at + 1]
      OBVIOUS
    <3>4. u.i = 0
      BY <1>12, <2>2, <3>2, <3>3
    <3>5. Reads(u, Kids[n][at + 1])
      <4>1. Reads(entries[e].source.open[at + 1], Kids[n][at + 1])
        BY <1>1, <1>2, <2>2, <3>2 DEF SourceOK
      <4>. QED BY <1>6, <2>2, <3>3, <4>1
    <3>6. u.src \in 1..Len(entries') /\ entries'[u.src].buf \in Seq(Node)
      <4>1. u.src \in 1..Len(entries')
        BY <1>8, <3>5 DEF Reads
      <4>2. entries'[u.src] \in Entry
        BY <1>8, <4>1
      <4>. QED BY <4>1, <4>2 DEF Entry
    <3>7. SubSeq(entries'[u.src].buf, 1, 0) = <<>>
      BY <3>6, SubSeqEnds
    <3>. QED BY <2>2, <3>1, <3>3, <3>4, <3>7 DEF Part, Buf
  <2>3. CASE ~HasChild(e)'
    BY <2>3 DEF Part
  <2>. QED BY <2>1, <2>2, <2>3
<1>14. Buf(e) = Given(n, at) \o <<>>
  <2>1. Buf(t.src) \in Seq(Node) /\ Buf(e) = Given(n, at - 1) \o SubSeq(Buf(t.src), 1, t.i)
    BY <1>3 DEF ChildAt
  <2>2. SubSeq(Buf(t.src), 1, t.i) = Flat[k]
    BY <1>5, <2>1, SubSeqEnds
  <2>3. at \in 1..Len(Kids[n])
    BY <1>10
  <2>4. Given(n, at) = Given(n, at - 1) \o Flat[k]
    BY <1>4, <1>10, <2>3, GivenFacts
  <2>5. Given(n, at) \in Seq(Node)
    <3>1. at \in 0..Len(Kids[n])
      BY <1>10
    <3>. QED BY <1>10, <3>1, GivenFacts
  <2>6. \A g \in Seq(Node) : g \o <<>> = g
    OBVIOUS
  <2>. QED BY <2>1, <2>2, <2>4, <2>5, <2>6
<1>15. \A j \in 1..at : cache'[Kids[n][j]] # Nil
  <2>1. \A j \in 1..(at - 1) : cache[Kids[n][j]] # Nil
    <3>1. Behind(e) = at - 1
      BY <1>3 DEF ChildAt
    <3>. QED BY <1>1, <1>2, <1>10, <3>1 DEF ContentOK
  <2>2. cache[Kids[n][at]] # Nil
    BY <1>4, <1>5
  <2>3. \A j \in 1..at : j \in 1..(at - 1) \/ j = at
    BY <1>10
  <2>. QED BY <2>1, <2>2, <2>3, SMTT(60)
<1>16. ~Lazy(n) => \A j \in 1..Len(Kids[n]) : j > s.at => s.open[j].i = 0
  <2>1. SUFFICES ASSUME ~Lazy(n), NEW j \in 1..Len(Kids[n]), j > s.at PROVE s.open[j].i = 0
    OBVIOUS
  <2>2. j > at
    BY <1>6, <1>10, <2>1
  <2>. QED BY <1>12, <2>1, <2>2
<1>17. ContentOK(e)'
  <2>1. Buf(e)' = Given(n, at) \o <<>> /\ Buf(e)' = Buf(e)
    BY <1>7, <1>14 DEF Buf
  <2>2. IsPrefixOf(Buf(e), Flat[n])
    BY <1>1, <1>2 DEF ContentOK
  <2>. QED BY <1>7, <1>8, <1>10, <1>11, <1>13, <1>15, <1>16, <2>1, <2>2 DEF ContentOK
<1>18. CacheGrows
  BY DEF CacheGrows
<1>19. \A f \in 1..Len(entries) : f # e => entries'[f] = entries[f] /\ (Awaits(f)' <=> Awaits(f))
  BY <1>7, <1>9 DEF OnlyAt
<1>. QED BY <1>7, <1>8, <1>17, <1>18, <1>19, ContentsTurn

(* The recordings stay and so do those that wait. *)
LEMMA SameContents ==
  ASSUME Structure, Contents, UNCHANGED <<entries, cache>>,
         \A f \in 1..Len(entries) : Awaits(f)' <=> Awaits(f)
  PROVE  Contents'
<1>1. Types /\ Grown /\ entries' \in Seq(Entry) /\ Len(entries') = Len(entries) /\ CacheGrows
  BY UnchangedEffect DEF Structure, Types, CacheGrows
<1>2. ~(0 \in 1..Len(entries))
  OBVIOUS
<1>3. \A f \in 1..Len(entries) : entries'[f] = entries[f]
  OBVIOUS
<1>. QED BY <1>1, <1>2, <1>3, ContentsTurn

(* A recording that has gone through everything is committed. *)
LEMMA CommitContent ==
  ASSUME Structure, Structure', Contents, InPull, NEW e, e = Top.e, Commit(e), ret.is # "triplet",
         IF Leaf(entries[e].node) THEN entries[e].source.emitted = 1
         ELSE Behind(e) = Len(Kids[entries[e].node]) /\ ~HasChild(e)
  PROVE  Contents'
<1>1. Types /\ e \in 1..Len(entries) /\ ~entries[e].done /\ entries[e].node \in Node
  BY PullFacts, EntryFacts DEF Structure, Pulled
<1>2. ContentOK(e)
  BY <1>1 DEF Contents
<1>3. /\ entries' \in Seq(Entry) /\ Len(entries') = Len(entries) /\ Grown
      /\ \A f \in 1..Len(entries) : f # e => entries'[f] = entries[f]
      /\ entries'[e].buf = Buf(e) /\ entries'[e].source = entries[e].source
  BY <1>1, CommitEffect
<1>4. \A f : ~Awaits(f) /\ ~Awaits(f)'
  <2>1. ret'.is # "triplet" /\ frames' = Below
    BY DEF Commit, End
  <2>. QED BY <2>1, PullQuiet
<1>5. CacheGrows
  <2>1. cache' = [cache EXCEPT ![entries[e].node] = e] /\ e # Nil /\ cache \in [Node -> Nat]
    BY <1>1 DEF Commit, Nil, Types
  <2>. QED BY <2>1 DEF CacheGrows
<1>6. ContentOK(e)'
  BY <1>1, <1>2, <1>3, <1>4, <1>5, ContentStays
<1>. QED BY <1>3, <1>4, <1>5, <1>6, ContentsTurn

LEMMA PullLeafContent ==
  ASSUME Structure, Structure', Contents, PullLeaf
  PROVE  Contents'
<1>1. PICK e : e = Top.e
  OBVIOUS
<1>2. /\ InPull /\ Types /\ e \in 1..Len(entries) /\ Pulled = entries[e] /\ ~entries[e].done
      /\ entries[e].node \in Node /\ entries[e].source \in Source /\ Leaf(entries[e].node)
      /\ ret.is # "triplet"
  BY <1>1, PullFacts, EntryFacts DEF Structure, PullLeaf, Nothing
<1>3. CASE entries[e].source.emitted # 0
  <2>1. Commit(e)
    BY <1>1, <1>2, <1>3 DEF PullLeaf
  <2>2. entries[e].source.emitted = 1
    BY <1>2, <1>3 DEF Source
  <2>. QED BY <1>1, <1>2, <2>1, <2>2, CommitContent
<1>4. CASE entries[e].source.emitted = 0
  <2>1. PICK n, s : n = entries[e].node /\ s = [entries[e].source EXCEPT !.emitted = 1]
    BY Zenon
  <2>2. s \in Source /\ s.emitted = 1 /\ n \in Node /\ Leaf(n)
    BY <1>2, <2>1 DEF Source
  <2>3. Record(e, s, n)
    BY <1>1, <1>2, <1>4, <2>1 DEF PullLeaf
  <2>4. OnlyAt(e) /\ entries'[e].buf = Append(Buf(e), n) /\ entries'[e].source = s /\ Grown
    BY <1>2, <2>2, <2>3, RecordGrows
  <2>5. entries'[e].node = n /\ ~entries'[e].done /\ entries' \in Seq(Entry) /\ Len(entries') = Len(entries)
    BY <1>2, <2>1, <2>4 DEF OnlyAt
  <2>6. \A f : ~Awaits(f) /\ ~Awaits(f)'
    <3>1. ret'.is # "triplet" /\ frames' = Below
      BY <2>3 DEF Record, Yield
    <3>. QED BY <1>2, <3>1, PullQuiet
  <2>7. entries'[e].buf = <<n>>
    <3>1. Buf(e) = <<>>
      BY <1>2, <1>4, <2>1 DEF Contents, ContentOK
    <3>. QED BY <2>4, <3>1
  <2>8. IsPrefixOf(<<n>>, Flat[n])
    BY <2>2, FlatIs DEF IsPrefixOf
  <2>9. ContentOK(e)'
    BY <2>2, <2>4, <2>5, <2>7, <2>8 DEF ContentOK, Buf
  <2>10. CacheGrows
    BY <2>3 DEF Record, CacheGrows
  <2>. QED BY <2>4, <2>5, <2>6, <2>9, <2>10, ContentsTurn DEF OnlyAt
<1>. QED BY <1>3, <1>4

LEMMA PullChildContent ==
  ASSUME Structure, Structure', Contents, PullChild
  PROVE  Contents'
<1>1. PICK e, t : e = Top.e /\ t = Current
  BY Zenon
<1>2. /\ InPull /\ ret = Nothing /\ ret.is # "triplet"
      /\ Types /\ e \in 1..Len(entries) /\ HasChild(e) /\ t = ChildOf(e)
  BY <1>1, PullFacts DEF Structure, PullChild, Nothing
<1>3. t.src \in 1..Len(entries) /\ t.i \in 0..Len(Buf(t.src)) /\ Len(Buf(t.src)) \in Nat
  BY <1>1, <1>2, ChildTrip
<1>4. CASE t.i < Len(Buf(t.src))
  <2>1. PICK v : v = Buf(t.src)[t.i + 1]
    OBVIOUS
  <2>2. Record(e, Moved(Pulled.source, [t EXCEPT !.i = t.i + 1]), v)
    BY <1>1, <1>3, <1>4, <2>1 DEF PullChild
  <2>. QED BY <1>1, <1>2, <1>4, <2>1, <2>2, GivesContent
<1>5. CASE t.i >= Len(Buf(t.src)) /\ entries[t.src].done
  <2>1. entries' = WithSource(e, Passed(Pulled.source)) /\ UNCHANGED <<cache, frames, ret>>
    BY <1>1, <1>3, <1>5 DEF PullChild
  <2>2. t.i = Len(Buf(t.src))
    BY <1>3, <1>5
  <2>. QED BY <1>1, <1>2, <1>5, <2>1, <2>2, EndsContent
<1>6. CASE t.i >= Len(Buf(t.src)) /\ ~entries[t.src].done
  <2>1. frames' = Append(frames, PullFrame(t.src)) /\ UNCHANGED <<entries, cache, ret>>
    BY <1>1, <1>3, <1>6 DEF PullChild
  <2>2. PullFrame(t.src) \in PullFrames
    BY <1>3 DEF PullFrame, PullFrames
  <2>3. \A f : ~Awaits(f) /\ ~Awaits(f)'
    BY <1>2, <2>1, <2>2, PullQuiet
  <2>. QED BY <2>1, <2>3, SameContents
<1>. QED BY <1>3, <1>4, <1>5, <1>6

LEMMA ChildAnswersContent ==
  ASSUME Structure, Structure', Contents, ChildAnswers
  PROVE  Contents'
<1>1. PICK e, t : e = Top.e /\ t = ChildOf(e)
  BY Zenon
<1>2. /\ InPull /\ frames # <<>> /\ Top.in = "pull" /\ ret.is \in {"value", "end"} /\ ret.is # "triplet"
      /\ Pulled = entries[e] /\ Answers
  BY <1>1, PullFacts DEF Structure, ChildAnswers, InPull
<1>3. HasChild(e) /\ Told(t)
  BY <1>1, <1>2 DEF Answers, Nothing
<1>4. t = Current
  BY <1>1, <1>2, <1>3, PullFacts DEF Structure
<1>5. CASE ret.is = "value"
  <2>1. t.i + 1 = Len(Buf(t.src)) /\ ret.v = Buf(t.src)[t.i + 1]
    BY <1>3, <1>5 DEF Told
  <2>2. t.i < Len(Buf(t.src))
    <3>1. t.i \in 0..Len(Buf(t.src)) /\ Len(Buf(t.src)) \in Nat
      BY <1>1, <1>2, <1>3, ChildTrip
    <3>. QED BY <2>1, <3>1
  <2>3. PICK v : v = ret.v
    OBVIOUS
  <2>4. Record(e, Moved(Pulled.source, [t EXCEPT !.i = t.i + 1]), v)
    BY <1>1, <1>4, <1>5, <2>3 DEF ChildAnswers
  <2>. QED BY <1>1, <1>2, <1>3, <2>1, <2>2, <2>3, <2>4, GivesContent
<1>6. CASE ret.is = "end"
  <2>1. /\ entries' = WithSource(e, Passed(Pulled.source))
        /\ ret'.is # "triplet" /\ UNCHANGED <<cache, frames>>
    BY <1>1, <1>6 DEF ChildAnswers, Nothing
  <2>2. t.i = Len(Buf(t.src)) /\ entries[t.src].done
    BY <1>3, <1>6 DEF Told
  <2>. QED BY <1>1, <1>2, <1>3, <2>1, <2>2, EndsContent
<1>. QED BY <1>2, <1>5, <1>6

LEMMA PullExhaustedContent ==
  ASSUME Structure, Structure', Contents, PullExhausted
  PROVE  Contents'
<1>1. PICK e : e = Top.e
  OBVIOUS
<1>2. /\ InPull /\ ret.is # "triplet" /\ Commit(e) /\ Types /\ e \in 1..Len(entries) /\ SourceOK(e)
      /\ ~HasChild(e) /\ ~Leaf(entries[e].node)
      /\ entries[e].source.at >= Len(Kids[entries[e].node])
  BY <1>1, PullFacts DEF Structure, PullExhausted, Nothing
<1>3. PICK n, at : n = entries[e].node /\ at = entries[e].source.at
  BY Zenon
<1>4. n \in Node /\ at \in Nat /\ Len(Kids[n]) \in Nat
  BY <1>2, <1>3, EntryFacts, TreeFacts
<1>5. ~Awaits(e)
  <2>1. ret'.is # "triplet" /\ frames' = Below
    BY <1>2 DEF Commit, End
  <2>. QED BY <1>2, <2>1, PullQuiet
<1>6. Behind(e) = Len(Kids[n])
  <2>1. CASE Lazy(n)
    <3>1. at = Len(Kids[n])
      BY <1>2, <1>3, <1>4, <2>1 DEF SourceOK
    <3>. QED BY <1>2, <1>3, <1>5, <2>1, <3>1 DEF Behind
  <2>2. CASE ~Lazy(n)
    <3>1. at \in 1..(Len(Kids[n]) + 1) /\ ~(at <= Len(Kids[n]))
      BY <1>2, <1>3, <2>2 DEF SourceOK, HasChild
    <3>2. at - 1 = Len(Kids[n])
      BY <1>4, <3>1
    <3>. QED BY <1>3, <2>2, <3>2 DEF Behind
  <2>. QED BY <2>1, <2>2
<1>. QED BY <1>1, <1>2, <1>3, <1>6, CommitContent

(* Under a pull only its own recording can wait, and it does when a        *)
(* triplet is returned or a handler is entered.                            *)
LEMMA TopAwaits ==
  ASSUME NEW fs \in Seq(Frame), fs # <<>>, NEW e, fs[Len(fs)] = PullFrame(e), CallsAbove(fs), NEW r
  PROVE  /\ \A f : f # e => ~AwaitsOn(fs, r, f)
         /\ AwaitsOn(fs, r, e) <=> r.is = "triplet"
<1>1. Len(fs) \in Nat /\ Len(fs) >= 1 /\ Len(fs) \in 1..Len(fs) /\ fs[Len(fs)].in = "pull"
  BY DEF PullFrame
<1>2. ASSUME NEW f, NEW j \in 1..Len(fs), fs[j] = PullFrame(f),
             IF j = Len(fs) THEN r.is = "triplet" ELSE fs[j + 1].in = "call"
      PROVE  j = Len(fs)
  <2>1. SUFFICES ASSUME j # Len(fs) PROVE FALSE
    OBVIOUS
  <2>2. j + 1 \in 2..Len(fs) /\ Len(fs) \in 2..Len(fs) /\ fs[j + 1].in = "call"
    BY <1>1, <1>2, <2>1
  <2>3. j + 1 # Len(fs)
    BY <1>1, <2>2
  <2>. QED BY <1>1, <2>2, <2>3 DEF CallsAbove
<1>3. ASSUME NEW f, AwaitsOn(fs, r, f) PROVE f = e /\ r.is = "triplet"
  <2>1. PICK j \in 1..Len(fs) : fs[j] = PullFrame(f) /\ IF j = Len(fs) THEN r.is = "triplet" ELSE fs[j + 1].in = "call"
    BY <1>3 DEF AwaitsOn
  <2>2. j = Len(fs)
    BY <1>2, <2>1
  <2>. QED BY <2>1, <2>2 DEF PullFrame
<1>4. r.is = "triplet" => AwaitsOn(fs, r, e)
  BY <1>1 DEF AwaitsOn
<1>. QED BY <1>3, <1>4

LEMMA EntersAwaits ==
  ASSUME NEW fs \in Seq(Frame), fs # <<>>, NEW e, fs[Len(fs)] = PullFrame(e), CallsAbove(fs), NEW r,
         NEW g \in CallFrames
  PROVE  /\ \A f : f # e => ~AwaitsOn(Append(fs, g), r, f)
         /\ AwaitsOn(Append(fs, g), r, e)
<1>1. Len(fs) \in Nat /\ Len(fs) >= 1 /\ Len(fs) \in 1..Len(fs) /\ fs[Len(fs)].in = "pull"
  BY DEF PullFrame
<1>2. PICK gs : gs = Append(fs, g)
  OBVIOUS
<1>3. Len(gs) = Len(fs) + 1 /\ gs[Len(fs) + 1] = g /\ \A j \in 1..Len(fs) : gs[j] = fs[j]
  <2>1. g \in Frame
    BY DEF Frame
  <2>. QED BY <1>2, <2>1, AppendProperties
<1>4. g.in = "call"
  BY DEF CallFrames
<1>5. AwaitsOn(gs, r, e)
  <2>1. Len(fs) \in 1..Len(gs) /\ Len(fs) # Len(gs)
    BY <1>1, <1>3
  <2>2. gs[Len(fs)] = PullFrame(e) /\ gs[Len(fs) + 1].in = "call"
    BY <1>1, <1>3, <1>4
  <2>. QED BY <2>1, <2>2 DEF AwaitsOn
<1>6. ASSUME NEW f, AwaitsOn(gs, r, f) PROVE f = e
  <2>1. PICK j \in 1..Len(gs) : gs[j] = PullFrame(f) /\ IF j = Len(gs) THEN r.is = "triplet" ELSE gs[j + 1].in = "call"
    BY <1>6 DEF AwaitsOn
  <2>2. CASE j = Len(fs)
    BY <1>1, <1>3, <2>1, <2>2 DEF PullFrame
  <2>3. CASE j = Len(gs)
    BY <1>3, <1>4, <2>1, <2>3 DEF PullFrame
  <2>4. CASE j # Len(fs) /\ j # Len(gs)
    <3>1. j + 1 \in 2..Len(fs) /\ Len(fs) \in 2..Len(fs) /\ j + 1 \in 1..Len(fs)
      BY <1>1, <1>3, <2>4
    <3>2. fs[j + 1].in = "call"
      BY <1>3, <2>1, <2>4, <3>1
    <3>3. j + 1 # Len(fs)
      BY <1>1, <3>2
    <3>4. j + 1 < Len(fs)
      BY <1>1, <3>1, <3>3
    <3>. QED BY <1>1, <3>1, <3>2, <3>4 DEF CallsAbove
  <2>. QED BY <2>2, <2>3, <2>4
<1>. QED BY <1>2, <1>5, <1>6

LEMMA PullTop ==
  ASSUME Structure, InPull, NEW e, e = Top.e
  PROVE  /\ frames \in Seq(Frame) /\ frames # <<>> /\ frames[Len(frames)] = PullFrame(e) /\ CallsAbove(frames)
<1>1. frames \in Seq(Frame) /\ frames # <<>> /\ CallsAbove(frames) /\ Top \in PullFrames
  BY PullFacts DEF Structure, Types, Stack, InPull, CallsAbove
<1>2. Top = PullFrame(e)
  BY <1>1 DEF PullFrames, PullFrame
<1>. QED BY <1>1, <1>2 DEF Top

(* The index moves on and the child's phase is called: now the recording   *)
(* waits for the child.                                                    *)
LEMMA PullNextChildContent ==
  ASSUME Structure, Structure', Contents, PullNextChild
  PROVE  Contents'
<1>1. PICK e, n, i, s, k : /\ e = Top.e /\ n = Pulled.node /\ i = Pulled.source.at + 1
                           /\ s = [Pulled.source EXCEPT !.at = i] /\ k = Kids[n][i]
  BY Zenon
<1>2. /\ InPull /\ ret = Nothing /\ ret.is # "triplet" /\ Types /\ Tables
      /\ e \in 1..Len(entries) /\ Pulled = entries[e] /\ ~entries[e].done
      /\ n = entries[e].node /\ ~HasChild(e) /\ Lazy(n) /\ i <= Len(Kids[n])
  BY <1>1, PullFacts DEF Structure, PullNextChild, Nothing
<1>3. n \in Node /\ entries[e].source.at \in Nat /\ Len(Kids[n]) \in Nat /\ entries[e].source \in Source
  BY <1>2, EntryFacts, TreeFacts
<1>4. i - 1 = entries[e].source.at /\ i \in 1..Len(Kids[n]) /\ i \in Nat
  <2>1. PICK a, l : a = entries[e].source.at /\ l = Len(Kids[n])
    BY Zenon
  <2>2. a \in Nat /\ l \in Nat /\ i = a + 1 /\ i <= l
    BY <1>1, <1>2, <1>3, <2>1
  <2>3. i - 1 = a /\ i \in 1..l /\ i \in Nat
    BY <2>2
  <2>. QED BY <2>1, <2>3
<1>5. k \in Node
  BY <1>1, <1>3, <1>4, TreeFacts
<1>6. s \in Source /\ s.at = i /\ s.open = entries[e].source.open /\ s.emitted = entries[e].source.emitted
  BY <1>1, <1>2, <1>3, <1>4 DEF Source
<1>7. entries' = WithSource(e, s) /\ CallPhase(k, frames) /\ UNCHANGED cache
  BY <1>1 DEF PullNextChild
<1>8. OnlyAt(e) /\ entries'[e].buf = Buf(e) /\ entries'[e].source = s /\ Grown
  BY <1>2, <1>6, <1>7, SourceTurns
<1>9. entries'[e].node = n /\ ~entries'[e].done /\ Len(entries') = Len(entries) /\ entries' \in Seq(Entry)
  BY <1>2, <1>8 DEF OnlyAt
<1>10. \A f : ~Awaits(f)
  <2>1. frames \in Seq(Frame) /\ CallsAbove(frames) /\ frames[Len(frames)].in # "call"
    <3>1. frames \in Seq(Frame) /\ CallsAbove(frames) /\ frames[Len(frames)] = PullFrame(e)
      BY <1>1, <1>2, PullTop
    <3>. QED BY <3>1 DEF PullFrame
  <2>. QED BY <1>2, <2>1, NoAwait DEF Awaits
<1>11. Awaits(e)' /\ \A f : f # e => ~Awaits(f)'
  <2>1. frames \in Seq(Frame) /\ frames # <<>> /\ frames[Len(frames)] = PullFrame(e) /\ CallsAbove(frames)
    BY <1>1, <1>2, PullTop
  <2>2. CASE frames' = frames /\ ret'.is = "triplet"
    <3>1. AwaitsOn(frames, ret', e) /\ \A f : f # e => ~AwaitsOn(frames, ret', f)
      BY <2>1, <2>2, TopAwaits
    <3>. QED BY <2>2, <3>1 DEF Awaits
  <2>3. CASE frames' = Append(frames, CallFrame(k))
    <3>1. CallFrame(k) \in CallFrames
      BY <1>5 DEF CallFrame, CallFrames
    <3>2. PICK gs : gs = Append(frames, CallFrame(k))
      OBVIOUS
    <3>3. AwaitsOn(gs, ret', e) /\ \A f : f # e => ~AwaitsOn(gs, ret', f)
      BY <2>1, <3>1, <3>2, EntersAwaits
    <3>. QED BY <2>3, <3>2, <3>3 DEF Awaits
  <2>4. \/ frames' = frames /\ ret'.is = "triplet"
        \/ frames' = Append(frames, CallFrame(k))
    BY <1>2, <1>5, <1>7, CallPhaseEffect DEF Triplet
  <2>. QED BY <2>2, <2>3, <2>4
<1>12. ~HasChild(e)' /\ Part(e)' = <<>> /\ Part(e) = <<>>
  <2>1. ~HasChild(e)'
    BY <1>2, <1>6, <1>8, <1>9 DEF HasChild
  <2>. QED BY <1>2, <2>1 DEF Part
<1>13. Behind(e) = i - 1
  BY <1>2, <1>4, <1>10 DEF Behind
<1>14. Behind(e)' = i - 1
  BY <1>6, <1>8, <1>11 DEF Behind
<1>15. ContentOK(e)'
  <2>1. ContentOK(e) /\ ~Leaf(n)
    BY <1>2, <1>3, TreeFacts DEF Contents
  <2>2. /\ Buf(e) = Given(n, i - 1) \o <<>> /\ \A j \in 1..(i - 1) : cache[Kids[n][j]] # Nil
        /\ IsPrefixOf(Buf(e), Flat[n])
    BY <1>2, <1>12, <1>13, <2>1 DEF ContentOK
  <2>3. Buf(e)' = Buf(e) /\ \A j \in 1..(i - 1) : cache'[Kids[n][j]] # Nil
    BY <1>7, <1>8, <2>2 DEF Buf
  <2>. QED BY <1>2, <1>9, <1>12, <1>14, <2>1, <2>2, <2>3 DEF ContentOK
<1>16. CacheGrows
  BY <1>7 DEF CacheGrows
<1>17. \A f \in 1..Len(entries) : f # e => entries'[f] = entries[f] /\ (Awaits(f)' <=> Awaits(f))
  BY <1>8, <1>10, <1>11 DEF OnlyAt
<1>. QED BY <1>8, <1>9, <1>15, <1>16, <1>17, ContentsTurn

(* The triplet it waited for. *)
LEMMA ChildCalledContent ==
  ASSUME Structure, Structure', Contents, ChildCalled
  PROVE  Contents'
<1>1. PICK e, t : e = Top.e /\ t = ret.trip
  BY Zenon
<1>2. /\ InPull /\ ret.is = "triplet" /\ Types /\ Types' /\ Answers
      /\ e \in 1..Len(entries) /\ Pulled = entries[e] /\ ~entries[e].done
      /\ entries[e].node \in Node /\ entries[e].source \in Source
  BY <1>1, PullFacts, EntryFacts DEF Structure, ChildCalled
<1>3. PICK k \in Node : Asks(e, k) /\ Reads(t, k) /\ t.i = 0
  BY <1>1, <1>2 DEF Answers, Told, Nothing, InPull
<1>4. PICK n, at, s : n = entries[e].node /\ at = entries[e].source.at /\ s = [entries[e].source EXCEPT !.open = <<t>>]
  BY Zenon
<1>5. s \in Source /\ s.at = at /\ s.open = <<t>>
  <2>1. t \in Trip
    BY <1>3 DEF Reads
  <2>2. PICK o : o = <<t>>
    OBVIOUS
  <2>3. s = [entries[e].source EXCEPT !.open = o] /\ o \in Seq(Trip)
    BY <1>4, <2>1, <2>2
  <2>4. s \in Source /\ s.at = entries[e].source.at /\ s.open = o
    BY <1>2, <2>3 DEF Source
  <2>. QED BY <1>4, <2>2, <2>4
<1>6. entries' = WithSource(e, s) /\ ret' = Nothing /\ ret'.is # "triplet" /\ UNCHANGED <<cache, frames>>
  BY <1>1, <1>2, <1>4 DEF ChildCalled, Nothing
<1>7. OnlyAt(e) /\ entries'[e].buf = Buf(e) /\ entries'[e].source = s /\ Grown
  BY <1>2, <1>5, <1>6, SourceTurns
<1>8. entries'[e].node = n /\ ~entries'[e].done /\ Len(entries') = Len(entries) /\ entries' \in Seq(Entry)
  BY <1>2, <1>4, <1>7 DEF OnlyAt
<1>9. frames \in Seq(Frame) /\ frames # <<>> /\ frames[Len(frames)] = PullFrame(e) /\ CallsAbove(frames)
  BY <1>1, <1>2, PullTop
<1>10. Awaits(e) /\ \A f : f # e => ~Awaits(f)
  BY <1>2, <1>9, TopAwaits DEF Awaits
<1>11. \A f : ~Awaits(f)'
  <2>1. \A f : ~AwaitsOn(frames, ret', f)
    BY <1>6, <1>9, TopAwaits
  <2>. QED BY <1>6, <2>1 DEF Awaits
<1>12. Lazy(n) /\ ~HasChild(e) /\ n \in Node /\ ~Leaf(n)
  BY <1>2, <1>3, <1>4, TreeFacts DEF Asks, HasChild
<1>13. HasChild(e)' /\ ChildOf(e)' = t
  <2>1. s.open # <<>> /\ s.open[1] = t
    BY <1>5
  <2>. QED BY <1>7, <1>8, <1>12, <2>1 DEF HasChild, ChildOf
<1>14. Part(e)' = <<>> /\ Part(e) = <<>>
  <2>1. t.src \in 1..Len(entries')
    BY <1>3, <1>8 DEF Reads
  <2>2. entries'[t.src].buf \in Seq(Node)
    <3>1. entries'[t.src] \in Entry
      BY <1>8, <2>1
    <3>. QED BY <3>1 DEF Entry
  <2>3. SubSeq(entries'[t.src].buf, 1, 0) = <<>>
    BY <2>2, SubSeqEnds
  <2>. QED BY <1>3, <1>12, <1>13, <2>3 DEF Part, Buf
<1>15. Behind(e) = at - 1
  BY <1>4, <1>10 DEF Behind
<1>16. Behind(e)' = at - 1
  BY <1>5, <1>7, <1>13 DEF Behind
<1>17. ContentOK(e)'
  <2>1. ContentOK(e)
    BY <1>2 DEF Contents
  <2>2. /\ Buf(e) = Given(n, at - 1) \o <<>> /\ \A j \in 1..(at - 1) : cache[Kids[n][j]] # Nil
        /\ IsPrefixOf(Buf(e), Flat[n])
    BY <1>4, <1>12, <1>14, <1>15, <2>1 DEF ContentOK
  <2>3. Buf(e)' = Buf(e) /\ \A j \in 1..(at - 1) : cache'[Kids[n][j]] # Nil
    BY <1>6, <1>7, <2>2 DEF Buf
  <2>. QED BY <1>8, <1>12, <1>14, <1>16, <2>2, <2>3 DEF ContentOK
<1>18. CacheGrows
  BY <1>6 DEF CacheGrows
<1>19. \A f \in 1..Len(entries) : f # e => entries'[f] = entries[f] /\ (Awaits(f)' <=> Awaits(f))
  BY <1>7, <1>10, <1>11 DEF OnlyAt
<1>. QED BY <1>7, <1>8, <1>17, <1>18, <1>19, ContentsTurn

(* While a handler runs, a recording waits if a handler is right above it. *)
LEMMA CallAwaits ==
  ASSUME NEW fs \in Seq(Frame), fs # <<>>, fs[Len(fs)].in = "call", NEW r, NEW f
  PROVE  AwaitsOn(fs, r, f) <=> \E j \in 1..(Len(fs) - 1) : fs[j] = PullFrame(f) /\ fs[j + 1].in = "call"
<1>1. Len(fs) \in Nat /\ Len(fs) >= 1
  OBVIOUS
<1>2. \A j \in 1..Len(fs) : j # Len(fs) <=> j \in 1..(Len(fs) - 1)
  BY <1>1
<1>3. \A j \in 1..(Len(fs) - 1) : j \in 1..Len(fs)
  BY <1>1
<1>4. fs[Len(fs)] # PullFrame(f)
  BY DEF PullFrame
<1>. QED BY <1>2, <1>3, <1>4 DEF AwaitsOn

(* The frames below the handler's stay. *)
LEMMA AwaitsStays ==
  ASSUME NEW fs \in Seq(Frame), fs # <<>>, fs[Len(fs)].in = "call", NEW f,
         NEW gs \in Seq(Frame), NEW r,
         \A j \in 1..(Len(fs) - 1) : gs[j] = fs[j],
         \/ Len(gs) = Len(fs) - 1 /\ r.is = "triplet"
         \/ Len(gs) = Len(fs) /\ gs[Len(fs)].in = "call"
         \/ Len(gs) = Len(fs) + 1 /\ gs[Len(fs)].in = "call" /\ gs[Len(fs) + 1].in = "call",
         NEW q
  PROVE  AwaitsOn(gs, r, f) <=> AwaitsOn(fs, q, f)
<1>1. Len(fs) \in Nat /\ Len(fs) >= 1
  OBVIOUS
<1>2. PICK P : P = {j \in 1..(Len(fs) - 1) : fs[j] = PullFrame(f) /\ fs[j + 1].in = "call"}
  OBVIOUS
<1>3. AwaitsOn(fs, q, f) <=> P # {}
  <2>1. AwaitsOn(fs, q, f) <=> \E j \in 1..(Len(fs) - 1) : fs[j] = PullFrame(f) /\ fs[j + 1].in = "call"
    BY CallAwaits
  <2>. QED BY <1>2, <2>1, Zenon
<1>4. CASE Len(gs) = Len(fs) - 1 /\ r.is = "triplet"
  <2>1. \A j \in 1..Len(gs) : gs[j] = fs[j] /\ j \in 1..(Len(fs) - 1)
    BY <1>1, <1>4
  <2>2. \A j \in 1..Len(gs) : j # Len(gs) => j + 1 \in 1..Len(gs)
    BY <1>1, <1>4
  <2>3. \A j \in 1..Len(gs) : j # Len(gs) => gs[j + 1] = fs[j + 1]
    BY <2>1, <2>2
  <2>4. \A j \in 1..(Len(fs) - 1) : j \in 1..Len(gs) /\ (j = Len(gs) => fs[j + 1].in = "call")
    BY <1>1, <1>4
  <2>. QED BY <1>2, <1>3, <1>4, <2>1, <2>3, <2>4, ZenonT(60) DEF AwaitsOn
<1>5. CASE Len(gs) = Len(fs) /\ gs[Len(fs)].in = "call"
  <2>1. gs # <<>> /\ gs[Len(gs)].in = "call"
    BY <1>1, <1>5
  <2>2. AwaitsOn(gs, r, f) <=> \E j \in 1..(Len(fs) - 1) : gs[j] = PullFrame(f) /\ gs[j + 1].in = "call"
    BY <1>5, <2>1, CallAwaits
  <2>3. \A j \in 1..(Len(fs) - 1) : gs[j] = fs[j] /\ (gs[j + 1].in = "call" <=> fs[j + 1].in = "call")
    <3>1. \A j \in 1..(Len(fs) - 1) : j + 1 \in 1..(Len(fs) - 1) \/ j + 1 = Len(fs)
      BY <1>1
    <3>. QED BY <1>5, <3>1
  <2>. QED BY <1>2, <1>3, <2>2, <2>3
<1>6. CASE Len(gs) = Len(fs) + 1 /\ gs[Len(fs)].in = "call" /\ gs[Len(fs) + 1].in = "call"
  <2>1. gs # <<>> /\ gs[Len(gs)].in = "call" /\ Len(gs) - 1 = Len(fs)
    BY <1>1, <1>6
  <2>2. AwaitsOn(gs, r, f) <=> \E j \in 1..Len(fs) : gs[j] = PullFrame(f) /\ gs[j + 1].in = "call"
    <3>1. AwaitsOn(gs, r, f) <=> \E j \in 1..(Len(gs) - 1) : gs[j] = PullFrame(f) /\ gs[j + 1].in = "call"
      BY <2>1, CallAwaits
    <3>. QED BY <2>1, <3>1
  <2>3. gs[Len(fs)] # PullFrame(f)
    BY <1>6 DEF PullFrame
  <2>4. \A j \in 1..(Len(fs) - 1) : gs[j] = fs[j] /\ (gs[j + 1].in = "call" <=> fs[j + 1].in = "call")
    <3>1. \A j \in 1..(Len(fs) - 1) : j + 1 \in 1..(Len(fs) - 1) \/ j + 1 = Len(fs)
      BY <1>1
    <3>. QED BY <1>6, <3>1
  <2>5. \A j \in 1..Len(fs) : j = Len(fs) \/ j \in 1..(Len(fs) - 1)
    BY <1>1
  <2>6. \A j \in 1..(Len(fs) - 1) : j \in 1..Len(fs)
    BY <1>1
  <2>. QED BY <1>2, <1>3, <2>2, <2>3, <2>4, <2>5, <2>6
<1>. QED BY <1>4, <1>5, <1>6

LEMMA CallTop ==
  ASSUME Structure, InCall
  PROVE  frames \in Seq(Frame) /\ frames # <<>> /\ frames[Len(frames)].in = "call" /\ Len(frames) \in Nat
BY DEF Structure, Types, InCall, Top

LEMMA HandlerCallsContent ==
  ASSUME Structure, Structure', Contents, HandlerCalls
  PROVE  Contents'
<1>1. PICK n : n = Kids[Top.node][Len(Top.trips) + 1]
  OBVIOUS
<1>2. /\ Types /\ Tables /\ frames \in Seq(Frame) /\ frames # <<>> /\ frames[Len(frames)].in = "call"
      /\ frames' \in Seq(Frame) /\ Len(frames) \in Nat
  BY CallTop DEF Structure, Types, HandlerCalls
<1>3. CallPhase(n, frames) /\ UNCHANGED <<cache, entries>>
  BY <1>1 DEF HandlerCalls
<1>4. n \in Node
  <2>1. InCall /\ Len(Top.trips) < Len(Kids[Top.node])
    BY DEF HandlerCalls
  <2>2. Top.node \in Node /\ Len(Top.trips) \in Nat
    BY <2>1, CallFacts
  <2>3. Len(Top.trips) + 1 \in 1..Len(Kids[Top.node])
    BY <2>1, <2>2, TreeFacts
  <2>. QED BY <1>1, <2>2, <2>3, TreeFacts
<1>5. \A f : AwaitsOn(frames', ret', f) <=> AwaitsOn(frames, ret, f)
  <2>1. CASE frames' = frames
    BY <1>2, <2>1, AwaitsStays
  <2>2. CASE frames' = Append(frames, CallFrame(n))
    <3>1. CallFrame(n) \in Frame /\ CallFrame(n).in = "call"
      BY <1>4 DEF CallFrame, CallFrames, Frame
    <3>2. /\ Len(frames') = Len(frames) + 1 /\ frames'[Len(frames) + 1] = CallFrame(n)
          /\ \A j \in 1..Len(frames) : frames'[j] = frames[j]
      BY <1>2, <2>2, <3>1, AppendProperties
    <3>3. frames'[Len(frames)].in = "call" /\ \A j \in 1..(Len(frames) - 1) : frames'[j] = frames[j]
      <4>1. Len(frames) \in 1..Len(frames) /\ \A j \in 1..(Len(frames) - 1) : j \in 1..Len(frames)
        BY <1>2
      <4>. QED BY <1>2, <3>2, <4>1
    <3>. QED BY <1>2, <3>1, <3>2, <3>3, AwaitsStays
  <2>. QED BY <1>2, <1>3, <1>4, <2>1, <2>2, CallPhaseEffect
<1>. QED BY <1>3, <1>5, SameContents DEF Awaits

LEMMA HandlerGetsContent ==
  ASSUME Structure, Structure', Contents, HandlerGets
  PROVE  Contents'
<1>1. PICK g : g = [Top EXCEPT !.trips = Append(Top.trips, ret.trip)]
  OBVIOUS
<1>2. /\ Types /\ frames \in Seq(Frame) /\ frames # <<>> /\ frames[Len(frames)].in = "call"
      /\ frames' \in Seq(Frame) /\ Len(frames) \in Nat /\ Top \in CallFrames
  BY CallTop, CallFacts DEF Structure, Types, HandlerGets
<1>3. frames' = Append(Below, g) /\ UNCHANGED <<cache, entries>>
  BY <1>1 DEF HandlerGets
<1>4. g.in = "call"
  BY <1>1, <1>2 DEF CallFrames
<1>5. /\ Below \in Seq(Frame) /\ Len(Below) = Len(frames) - 1
      /\ \A j \in 1..(Len(frames) - 1) : Below[j] = frames[j]
  BY <1>2, StackFacts
<1>6. PICK b : b = Below
  OBVIOUS
<1>7. /\ Len(frames') = Len(b) + 1 /\ frames'[Len(b) + 1] = g
      /\ \A j \in 1..Len(b) : frames'[j] = b[j]
  BY <1>3, <1>5, <1>6
<1>8. Len(b) + 1 = Len(frames)
  BY <1>2, <1>5, <1>6
<1>9. Len(frames') = Len(frames) /\ frames'[Len(frames)].in = "call"
      /\ \A j \in 1..(Len(frames) - 1) : frames'[j] = frames[j]
  BY <1>4, <1>5, <1>6, <1>7, <1>8
<1>10. \A f : AwaitsOn(frames', ret', f) <=> AwaitsOn(frames, ret, f)
  BY <1>2, <1>9, AwaitsStays
<1>. QED BY <1>3, <1>10, SameContents DEF Awaits

LEMMA HandlerReturnsContent ==
  ASSUME Structure, Structure', Contents, HandlerReturns
  PROVE  Contents'
<1>1. PICK n, trips, l : n = Top.node /\ trips = Top.trips /\ l = Len(entries) + 1
  BY Zenon
<1>2. /\ Types /\ Types' /\ Stack /\ frames \in Seq(Frame) /\ frames # <<>> /\ frames[Len(frames)].in = "call"
      /\ frames' \in Seq(Frame) /\ Len(frames) \in Nat
      /\ n \in Node /\ trips \in Seq(Trip) /\ Len(trips) \in Nat /\ FrameOK(Top) /\ Top.in = "call"
      /\ Lazy(n) \/ Len(trips) = Len(Kids[n])
  BY <1>1, CallTop, CallFacts DEF Structure, Types, HandlerReturns
<1>3. Begin(n, trips) /\ UNCHANGED cache
  BY <1>1 DEF HandlerReturns
<1>4. /\ entries' \in Seq(Entry) /\ Len(entries') = l /\ Grown /\ l \in Nat /\ l = Len(entries) + 1
      /\ Len(entries) \in Nat
      /\ \A f \in 1..Len(entries) : entries'[f] = entries[f]
      /\ entries'[l].node = n /\ entries'[l].buf = <<>> /\ ~entries'[l].done
      /\ entries'[l].source = SourceOf(n, trips)
  BY <1>1, <1>2, <1>3, BeginEffect, SMTT(60) DEF Types
<1>5. frames' = Below /\ ret'.is = "triplet"
  BY <1>3 DEF Begin, Triplet
<1>6. \A f : AwaitsOn(frames', ret', f) <=> AwaitsOn(frames, ret, f)
  <2>1. Len(frames') = Len(frames) - 1 /\ \A j \in 1..(Len(frames) - 1) : frames'[j] = frames[j]
    BY <1>2, <1>5, StackFacts
  <2>. QED BY <1>2, <1>5, <2>1, AwaitsStays
<1>7. CacheGrows
  BY <1>3 DEF CacheGrows
<1>8. ASSUME NEW f \in 1..Len(entries) PROVE ContentOK(f)'
  <2>1. entries'[f] = entries[f] /\ (Awaits(f)' <=> Awaits(f)) /\ ContentOK(f)
    BY <1>4, <1>6 DEF Awaits, Contents
  <2>2. entries'[f].source = entries[f].source /\ entries'[f].buf = Buf(f)
        /\ ~(entries'[f].done /\ ~entries[f].done)
    BY <2>1 DEF Buf
  <2>. QED BY <1>4, <1>7, <2>1, <2>2, ContentStays
<1>9. ~Awaits(l)'
  <2>1. ~AwaitsOn(frames, ret, l)
    <3>1. SUFFICES ASSUME NEW j \in 1..Len(frames), frames[j] = PullFrame(l) PROVE FALSE
      BY DEF AwaitsOn
    <3>2. FrameOK(frames[j])
      BY <1>2 DEF Stack
    <3>3. l \in 1..Len(entries)
      BY <3>1, <3>2 DEF FrameOK, PullFrame
    <3>. QED BY <1>4, <3>3
  <2>. QED BY <1>6, <2>1 DEF Awaits
<1>10. \A j \in 1..Len(trips) : Reads(trips[j], Kids[n][j]) /\ trips[j].i = 0
  BY <1>1, <1>2 DEF FrameOK
<1>11. Lazy(n) => trips = <<>>
  BY <1>1, <1>2 DEF FrameOK
<1>12. PICK s : s = entries'[l].source
  OBVIOUS
<1>13. s.at = (IF Lazy(n) THEN 0 ELSE 1) /\ s.open = trips /\ s.emitted = 0
  BY <1>4, <1>12 DEF SourceOf
<1>14. Part(l)' = <<>>
  <2>1. CASE Lazy(n)
    <3>1. ~HasChild(l)'
      BY <1>4, <1>11, <1>12, <1>13, <2>1 DEF HasChild
    <3>. QED BY <3>1 DEF Part
  <2>2. CASE ~Lazy(n) /\ HasChild(l)'
    <3>1. ChildOf(l)' = trips[1] /\ 1 <= Len(Kids[n])
      BY <1>4, <1>12, <1>13, <2>2 DEF HasChild, ChildOf
    <3>2. PICK u : u = trips[1]
      OBVIOUS
    <3>3. 1 \in 1..Len(trips)
      BY <1>2, <2>2, <3>1
    <3>4. Reads(u, Kids[n][1]) /\ u.i = 0
      BY <1>10, <3>2, <3>3
    <3>5. u.src \in 1..Len(entries')
      BY <1>4, <3>4 DEF Reads
    <3>6. entries'[u.src].buf \in Seq(Node)
      <4>1. entries'[u.src] \in Entry
        BY <1>4, <3>5
      <4>. QED BY <4>1 DEF Entry
    <3>7. SubSeq(entries'[u.src].buf, 1, 0) = <<>>
      BY <3>6, SubSeqEnds
    <3>. QED BY <2>2, <3>1, <3>2, <3>4, <3>7 DEF Part, Buf
  <2>3. CASE ~HasChild(l)'
    BY <2>3 DEF Part
  <2>. QED BY <2>1, <2>2, <2>3
<1>15. Behind(l)' = 0
  <2>1. CASE Lazy(n)
    <3>1. ~HasChild(l)'
      BY <1>4, <1>11, <1>12, <1>13, <2>1 DEF HasChild
    <3>. QED BY <1>4, <1>9, <1>12, <1>13, <2>1, <3>1 DEF Behind
  <2>2. CASE ~Lazy(n)
    BY <1>4, <1>12, <1>13, <2>2 DEF Behind
  <2>. QED BY <2>1, <2>2
<1>16. ~Lazy(n) => \A j \in 1..Len(Kids[n]) : j > s.at => s.open[j].i = 0
  BY <1>2, <1>10, <1>13
<1>17. ContentOK(l)'
  <2>1. Given(n, 0) = <<>> /\ <<>> \o <<>> = <<>>
    <3>1. Given(n, 0) = <<>>
      BY <1>2, GivenFacts
    <3>2. <<>> \in Seq(Node) /\ \A g \in Seq(Node) : g \o <<>> = g
      OBVIOUS
    <3>. QED BY <3>1, <3>2
  <2>2. IsPrefixOf(<<>>, Flat[n])
    <3>1. Flat[n] \in Seq(Node)
      BY <1>2, FlatIs
    <3>. QED BY <3>1 DEF IsPrefixOf
  <2>3. Leaf(n) => Buf(l)' = (IF s.emitted = 0 THEN <<>> ELSE <<n>>)
    BY <1>4, <1>13 DEF Buf
  <2>4. Buf(l)' = Given(n, Behind(l)') \o Part(l)' /\ Behind(l)' = 0
    BY <1>4, <1>14, <1>15, <2>1 DEF Buf
  <2>5. \A j \in 1..0 : cache'[Kids[n][j]] # Nil
    OBVIOUS
  <2>6. Buf(l)' = <<>>
    BY <1>4 DEF Buf
  <2>. QED BY <1>4, <1>12, <1>16, <2>2, <2>3, <2>4, <2>5, <2>6 DEF ContentOK
<1>18. \A f \in 1..Len(entries') : f \in 1..Len(entries) \/ f = l
  BY <1>4
<1>. QED BY <1>8, <1>17, <1>18 DEF Contents

LEMMA NoPullNoAwait ==
  ASSUME NEW fs, NEW r, \A j \in 1..Len(fs) : fs[j].in # "pull"
  PROVE  \A f : ~AwaitsOn(fs, r, f)
BY DEF AwaitsOn, PullFrame

(* When the program's own frame is all there is, or nothing, nobody waits. *)
LEMMA UserQuiet ==
  ASSUME Structure, Quiet \/ InUser
  PROVE  \A f : ~Awaits(f)
<1>1. Stack /\ frames \in Seq(Frame)
  BY DEF Structure, Types
<1>2. CASE frames = <<>>
  BY <1>2 DEF Awaits, AwaitsOn
<1>3. CASE frames # <<>> /\ Top.in = "user"
  <2>1. Len(frames) \in 1..Len(frames) /\ Len(frames) \in Nat
    BY <1>1, <1>3
  <2>2. Len(frames) = 1
    BY <1>1, <1>3, <2>1 DEF Stack, Top
  <2>3. \A j \in 1..Len(frames) : frames[j].in # "pull"
    BY <1>3, <2>2 DEF Top
  <2>. QED BY <2>3, NoPullNoAwait DEF Awaits
<1>. QED BY <1>2, <1>3 DEF Quiet, InUser

LEMMA UserCallsContent ==
  ASSUME Structure, Structure', Contents, NEW c \in Consumer, NEW n \in Root, UserCalls(c, n)
  PROVE  Contents'
<1>1. PICK fs : fs = <<UserPull(c)>>
  OBVIOUS
<1>2. n \in Node /\ Types /\ Tables /\ Quiet
  BY TreeAssumption DEF Structure, UserCalls
<1>3. CallPhase(n, fs) /\ UNCHANGED <<cache, entries>>
  BY <1>1 DEF UserCalls
<1>4. \A f : ~AwaitsOn(frames', ret', f)
  <2>1. CASE frames' = fs
    <3>1. \A j \in 1..Len(frames') : frames'[j].in # "pull"
      BY <1>1, <2>1 DEF UserPull
    <3>. QED BY <3>1, NoPullNoAwait
  <2>2. CASE frames' = Append(fs, CallFrame(n))
    <3>1. frames' = <<UserPull(c), CallFrame(n)>>
      <4>1. UserPull(c) \in Frame /\ CallFrame(n) \in Frame
        BY <1>2, UserFrameFacts DEF CallFrame, CallFrames, Frame
      <4>2. Append(<<UserPull(c)>>, CallFrame(n)) = <<UserPull(c), CallFrame(n)>>
        BY <4>1, AppendTwo
      <4>. QED BY <1>1, <2>2, <4>2
    <3>2. UserPull(c).in # "pull" /\ CallFrame(n).in # "pull"
      BY DEF UserPull, CallFrame
    <3>3. Len(frames') = 2 /\ frames'[1].in # "pull" /\ frames'[2].in # "pull"
      BY <3>1, <3>2
    <3>4. \A j \in 1..2 : j = 1 \/ j = 2
      OBVIOUS
    <3>5. \A j \in 1..Len(frames') : frames'[j].in # "pull"
      BY <3>3, <3>4
    <3>. QED BY <3>5, NoPullNoAwait
  <2>. QED BY <1>2, <1>3, <2>1, <2>2, CallPhaseEffect
<1>5. \A f : ~Awaits(f)
  BY <1>2, UserQuiet
<1>. QED BY <1>3, <1>4, <1>5, SameContents DEF Awaits

LEMMA UserPullsContent ==
  ASSUME Structure, Structure', Contents, NEW c \in Consumer, UserPulls(c)
  PROVE  Contents'
<1>1. PICK t : t = held[c].trip
  OBVIOUS
<1>2. Quiet /\ UNCHANGED <<cache, entries, ret>> /\ frames = <<>> /\ ret = Nothing
      /\ (frames' = frames \/ frames' = <<UserPull(c), PullFrame(t.src)>>)
  BY <1>1, QuietFacts DEF UserPulls, Quiet
<1>3. \A f : ~Awaits(f)
  BY <1>2, UserQuiet
<1>4. \A f : ~AwaitsOn(frames', ret', f)
  <2>1. CASE frames' = frames
    BY <1>2, <2>1 DEF AwaitsOn
  <2>2. CASE frames' = <<UserPull(c), PullFrame(t.src)>>
    <3>1. frames' \in Seq(Frame) /\ CallsAbove(frames')
      BY DEF Structure, Types, Stack, CallsAbove
    <3>2. Len(frames') = 2 /\ frames'[2] = PullFrame(t.src)
      BY <2>2
    <3>3. frames'[Len(frames')].in # "call" /\ ret'.is # "triplet"
      BY <1>2, <3>2 DEF PullFrame, Nothing
    <3>. QED BY <3>1, <3>3, NoAwait
  <2>. QED BY <1>2, <2>1, <2>2
<1>. QED BY <1>2, <1>3, <1>4, SameContents DEF Awaits

(* The other steps of the program end with an empty stack. *)
LEMMA UserEndsContent ==
  ASSUME Structure, Contents, Quiet \/ InUser, frames' = <<>>, UNCHANGED <<cache, entries>>
  PROVE  Contents'
<1>1. \A f : ~Awaits(f)
  BY UserQuiet
<1>2. \A f : ~AwaitsOn(frames', ret', f)
  BY DEF AwaitsOn
<1>. QED BY <1>1, <1>2, SameContents DEF Awaits

(* An error out of a handler that no pull has called, or out of a leaf,    *)
(* leaves no recording between two children.                               *)
LEMMA RaiseContent ==
  ASSUME ~CallFails, Structure, Contents, Raise
  PROVE  Contents'
<1>1. /\ frames' = <<>> /\ UNCHANGED <<cache, entries>> /\ ret = Nothing /\ ret.is # "triplet"
      /\ frames \in Seq(Frame) /\ CallsAbove(frames)
  BY DEF Raise, Nothing, Structure, Types, Stack, CallsAbove
<1>2. CASE InPull
  <2>1. PICK e : e = Top.e
    OBVIOUS
  <2>2. frames[Len(frames)] = PullFrame(e)
    BY <1>2, <2>1, PullTop
  <2>3. frames[Len(frames)].in # "call"
    BY <2>2 DEF PullFrame
  <2>. QED BY <1>1, <2>3, NoAwait, SameContents DEF Awaits, AwaitsOn
<1>3. CASE InCall /\ ~CallByPull
  <2>1. \A f : ~AwaitsOn(frames, ret, f)
    BY <1>3, NoPullNoAwait DEF CallByPull
  <2>. QED BY <1>1, <2>1, SameContents DEF Awaits, AwaitsOn
<1>. QED BY <1>2, <1>3 DEF Raise

LEMMA InitContents ==
  ASSUME Init
  PROVE  Contents
BY DEF Init, Contents

LEMMA NextContents ==
  ASSUME ~CallFails, Structure, Structure', Contents, [Next]_vars
  PROVE  Contents'
<1>1. CASE HandlerCalls \/ HandlerGets \/ HandlerReturns
  BY <1>1, HandlerCallsContent, HandlerGetsContent, HandlerReturnsContent
<1>2. CASE PullLeaf \/ PullChild \/ ChildAnswers \/ PullExhausted \/ PullNextChild \/ ChildCalled
  BY <1>2, PullLeafContent, PullChildContent, ChildAnswersContent, PullExhaustedContent,
     PullNextChildContent, ChildCalledContent
<1>3. CASE UserGetsTriplet \/ UserGets
  <2>1. InUser /\ frames' = <<>> /\ UNCHANGED <<cache, entries>>
    BY <1>3 DEF UserGetsTriplet, UserGets
  <2>. QED BY <2>1, UserEndsContent
<1>4. CASE \E c \in Consumer : UserPulls(c) \/ UserDrops(c)
  <2>1. CASE \E c \in Consumer : UserPulls(c)
    BY <2>1, UserPullsContent
  <2>2. CASE \E c \in Consumer : UserDrops(c)
    <3>1. Quiet /\ frames' = <<>> /\ UNCHANGED <<cache, entries>>
      BY <2>2 DEF UserDrops, Quiet
    <3>. QED BY <3>1, UserEndsContent
  <2>. QED BY <1>4, <2>1, <2>2
<1>5. CASE \E c \in Consumer, n \in Root : UserCalls(c, n)
  BY <1>5, UserCallsContent
<1>6. CASE Raise
  BY <1>6, RaiseContent
<1>7. CASE UNCHANGED vars
  <2>1. UNCHANGED <<cache, entries, frames, ret>>
    BY <1>7 DEF vars
  <2>. QED BY <2>1, SameContents DEF Awaits, AwaitsOn
<1>. QED BY <1>1, <1>2, <1>3, <1>4, <1>5, <1>6, <1>7 DEF Next, Machine

(* Every recording has what its leaf or its children give, up to where its *)
(* source is (pvm.lua: advance_recording, concat2, concat3, children_gen), *)
(* as long as no handler fails in the middle of a pull.                    *)
THEOREM ContentsHold == ~CallFails => (Spec => []Contents)
<1>. SUFFICES ASSUME ~CallFails PROVE Spec => []Contents
  OBVIOUS
<1>1. Init => Contents
  BY InitContents
<1>2. Structure /\ Structure' /\ Contents /\ [Next]_vars => Contents'
  BY NextContents
<1>. QED BY <1>1, <1>2, StructureHolds, PTL DEF Spec

(* What is committed for a node is the concatenation of its children's     *)
(* output, whoever's pull finished it and whatever errors came between.    *)
THEOREM CommittedFlat == ~CallFails => (Spec => []CommitFlat)
<1>1. ASSUME Structure, Contents PROVE CommitFlat
  <2>1. SUFFICES ASSUME NEW n \in Node, cache[n] # Nil PROVE Buf(cache[n]) = Flat[n]
    BY DEF CommitFlat
  <2>2. PICK e : e = cache[n]
    OBVIOUS
  <2>3. e \in 1..Len(entries) /\ entries[e].node = n /\ entries[e].done
    BY <1>1, <2>1, <2>2 DEF Structure, Tables
  <2>. QED BY <1>1, <2>2, <2>3, DoneContent
<1>. QED BY <1>1, StructureHolds, ContentsHold, PTL

(* A full drain commits all intermediate caches (pvm.lua:23): a committed  *)
(* node has committed children.                                            *)
THEOREM InnerCommitted == ~CallFails => (Spec => []InnerFirst)
<1>1. ASSUME Structure, Contents PROVE InnerFirst
  <2>1. SUFFICES ASSUME NEW n \in Node, cache[n] # Nil, NEW i \in 1..Len(Kids[n])
                 PROVE  cache[Kids[n][i]] # Nil
    BY DEF InnerFirst
  <2>2. PICK e : e = cache[n]
    OBVIOUS
  <2>3. e \in 1..Len(entries) /\ entries[e].node = n /\ entries[e].done
    BY <1>1, <2>1, <2>2 DEF Structure, Tables
  <2>. QED BY <1>1, <2>3, DoneContent
<1>. QED BY <1>1, StructureHolds, ContentsHold, PTL

(* The program gets the leaves below its node in order, each once, and has *)
(* all of them when its triplet ends (pvm.lua: seq_gen, recording_gen).    *)
THEOREM ProgramGetsFlat == ~CallFails => (Spec => []HeldExact)
<1>1. ASSUME Structure, Contents PROVE HeldExact
  <2>1. SUFFICES ASSUME NEW c \in Consumer, held[c].st \in {"open", "done"}
                 PROVE  /\ IsPrefixOf(held[c].got, Flat[held[c].node])
                        /\ held[c].st = "done" => held[c].got = Flat[held[c].node]
    BY DEF HeldExact
  <2>2. PICK t, n, x : t = held[c].trip /\ n = held[c].node /\ x = held[c]
    BY Zenon
  <2>3. Types /\ n \in Node /\ Reads(t, n) /\ x.got = SubSeq(Buf(t.src), 1, t.i)
    BY <1>1, <2>1, <2>2 DEF Structure, Holds
  <2>4. t.src \in 1..Len(entries) /\ entries[t.src].node = n /\ t.i \in Nat /\ t.i <= Len(Buf(t.src))
    BY <2>3 DEF Reads, Trip
  <2>5. Buf(t.src) \in Seq(Node) /\ t.i \in 0..Len(Buf(t.src))
    <3>1. Buf(t.src) \in Seq(Node) /\ Len(Buf(t.src)) \in Nat
      BY <2>3, <2>4, EntryFacts
    <3>. QED BY <2>4, <3>1
  <2>6. IsPrefixOf(x.got, Buf(t.src)) /\ x.got \in Seq(Node)
    BY <2>3, <2>5, SubSeqPrefix
  <2>7. IsPrefixOf(Buf(t.src), Flat[n])
    BY <1>1, <2>4 DEF Contents, ContentOK
  <2>8. Flat[n] \in Seq(Node)
    BY <2>3, FlatIs
  <2>9. IsPrefixOf(x.got, Flat[n])
    BY <2>5, <2>6, <2>7, <2>8, PrefixTrans
  <2>10. ASSUME x.st = "done" PROVE x.got = Flat[n]
    <3>1. entries[t.src].done /\ t.i = Len(Buf(t.src))
      BY <1>1, <2>2, <2>10 DEF Structure, Holds
    <3>2. Buf(t.src) = Flat[n]
      BY <1>1, <2>4, <3>1, DoneContent
    <3>. QED BY <2>3, <2>5, <3>1, <3>2, SubSeqEnds
  <2>. QED BY <2>2, <2>9, <2>10
<1>. QED BY <1>1, StructureHolds, ContentsHold, PTL
=============================================================================
