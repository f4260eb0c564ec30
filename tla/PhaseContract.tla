--------------------------- MODULE PhaseContract ---------------------------
(***************************************************************************)
(* What a pvm phase boundary promises, with no cache, no recording and no  *)
(* sharing in it: asking for the output of a node gives a private reader   *)
(* over everything the handler produces for that node, in order and from   *)
(* the first element, whoever else is reading; a reader ends only when it  *)
(* has delivered all of it; and a reset only changes what later readers    *)
(* see.  PvmPhase implements this.                                         *)
(***************************************************************************)
EXTENDS Naturals, Sequences

CONSTANTS
  Node,    \* the ASDL nodes the phase is called on
  Reader,  \* the consumers
  MaxGen,  \* the phase lives through MaxGen - 1 calls of reset()
  Out      \* Out[g][n]: what the handler produces for n after g - 1 resets

VARIABLES
  epoch,   \* 1 + the number of resets so far
  reader   \* reader[r]: what consumer r holds

avars == <<epoch, reader>>

Closed == [st |-> "idle"]

AInit ==
  /\ epoch = 1
  /\ reader = [r \in Reader |-> Closed]

Whole(r) == Out[reader[r].epoch][reader[r].node]

IsPrefixOf(s, t) == Len(s) <= Len(t) /\ \A i \in 1..Len(s) : s[i] = t[i]

(* A call of the phase: a reader positioned before the first element. *)
AOpen(r, n) ==
  /\ reader[r].st = "idle"
  /\ reader' = [reader EXCEPT ![r] =
       [st |-> "open", epoch |-> epoch, node |-> n, got |-> <<>>]]
  /\ UNCHANGED epoch

(* The consumer obtains one or more further elements. *)
ADeliver(r) ==
  /\ reader[r].st = "open"
  /\ \E k \in Len(reader[r].got) + 1 .. Len(Whole(r)) :
       LET got == [i \in 1..k |-> Whole(r)[i]] IN
       /\ IsPrefixOf(reader[r].got, got)
       /\ reader' = [reader EXCEPT ![r].got = got]
  /\ UNCHANGED epoch

(* The consumer is told that there is nothing more. *)
AFinish(r) ==
  /\ reader[r].st = "open"
  /\ IsPrefixOf(reader[r].got, Whole(r))
  /\ reader' = [reader EXCEPT ![r].st = "done", ![r].got = Whole(r)]
  /\ UNCHANGED epoch

(* The consumers in R let go, finished or not. *)
ADrop(R) ==
  /\ reader' = [r \in Reader |-> IF r \in R THEN Closed ELSE reader[r]]
  /\ UNCHANGED epoch

AReset ==
  /\ epoch < MaxGen
  /\ epoch' = epoch + 1
  /\ UNCHANGED reader

ANext ==
  \/ \E r \in Reader : \E n \in Node : AOpen(r, n)
  \/ \E r \in Reader : ADeliver(r) \/ AFinish(r)
  \/ \E R \in SUBSET Reader : ADrop(R)
  \/ AReset

ASpec == AInit /\ [][ANext]_avars
=============================================================================
