------------------------------ MODULE MCPhase ------------------------------
(***************************************************************************)
(* Instances of PvmPhase for TLC.                                          *)
(***************************************************************************)
EXTENDS PvmPhase, TLC

CONSTANTS n1, n2, r1, r2, r3, x, y, nilv

Nodes == {n1, n2}
Consumers2 == {r1, r2}
Consumers3 == {r1, r2, r3}
Values == {x, y, nilv}

(* n2 is empty at first; a reset lets the handlers produce something else *)
OutTwoNodes == <<n1 :> <<x, y>> @@ n2 :> <<>>, n1 :> <<y>> @@ n2 :> <<x>>>>

OutLong == <<n1 :> <<x, y, x>>>>

ConsumerSymmetry == Permutations(Reader)
=============================================================================
