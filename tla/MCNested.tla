----------------------------- MODULE MCNested -----------------------------
(***************************************************************************)
(* Small trees for PvmNested.                                              *)
(***************************************************************************)
EXTENDS PvmNested, TLC

CONSTANTS a, b, m, r, p, q

(* r's four children are gone through by children_gen; two of them are the *)
(* same m, whose children, b twice, are concatenated by concat3, and b is  *)
(* a child of r as well.                                                   *)
SharedKids == (a :> <<>>) @@ (b :> <<>>) @@ (m :> <<b, a, b>>) @@ (r :> <<m, b, a, m>>)

Height == (a :> 0) @@ (b :> 0) @@ (m :> 1) @@ (r :> 2)
=============================================================================
