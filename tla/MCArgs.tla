------------------------------- MODULE MCArgs -------------------------------
(***************************************************************************)
(* Instances of PvmArgs for TLC.                                           *)
(***************************************************************************)
EXTENDS PvmArgs

CONSTANTS n1, n2, a, b, nilarg

Pairs == {<<a, a>>, <<a, b>>, <<nilarg, a>>}
Singles == {<<a>>, <<b>>}
=============================================================================
