------------------------------- MODULE MCPlan -------------------------------
(* Every call graph of four functions in which the first may also call a     *)
(* function outside the unit, and units that repeat a name.                  *)
EXTENDS MoonPlan

Names == {"a", "b", "c", "d"}
Callable(n) == IF n = "a" THEN {"b", "c", "d", "outside"} ELSE Names \ {n}
MCSpec == UNION {[name : {n}, calls : SUBSET Callable(n)] : n \in Names}
MCName == [s \in MCSpec |-> s.name]
MCArity == [s \in MCSpec |-> 0]
MCCalls == [s \in MCSpec |-> s.calls]
Named(n) == {s \in MCSpec : s.name = n}
Plain(n) == [name |-> n, calls |-> {}]
MCUnit ==
  {<<p, q, r, s>> : p \in Named("a"), q \in Named("b"), r \in Named("c"), s \in Named("d")}
  \cup {<<>>, <<Plain("a")>>, <<Plain("b"), Plain("a"), Plain("b")>>}
=============================================================================
