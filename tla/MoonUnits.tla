------------------------------ MODULE MoonUnits ------------------------------
(***************************************************************************)
(* Function specs of the table-driven Moonlift runtime and the units they  *)
(* are compiled in (src/moonlift-old/src/runtime.rs, cranelift_jit.rs).     *)
(* A spec is an opaque value: what the JIT looks at is its name, the number *)
(* of its parameters and the names its body calls directly (the runtime     *)
(* turns the legacy "locals" of a spec table into statements of the body).  *)
(***************************************************************************)
EXTENDS Integers, Sequences, FiniteSets

CONSTANTS
  Spec,          \* the function specs a host may hand over
  NameOf,        \* spec -> its name
  Arity,         \* spec -> number of parameters
  Calls          \* spec -> names its body calls directly

ASSUME SpecAssumption ==
  /\ IsFiniteSet(Spec)
  /\ \A s \in Spec : Arity[s] \in Nat

(* function_spec_has_direct_call.                                           *)
HasDirectCall(s) == Calls[s] # {}

DistinctNames(u) == \A i, j \in DOMAIN u : NameOf[u[i]] = NameOf[u[j]] => i = j

(* The positions of a unit that position i calls: callees outside the unit  *)
(* are dropped.                                                             *)
Deps(u, i) == {j \in DOMAIN u : NameOf[u[j]] \in Calls[u[i]]}

(* What a position of a unit reaches through calls, itself included.        *)
Reached(u, i) ==
  LET within[n \in Nat] ==
        IF n = 0 THEN {i}
        ELSE within[n - 1] \cup UNION {Deps(u, j) : j \in within[n - 1]}
  IN  within[Len(u)]

EntryPoint(u, name) == {i \in DOMAIN u : NameOf[u[i]] = name}

(* The part of a unit an entry point needs, in the order of the unit.       *)
Ordered(u, places) ==
  [k \in 1..Cardinality(places) |->
     u[CHOOSE i \in places : Cardinality({j \in places : j <= i}) = k]]

EntryClosure(u, name) ==
  Ordered(u, {i \in DOMAIN u : \E e \in EntryPoint(u, name) : i \in Reached(u, e)})
=============================================================================
