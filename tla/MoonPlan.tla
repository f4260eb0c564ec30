------------------------------- MODULE MoonPlan -------------------------------
(***************************************************************************)
(* build_module_compile_plan and module_entry_closure_indices of            *)
(* src/moonlift-old/src/runtime.rs: the strongly connected components of a  *)
(* unit's call graph by Tarjan's algorithm, with its explicit stack and the *)
(* recursion of strongconnect as a stack of frames, and the part of the     *)
(* unit an entry point needs, found by walking components.  MoonUnits says  *)
(* what the answer should be; MoonJit uses that.                            *)
(***************************************************************************)
EXTENDS MoonUnits, SequencesExt

CONSTANT Unit        \* the units that are planned

ASSUME PlanAssumption == Unit \subseteq Seq(Spec)

VARIABLES
  unit,         \* the specs being planned
  nextIndex,    \* next_index
  indices,      \* position -> its index, 0 while it has none
  lowlink,
  stack,        \* Tarjan's stack; onstack is membership in it
  compOf,       \* position -> its component, 0 while it has none
  members,      \* comp_members: the positions of each component, as a set
  frames,       \* calls of strongconnect in progress: [v, seen callees]
  outcome       \* "running", "planned" or "duplicate"

vars == <<unit, nextIndex, indices, lowlink, stack, compOf, members, frames, outcome>>
Place == DOMAIN unit

Init ==
  /\ unit \in Unit
  /\ nextIndex = 0
  /\ indices = [i \in Place |-> 0]
  /\ lowlink = [i \in Place |-> 0]
  /\ stack = <<>>
  /\ compOf = [i \in Place |-> 0]
  /\ members = <<>>
  /\ frames = <<>>
  /\ outcome = IF DistinctNames(unit) THEN "running" ELSE "duplicate"

Least(S) == CHOOSE i \in S : \A j \in S : i <= j
Top == Last(frames)
Todo == Deps(unit, Top.v) \ Top.seen      \* callees not visited yet, in order

(* strongconnect(v): v gets the next index and goes on both stacks.         *)
Enter(v, below) ==
  /\ nextIndex' = nextIndex + 1
  /\ indices' = [indices EXCEPT ![v] = nextIndex']
  /\ lowlink' = [lowlink EXCEPT ![v] = nextIndex']
  /\ stack' = Append(stack, v)
  /\ frames' = Append(below, [v |-> v, seen |-> {}])
  /\ UNCHANGED <<unit, compOf, members, outcome>>

(* The loop over the positions: the first that has no index yet.            *)
Root ==
  /\ outcome = "running" /\ frames = <<>>
  /\ LET fresh == {i \in Place : indices[i] = 0} IN
       IF fresh # {} THEN Enter(Least(fresh), <<>>)
       ELSE /\ outcome' = "planned"
            /\ UNCHANGED <<unit, nextIndex, indices, lowlink, stack, compOf, members, frames>>

(* A callee without an index is entered.  Its lowlink is taken over when it *)
(* returns, see Return.                                                     *)
Descend ==
  /\ frames # <<>> /\ Todo # {}
  /\ indices[Least(Todo)] = 0
  /\ Enter(Least(Todo), Front(frames) \o <<[Top EXCEPT !.seen = @ \cup {Least(Todo)}]>>)

(* Bug: a callee of a finished component lowers the caller. *)
Look_AnyCallee ==
  /\ frames # <<>> /\ Todo # {}
  /\ LET w == Least(Todo) IN
     /\ indices[w] # 0
     /\ lowlink' = IF indices[w] < lowlink[Top.v]
                   THEN [lowlink EXCEPT ![Top.v] = indices[w]] ELSE lowlink
     /\ frames' = Front(frames) \o <<[Top EXCEPT !.seen = @ \cup {w}]>>
  /\ UNCHANGED <<unit, nextIndex, indices, stack, compOf, members, outcome>>

(* Bug: a callee with an index is looked at again and again. *)
Look_StaysOn ==
  /\ frames # <<>> /\ Todo # {}
  /\ LET w == Least(Todo) IN
     /\ indices[w] # 0
     /\ lowlink' = IF w \in ToSet(stack) /\ indices[w] < lowlink[Top.v]
                   THEN [lowlink EXCEPT ![Top.v] = indices[w]] ELSE lowlink
  /\ UNCHANGED <<unit, nextIndex, indices, stack, compOf, members, outcome, frames>>

(* A callee that has an index counts only while it is on the stack.         *)
Look ==
  /\ frames # <<>> /\ Todo # {}
  /\ LET w == Least(Todo) IN
     /\ indices[w] # 0
     /\ lowlink' = IF w \in ToSet(stack) /\ indices[w] < lowlink[Top.v]
                   THEN [lowlink EXCEPT ![Top.v] = indices[w]] ELSE lowlink
     /\ frames' = Front(frames) \o <<[Top EXCEPT !.seen = @ \cup {w}]>>
  /\ UNCHANGED <<unit, nextIndex, indices, stack, compOf, members, outcome>>

(* Bug: only v itself leaves the stack. *)
Component_Single(v) ==
  /\ members' = Append(members, {v})
  /\ compOf' = [compOf EXCEPT ![v] = Len(members')]
  /\ stack' = Front(stack)

(* The root of a component pops it off the stack, down to itself.           *)
Component(v) ==
  LET at == CHOOSE k \in DOMAIN stack : stack[k] = v
      comp == ToSet(SubSeq(stack, at, Len(stack)))
  IN  /\ members' = Append(members, comp)
      /\ compOf' = [i \in Place |-> IF i \in comp THEN Len(members') ELSE compOf[i]]
      /\ stack' = SubSeq(stack, 1, at - 1)

(* Bug: the lowlink of the callee is lost. *)
Return_NoLowlink ==
  /\ frames # <<>> /\ Todo = {}
  /\ IF lowlink[Top.v] = indices[Top.v] THEN Component(Top.v)
                                        ELSE UNCHANGED <<members, compOf, stack>>
  /\ frames' = Front(frames)
  /\ UNCHANGED <<unit, nextIndex, indices, outcome, lowlink>>

(* The end of strongconnect: its component if v is the root, and the        *)
(* caller's comparison of lowlinks.                                         *)
Return ==
  /\ frames # <<>> /\ Todo = {}
  /\ IF lowlink[Top.v] = indices[Top.v] THEN Component(Top.v)
                                        ELSE UNCHANGED <<members, compOf, stack>>
  /\ frames' = Front(frames)
  /\ lowlink' = IF Len(frames) > 1 /\ lowlink[Top.v] < lowlink[Last(frames').v]
                THEN [lowlink EXCEPT ![Last(frames').v] = lowlink[Top.v]] ELSE lowlink
  /\ UNCHANGED <<unit, nextIndex, indices, outcome>>

Next == Root \/ Descend \/ Look \/ Return

(* The plan is computed by one call that nothing interrupts.                *)
PlanSpec == Init /\ [][Next]_vars /\ WF_vars(Next)

-----------------------------------------------------------------------------
(* comp_deps: the other components a component's functions call.            *)
CompDeps(c) == {compOf[j] : j \in UNION {Deps(unit, i) : i \in members[c]}} \ {c}

(* Bug: the components an entry calls are found, not what those call. *)
PlanClosure_OneLevel(e) ==
  {i \in Place : compOf[i] \in {compOf[e]} \cup CompDeps(compOf[e])}

(* module_entry_closure_indices: the functions of the components reached    *)
(* from the entry's.                                                        *)
PlanClosure(e) ==
  LET visited[n \in Nat] ==
        IF n = 0 THEN {compOf[e]}
        ELSE visited[n - 1] \cup UNION {CompDeps(c) : c \in visited[n - 1]}
  IN  {i \in Place : compOf[i] \in visited[Len(members)]}

-----------------------------------------------------------------------------
Mutual(i, j) == i \in Reached(unit, j) /\ j \in Reached(unit, i)

(* Two functions share a component exactly when each calls, directly or     *)
(* not, the other; every function is in the component it is mapped to.      *)
ComponentsExact ==
  outcome = "planned" =>
    \A i, j \in Place : /\ compOf[i] # 0
                        /\ compOf[i] = compOf[j] <=> Mutual(i, j)
                        /\ compOf[i] = compOf[j] <=> j \in members[compOf[i]]

(* A component is complete the moment it is made, and everything it calls   *)
(* is in a component made before: components come callees first.            *)
CalleesFirst ==
  \A c \in DOMAIN members : \A i \in members[c] :
    \A j \in Reached(unit, i) : compOf[j] # 0 /\ compOf[j] <= c

(* The functions on Tarjan's stack are the indexed ones without component,  *)
(* in the order of their indices, and each calls, directly or not, the      *)
(* frames above the place where it is.                                      *)
StackSound ==
  /\ ToSet(stack) = {i \in Place : indices[i] # 0 /\ compOf[i] = 0}
  /\ \A k, l \in DOMAIN stack : k < l => indices[stack[k]] < indices[stack[l]]
  /\ \A k \in DOMAIN stack : frames # <<>> => Top.v \in Reached(unit, stack[k])

(* What an entry point gets is what it reaches through calls: the walk over *)
(* components implements MoonUnits' EntryClosure.                           *)
ClosureExact ==
  outcome = "planned" =>
    \A e \in Place : Ordered(unit, PlanClosure(e)) = EntryClosure(unit, NameOf[unit[e]])

(* Every unit is planned or refused.                                        *)
PlanEnds == <>(outcome # "running")
=============================================================================
