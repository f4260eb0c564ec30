------------------------------- MODULE MoonOpt -------------------------------
(***************************************************************************)
(* The optimizer of cranelift_jit.rs: constant folding, bounds checks moved *)
(* out of counted loops, and loop-while rewritten to for-range.  A function *)
(* is optimized and then called, as its source form is, and the two answers *)
(* are compared.                                                            *)
(***************************************************************************)
EXTENDS MoonIR

CONSTANTS
  Functions,   \* the functions: [body, result]
  Inputs,      \* the arguments they are called with
  Memory,      \* the memory they find
  Elements     \* cells that belong to the array the functions index

None == <<>>
Some(x) == <<x>>

-----------------------------------------------------------------------------
(* const_step_magnitude_bits, for a step whose direction is known.          *)
StepBits(ty, e) ==
  IF ConstDirection(ty, e) = "none" THEN None
  ELSE Some(IF ty = "i" THEN Magnitude(SignExtend(e.bits, ty)) ELSE e.bits)

UnitStep(ty, e) == StepBits(ty, e) = Some(1)

IsLocal(e, name, ty) == e.k = "local" /\ e.name = name /\ e.ty = ty

RECURSIVE Mentions(_, _, _), AssignsName(_, _), Affine(_, _, _)

(* expr_mentions_local, stmt_mentions_local: a walk over everything.        *)
Mentions(e, name, ty) ==
  \/ IsLocal(e, name, ty)
  \/ \E i \in DOMAIN e.kids : Mentions(e.kids[i], name, ty)
  \/ \E i \in DOMAIN e.body : Mentions(e.body[i], name, ty)
  \/ \E i \in DOMAIN e.els : Mentions(e.els[i], name, ty)

(* stmt_assigns_name: a walk over statements only, and the variable of a    *)
(* for-range does not count.                                                *)
AssignsName(s, target) ==
  \/ s.k \in {"let", "var", "set"} /\ s.name = target
  \/ \E i \in DOMAIN s.vars : s.vars[i].name = target
  \/ \E i \in DOMAIN s.body : AssignsName(s.body[i], target)
  \/ \E i \in DOMAIN s.els : AssignsName(s.els[i], target)

(* loop_index_affine: an expression as a constant offset, perhaps from the  *)
(* loop variable.                                                           *)
Affine(e, name, ty) ==
  CASE IsLocal(e, name, ty) -> Some([has |-> TRUE, off |-> 0])
    [] e.k = "const" /\ e.ty = ty ->
         Some([has |-> FALSE, off |-> IF ty = "u" THEN e.bits % Modulus(ty) ELSE SignExtend(e.bits, ty)])
    [] e.k \in {"add", "sub"} /\ e.ty = ty ->
         LET l == Affine(e.kids[1], name, ty)  r == Affine(e.kids[2], name, ty)
         IN  IF l = None \/ r = None THEN None
             ELSE IF r[1].has /\ (l[1].has \/ e.k = "sub") THEN None
             ELSE Some([has |-> l[1].has \/ r[1].has,
                        off |-> IF e.k = "add" THEN l[1].off + r[1].off ELSE l[1].off - r[1].off])
    [] OTHER -> None

(* loop_index_const_offset.                                                 *)
Offset(e, name, ty) ==
  LET a == Affine(e, name, ty) IN IF a # None /\ a[1].has THEN Some(a[1].off) ELSE None

(* extract_local_loop_compare: the bound, the direction and whether the     *)
(* bound is included.                                                       *)
LoopCompare(cond, name, ty) ==
  LET ways == [lt |-> <<"asc", FALSE>>, le |-> <<"asc", TRUE>>, gt |-> <<"desc", FALSE>>, ge |-> <<"desc", TRUE>>]
      flip == [lt |-> "gt", le |-> "ge", gt |-> "lt", ge |-> "le"]
      found(op, fin) == Some([finish |-> fin, dir |-> ways[op][1], incl |-> ways[op][2]])
  IN  CASE cond.k \notin DOMAIN ways -> None
        [] IsLocal(cond.kids[1], name, ty) -> found(cond.k, cond.kids[2])
        [] IsLocal(cond.kids[2], name, ty) -> found(flip[cond.k], cond.kids[1])
        [] OTHER -> None

(* extract_local_step_update: the step and its direction.                   *)
StepUpdate(e, name, ty) ==
  LET step(c, dir) ==
        IF dir = "none" \/ StepBits(ty, c) = None THEN None
        ELSE Some([step |-> Const(ty, StepBits(ty, c)[1]), dir |-> dir])
  IN  CASE e.k \notin {"add", "sub"} \/ e.ty # ty -> None
        [] IsLocal(e.kids[1], name, ty) ->
             step(e.kids[2], IF e.k = "sub" THEN "desc" ELSE ConstDirection(ty, e.kids[2]))
        [] e.k = "add" /\ IsLocal(e.kids[2], name, ty) -> step(e.kids[1], ConstDirection(ty, e.kids[1]))
        [] OTHER -> None

(* The condition bounds a variable and its next value steps it in the same  *)
(* direction.                                                               *)
Counts(v, cond, next) ==
  \E c \in ToSet(LoopCompare(cond, v.name, v.ty)), u \in ToSet(StepUpdate(next, v.name, v.ty)) : c.dir = u.dir

(* loopwhile_primary_index: the one variable of which that is so.           *)
Primary(s) ==
  LET found == {i \in DOMAIN s.vars : Counts(s.vars[i], Cond(s), Nexts(s)[i])}
  IN  IF Cardinality(found) = 1 THEN found ELSE {}

(* reorder_loopwhile_primary_first.                                         *)
PrimaryFirst(s, p) ==
  LET place(i) == IF i = 1 THEN p ELSE IF i <= p THEN i - 1 ELSE i
      moved(q) == [i \in DOMAIN q |-> q[place(i)]]
  IN  [s EXCEPT !.vars = moved(@), !.kids = moved(Inits(s)) \o <<Cond(s)>> \o moved(Nexts(s))]

-----------------------------------------------------------------------------
RECURSIVE Bounded(_, _, _), Strip(_, _, _)

BoundedAll(es, name, ty) == FlattenSeq([i \in DOMAIN es |-> Bounded(es[i], name, ty)])

(* collect_static_bounded_index_offsets: the limits of the index addresses  *)
(* at a constant offset from the loop variable, wherever they are except in *)
(* while and for-range loops.                                               *)
Bounded(e, name, ty) ==
  IF e.k \in {"while", "for"} THEN <<>>
  ELSE LET off == IF e.k = "index" /\ Len(e.kids) = 3 THEN Offset(e.kids[2], name, ty) ELSE None
       IN  (IF off # None THEN <<[limit |-> e.kids[3], off |-> off[1]]>> ELSE <<>>)
           \o BoundedAll(e.kids, name, ty) \o BoundedAll(e.body, name, ty) \o BoundedAll(e.els, name, ty)

(* Those addresses lose their limits, unless the limit depends on the loop  *)
(* variable.                                                                *)
Unlimited(s, name, ty) ==
  IF s.k = "index" /\ Len(s.kids) = 3 /\ Offset(s.kids[2], name, ty) # None /\ ~Mentions(s.kids[3], name, ty)
  THEN [s EXCEPT !.kids = SubSeq(@, 1, 2)] ELSE s

(* strip_hoisted_static_bounds: everywhere except in while and for-range.   *)
Strip(e, name, ty) ==
  IF e.k \in {"while", "for"} THEN e
  ELSE LET all(es) == [i \in DOMAIN es |-> Strip(es[i], name, ty)]
       IN  Unlimited([e EXCEPT !.kids = all(@), !.body = all(@), !.els = all(@)], name, ty)

Shifted(base, ty, off) ==
  CASE off = 0 -> base
    [] off > 0 -> Binary("add", ty, base, Const(ty, off))
    [] OTHER -> Binary("sub", ty, base, Const(ty, -off))

(* enter_loop_expr.                                                         *)
Enter(start, finish, dir, incl) ==
  Binary(CASE dir = "asc" -> IF incl THEN "le" ELSE "lt" [] dir = "desc" -> IF incl THEN "ge" ELSE "gt",
         "bool", start, finish)

(* Bug: only the low end of the range is checked. *)
HoistedChecks_LowOnly(found, ty, start, finish, dir, incl) ==
  LET low == IF dir = "asc" THEN start ELSE finish
  IN  FlattenSeq([i \in DOMAIN found |-> <<BoundsCheck(Shifted(low, ty, found[i].off), found[i].limit)>>])

(* The checks of the first and the last index of the loop against a limit.  *)
HoistedChecks(found, ty, start, finish, dir, incl) ==
  LET last == IF incl THEN finish
              ELSE Binary(IF dir = "asc" THEN "sub" ELSE "add", ty, finish, Const(ty, 1))
      low == IF dir = "asc" THEN start ELSE last
      high == IF dir = "asc" THEN last ELSE start
      checks(f) ==
        LET l == Shifted(low, ty, f.off)  h == Shifted(high, ty, f.off)
        IN  <<BoundsCheck(l, f.limit)>> \o (IF l = h THEN <<>> ELSE <<BoundsCheck(h, f.limit)>>)
  IN  FlattenSeq([i \in DOMAIN found |-> checks(found[i])])

Guarded(enter, checks) == [Node EXCEPT !.k = "if", !.kids = <<enter>>, !.body = checks]

-----------------------------------------------------------------------------
(* const_index_bits, bounds_check_const_safe.                               *)
IndexBits(e) == IF e.ty = "i" THEN SignExtend(e.bits, "i") % Modulus("i") ELSE e.bits
(* Bug: the limit itself is safe. *)
ConstSafe_AtLimit(index, limit) ==
  index.k = "const" /\ limit.k = "const" /\ IndexBits(index) <= IndexBits(limit)

ConstSafe(index, limit) ==
  index.k = "const" /\ limit.k = "const" /\ IndexBits(index) < IndexBits(limit)

(* Bug: comparisons are folded unsigned. *)
FoldCompare_Unsigned(op, ty, a, b) ==
  IF ty = "bool" THEN None
  ELSE Some(Const("bool", Bit(CASE op = "eq" -> a = b [] op = "ne" -> a # b [] op = "lt" -> a < b
                                [] op = "le" -> a <= b [] op = "gt" -> a > b [] op = "ge" -> a >= b)))

(* try_fold_compare: equality and unsigned order look at the bits as they   *)
(* are.                                                                     *)
FoldCompare(op, ty, a, b) ==
  LET l == IF ty = "i" THEN SignExtend(a, ty) ELSE a
      r == IF ty = "i" THEN SignExtend(b, ty) ELSE b
  IN  IF ty = "bool" THEN None
      ELSE Some(Const("bool", Bit(CASE op = "eq" -> a = b [] op = "ne" -> a # b [] op = "lt" -> l < r
                                    [] op = "le" -> l <= r [] op = "gt" -> l > r [] op = "ge" -> l >= r)))

(* try_fold_binary: arithmetic on the bits, a shift by the width or more is *)
(* zero or the sign.                                                        *)
FoldArithmetic(op, ty, a, b) ==
  LET m == Modulus(ty)  w == Width(ty)
      n == IF ty = "i" THEN SignExtend(a, ty) ELSE a
      d == IF ty = "i" THEN SignExtend(b, ty) ELSE b
      value == CASE op = "add" -> (a + b) % m [] op = "sub" -> (a - b) % m [] op = "mul" -> (a * b) % m
                 [] op = "div" -> Quotient(n, d) % m
                 [] op = "rem" -> (n - d * Quotient(n, d)) % m
                 [] op = "band" -> a & b [] op = "bor" -> a | b [] op = "bxor" -> a ^^ b
                 [] op = "shl" -> IF b >= w THEN 0 ELSE (a * 2^b) % m
                 [] op = "shru" -> IF b >= w THEN 0 ELSE a \div 2^b
                 [] op = "shrs" -> IF b >= w THEN (IF SignExtend(a, ty) < 0 THEN m - 1 ELSE 0)
                                   ELSE (SignExtend(a, ty) \div 2^b) % m
      unfit == op \in {"div", "rem"} /\ (b = 0 \/ (ty = "i" /\ d = -1 /\ 2 * n = 0 - m))
  IN  IF unfit THEN None ELSE Some(Const(ty, value))

FoldBinary(op, ty, l, r) ==
  IF l.k # "const" \/ r.k # "const" \/ l.ty # r.ty THEN None
  ELSE CASE op \in Comparisons -> FoldCompare(op, l.ty, l.bits, r.bits)
         [] ty = "bool" -> Some(Const(ty, Computes(op, ty, l.bits % 2, r.bits % 2)))
         [] OTHER -> FoldArithmetic(op, ty, l.bits, r.bits)

(* try_simplify_binary: neutral and absorbing operands.                     *)
Simplify(op, ty, l, r) ==
  LET is(e, n) == e.k = "const" /\ e.ty = ty /\ e.bits = n
  IN  CASE op \in {"add", "bor", "bxor", "sub"} /\ is(r, 0) -> Some(l)
        [] op \in {"add", "bor", "bxor"} /\ is(l, 0) -> Some(r)
        [] op = "mul" /\ is(r, 1) -> Some(l)
        [] op = "mul" /\ is(l, 1) -> Some(r)
        [] op \in {"mul", "band"} /\ (is(l, 0) \/ is(r, 0)) -> Some(Const(ty, 0))
        [] OTHER -> None

FoldUnary(op, ty, e) ==
  CASE e.k # "const" \/ e.ty # ty -> None
    [] op = "not" -> IF ty = "bool" THEN Some(Const(ty, 1 - (e.bits % 2))) ELSE None
    [] ty = "bool" -> None
    [] op = "neg" -> Some(Const(ty, (0 - SignExtend(e.bits, ty)) % Modulus(ty)))
    [] op = "bnot" -> Some(Const(ty, (-1 - e.bits) % Modulus(ty)))

-----------------------------------------------------------------------------
(* try_hoist_bounds_checks_for_range.  The new loop gets a direction of its *)
(* own.                                                                     *)
HoistFor(s) ==
  LET step == s.kids[3]
      dir == EffectiveDirection(s.ty, step, s.dir)
      found == SelectSeq(BoundedAll(s.body, s.name, s.ty), LAMBDA f : ~Mentions(f.limit, s.name, s.ty))
      checks == HoistedChecks(found, s.ty, s.kids[1], s.kids[2], dir, s.incl)
      given == IF s.dir = "none" /\ dir = "desc" THEN "desc" ELSE s.dir
  IN  IF s.k # "for" THEN None
      ELSE IF dir = "none" \/ ~UnitStep(s.ty, step) \/ LoopControl(s.body) \/ found = <<>> THEN None
      ELSE Some([enter |-> Enter(s.kids[1], s.kids[2], dir, s.incl), checks |-> checks,
                 loop |-> [s EXCEPT !.body = [i \in DOMAIN @ |-> Strip(@[i], s.name, s.ty)], !.dir = given]])

(* try_hoist_bounds_checks_loopwhile, for a loop counted by variable p.     *)
HoistCounted(s, p) ==
  LET v == s.vars[p]
      cmp == LoopCompare(Cond(s), v.name, v.ty)[1]
      step == StepUpdate(Nexts(s)[p], v.name, v.ty)[1].step
      found == SelectSeq(BoundedAll(s.body, v.name, v.ty)
                           \o BoundedAll(Nexts(PrimaryFirst(s, p)), v.name, v.ty),
                         LAMBDA f : ~Mentions(f.limit, v.name, v.ty))
      checks == HoistedChecks(found, v.ty, Inits(s)[p], cmp.finish, cmp.dir, cmp.incl)
  IN  IF ~UnitStep(v.ty, step) \/ found = <<>> THEN None
      ELSE Some(<<Guarded(Enter(Inits(s)[p], cmp.finish, cmp.dir, cmp.incl), checks), Strip(s, v.name, v.ty)>>)

HoistLoopWhile(s) ==
  IF LoopControl(s.body) \/ Primary(s) = {} THEN None
  ELSE HoistCounted(s, CHOOSE i \in Primary(s) : TRUE)

(* The variables of a loop-while, mutable now.                              *)
Declared(s) ==
  [i \in DOMAIN s.vars |-> [Node EXCEPT !.k = "var", !.name = s.vars[i].name, !.kids = <<Inits(s)[i]>>]]

(* Their next values, computed and assigned one after the other.            *)
Updates(s) ==
  LET temp(i) == "next" \o ToString(i)
      update(i) == <<[Node EXCEPT !.k = "let", !.name = temp(i), !.kids = <<Nexts(s)[i]>>],
                     [Node EXCEPT !.k = "set", !.name = s.vars[i].name, !.kids = <<Local(temp(i), s.vars[i].ty)>>]>>
  IN  FlattenSeq([k \in 1..(Len(s.vars) - 1) |-> update(k + 1)])

(* try_rewrite_loopwhile_to_for_range, with the primary variable in front:  *)
(* it becomes that of the loop.                                             *)
RewriteCounted(o) ==
  LET v == o.vars[1]
      cmp == LoopCompare(Cond(o), v.name, v.ty)[1]
      up == StepUpdate(Nexts(o)[1], v.name, v.ty)[1]
  IN  IF \E i \in DOMAIN o.vars : Mentions(cmp.finish, o.vars[i].name, o.vars[i].ty) THEN None
      ELSE IF \E i \in DOMAIN o.vars, j \in DOMAIN o.body : AssignsName(o.body[j], o.vars[i].name) THEN None
      ELSE Some(Declared(o) \o
             <<[Node EXCEPT !.k = "for", !.name = v.name, !.ty = v.ty, !.scoped = FALSE, !.incl = cmp.incl,
                  !.dir = IF cmp.dir = "desc" THEN "desc" ELSE "none",
                  !.kids = <<Local(v.name, v.ty), cmp.finish, up.step>>,
                  !.body = o.body \o Updates(o)]>>)

RewriteLoopWhile(s) ==
  IF LoopControl(s.body) \/ Primary(s) = {} THEN None
  ELSE RewriteCounted(PrimaryFirst(s, CHOOSE i \in Primary(s) : TRUE))

RECURSIVE OptimizeExpr(_), OptimizeStmt(_), OptimizeStmts(_)

Optimized(n) ==
  [n EXCEPT !.kids = [i \in DOMAIN @ |-> OptimizeExpr(@[i])],
            !.body = OptimizeStmts(@), !.els = OptimizeStmts(@)]

(* An expression with its parts optimized: folded, or simplified.           *)
FoldExpr(e) ==
  LET folded == CASE e.k \in UnaryOps -> FoldUnary(e.k, e.ty, e.kids[1])
                  [] e.k \in BinaryOps -> FoldBinary(e.k, e.ty, e.kids[1], e.kids[2])
                  [] e.k = "index" /\ Len(e.kids) = 3 /\ ConstSafe(e.kids[2], e.kids[3]) ->
                       Some([e EXCEPT !.kids = SubSeq(@, 1, 2)])
                  [] OTHER -> None
      simple == IF e.k \in BinaryOps THEN Simplify(e.k, e.ty, e.kids[1], e.kids[2]) ELSE None
  IN  IF folded # None THEN folded[1] ELSE IF simple # None THEN simple[1] ELSE e

OptimizeExpr(e) == FoldExpr(Optimized(e))

(* A statement with its parts optimized becomes several, one or none.       *)
RewriteStmt(s) ==
  LET hoisted == HoistLoopWhile(s)
      rewritten == RewriteLoopWhile(s)
      lifted == HoistFor(s)
  IN  CASE s.k = "loopwhile" -> IF hoisted # None THEN OptimizeStmts(hoisted[1])
                                ELSE IF rewritten # None THEN OptimizeStmts(rewritten[1]) ELSE <<s>>
        [] s.k = "for" /\ lifted # None ->
             <<Guarded(lifted[1].enter, OptimizeStmts(lifted[1].checks)), lifted[1].loop>>
        [] s.k = "check" /\ ConstSafe(s.kids[1], s.kids[2]) -> <<>>
        [] OTHER -> <<s>>

OptimizeStmt(s) == RewriteStmt(Optimized(s))

(* A bounds check equal to the one before it is dropped.                    *)
DropRepeats(all) ==
  LET fresh(i) == i = 1 \/ all[i].k # "check" \/ all[i] # all[i - 1]
  IN  [k \in 1..Cardinality({i \in DOMAIN all : fresh(i)}) |->
         all[CHOOSE i \in DOMAIN all : fresh(i) /\ Cardinality({j \in 1..i : fresh(j)}) = k]]

OptimizeStmts(ss) == DropRepeats(FlattenSeq([i \in DOMAIN ss |-> OptimizeStmt(ss[i])]))

(* optimize_function_spec.                                                  *)
OptimizeFunction(f) == [body |-> OptimizeStmts(f.body), result |-> OptimizeExpr(f.result)]

-----------------------------------------------------------------------------
VARIABLES
  given,       \* the function as it was handed over
  input,       \* the arguments of its calls
  code,        \* what is compiled: the function as given, then optimized
  plain,       \* what a call of the function as given shows
  fast         \* what a call of its optimized form shows

vars == <<given, input, code, plain, fast>>

Answer(f) == Outcome(f.body, f.result, input, Memory)

Init ==
  /\ given \in Functions /\ input \in Inputs
  /\ code = Some(given) /\ plain = None /\ fast = None

(* compile_function_without_cache, and a call.                              *)
CallPlain ==
  /\ plain = None
  /\ plain' = Some(Answer(code[1]))
  /\ UNCHANGED <<given, input, code, fast>>

(* compile_function compiles the optimized form.                            *)
CompileOptimized ==
  /\ plain # None /\ Len(code) = 1
  /\ code' = <<given, OptimizeFunction(given)>>
  /\ UNCHANGED <<given, input, plain, fast>>

CallOptimized ==
  /\ fast = None /\ Len(code) = 2
  /\ fast' = Some(Answer(code[2]))
  /\ UNCHANGED <<given, input, code, plain>>

Next == CallPlain \/ CompileOptimized \/ CallOptimized
OptSpec == Init /\ [][Next]_vars

-----------------------------------------------------------------------------
Called == plain # None /\ fast # None
Finishes(answer) == answer[1].st = "ok"

(* A call that finishes in the function as given finishes in its optimized  *)
(* form, too, with the same result and the same loads, stores and calls in  *)
(* the same order: nothing is computed twice or not at all, and no bounds   *)
(* check fails that would not have been made.                               *)
SameMeaning == Called /\ Finishes(plain) => fast = plain

(* A call that traps in the function as given traps in its optimized form:  *)
(* a moved check still covers every index, and no division is folded away.  *)
TrapsKept == Called /\ plain[1].st = "trap" => fast[1].st = "trap"

(* Neither form touches a cell outside the array it indexes: where a limit  *)
(* was dropped, the index had been checked.                                 *)
InsideArray ==
  \A a \in {plain, fast} : a # None =>
    \A i \in DOMAIN a[1].log : a[1].log[i][1] # "call" => a[1].log[i][2] \in Elements
=============================================================================
