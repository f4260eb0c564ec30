-------------------------------- MODULE MoonIR --------------------------------
(***************************************************************************)
(* The function bodies of the table-driven Moonlift runtime and what the    *)
(* code that cranelift_jit.rs generates for them does.  A node of a body is *)
(* one record, whatever its kind: the Rust enums Expr and Stmt list the     *)
(* kinds, and the optimizer's walks over a body are walks over kids, body   *)
(* and els.  Three integer types stand for the twelve: "i" and "u" for the  *)
(* signed and unsigned ones narrower than an address, "w" for u64, index    *)
(* and ptr; floats are left out.                                            *)
(***************************************************************************)
EXTENDS Integers, Sequences, FiniteSets, SequencesExt, Bitwise, TLC

CONSTANTS
  Narrow,      \* bits of "i" and "u"
  Word,        \* bits of "w", of an address and of the bits of a constant
  Fuel         \* iterations after which a loop counts as endless

ASSUME WidthAssumption == Narrow \in 2..8 /\ Word \in Narrow..8 /\ Fuel \in Nat

Width(ty) == CASE ty = "w" -> Word [] ty = "bool" -> 1 [] OTHER -> Narrow
Modulus(ty) == 2^Width(ty)

(* sign_extend of the low bits of a type.                                   *)
SignExtend(bits, ty) ==
  LET b == bits % Modulus(ty) IN IF 2 * b >= Modulus(ty) THEN b - Modulus(ty) ELSE b

(* unpack_scalar: the bits of an argument or of memory a type keeps.        *)
Unpacked(ty, bits) == bits % Modulus(ty)

(* The number a value of a type stands for.                                 *)
Number(ty, v) == IF ty = "i" THEN SignExtend(v, ty) ELSE v

(* coerce_value between integer types.                                      *)
Coerce(from, to, v) == Number(from, v) % Modulus(to)

-----------------------------------------------------------------------------
Node == [k |-> "", ty |-> "w", name |-> "", bits |-> 0, kids |-> <<>>, body |-> <<>>,
         els |-> <<>>, vars |-> <<>>, dir |-> "none", incl |-> FALSE, scoped |-> TRUE]

Local(name, ty) == [Node EXCEPT !.k = "local", !.name = name, !.ty = ty]
Const(ty, bits) == [Node EXCEPT !.k = "const", !.ty = ty, !.bits = bits]
Binary(op, ty, lhs, rhs) == [Node EXCEPT !.k = op, !.ty = ty, !.kids = <<lhs, rhs>>]
BoundsCheck(index, limit) == [Node EXCEPT !.k = "check", !.kids = <<index, limit>>]

Comparisons == {"eq", "ne", "lt", "le", "gt", "ge"}
Arithmetic == {"add", "sub", "mul", "div", "rem", "band", "bor", "bxor", "shl", "shru", "shrs"}
BinaryOps == Comparisons \cup Arithmetic \cup {"and", "or"}
UnaryOps == {"neg", "not", "bnot"}

(* The parts of a loop-while: initial values, condition, next values.       *)
Inits(s) == SubSeq(s.kids, 1, Len(s.vars))
Cond(s) == s.kids[Len(s.vars) + 1]
Nexts(s) == SubSeq(s.kids, Len(s.vars) + 2, Len(s.kids))

ConstDirection(ty, e) ==
  IF e.k # "const" \/ e.ty # ty \/ ty = "bool" THEN "none"
  ELSE LET n == IF ty = "i" THEN SignExtend(e.bits, ty) ELSE e.bits
       IN  CASE n > 0 -> "asc" [] n < 0 -> "desc" [] OTHER -> "none"

EffectiveDirection(ty, step, dir) == IF dir # "none" THEN dir ELSE ConstDirection(ty, step)

RECURSIVE Has(_, _)
(* A kind of statement among statements, not looking into expressions.      *)
Has(ss, kind) ==
  \E i \in DOMAIN ss : ss[i].k = kind \/ Has(ss[i].body, kind) \/ Has(ss[i].els, kind)

LoopControl(ss) == Has(ss, "break") \/ Has(ss, "continue")

-----------------------------------------------------------------------------
Compares(op, ty, a, b) ==
  LET l == Number(ty, a)  r == Number(ty, b)
  IN  CASE op = "eq" -> l = r [] op = "ne" -> l # r [] op = "lt" -> l < r
        [] op = "le" -> l <= r [] op = "gt" -> l > r [] op = "ge" -> l >= r

Bit(b) == IF b THEN 1 ELSE 0
Magnitude(n) == IF n < 0 THEN -n ELSE n
Quotient(a, b) ==
  (IF (a < 0) = (b < 0) THEN 1 ELSE -1) * (Magnitude(a) \div Magnitude(b))

(* Division traps on zero, and signed division on the one quotient that     *)
(* does not fit.                                                            *)
DivisionTraps(op, ty, a, b) ==
  \/ op \in {"div", "rem"} /\ b = 0
  \/ op = "div" /\ ty = "i" /\ 2 * a = Modulus(ty) /\ b = Modulus(ty) - 1

(* lower_binary and lower_compare: machine arithmetic.                      *)
Computes(op, ty, a, b) ==
  LET m == Modulus(ty)  n == Number(ty, a)  d == Number(ty, b)  by == b % Width(ty)
  IN  CASE op = "add" -> (a + b) % m [] op = "sub" -> (a - b) % m [] op = "mul" -> (a * b) % m
        [] op = "div" -> Quotient(n, d) % m
        [] op = "rem" -> (n - d * Quotient(n, d)) % m
        [] op = "band" -> a & b [] op = "bor" -> a | b [] op = "bxor" -> a ^^ b
        [] op = "shl" -> (a * 2^by) % m
        [] op = "shru" -> a \div 2^by
        [] op = "shrs" -> (SignExtend(a, ty) \div 2^by) % m
        [] op = "and" -> a * b
        [] op = "or" -> a + b - a * b

-----------------------------------------------------------------------------
(* A run of a body: names bound to slots of the store, the memory, the      *)
(* effects so far, and how it stands: "ok", "trap", "refused" (the lowering *)
(* has no code for it), "hang", or on its way out of a loop.  v and vs hold *)
(* the values of the last expressions.                                      *)
Start(args, mem) ==
  [args |-> args, names |-> <<>>, store |-> <<>>, mem |-> mem, log |-> <<>>,
   st |-> "ok", v |-> 0, vs |-> <<>>]

Ends(c, st) == [c EXCEPT !.st = st]
Yields(c, v) == IF c.st = "ok" THEN [c EXCEPT !.v = v] ELSE c
Logged(c, what, at) == [c EXCEPT !.log = Append(@, <<what, at>>)]
Known(c, name) == name \in DOMAIN c.names
Mutable(c, name) == Known(c, name) /\ c.names[name].mut
Read(c, name) == c.store[c.names[name].at]
Write(c, name, v) == [c EXCEPT !.store[c.names[name].at] = v]
Bind(c, name, v, mut) ==
  [c EXCEPT !.store = Append(@, v),
            !.names = (name :> [at |-> Len(c.store) + 1, mut |-> mut]) @@ @]
Leave(c, inner) ==
  [inner EXCEPT !.names = c.names, !.store = SubSeq(@, 1, Len(c.store))]

RECURSIVE Eval(_, _), Address(_, _), Checked(_, _, _), Exec(_, _), Iterate(_, _, _),
          ForLoop(_, _, _, _, _), EvalMore(_, _, _), ExecAll(_, _), BindAll(_, _, _)

(* Expressions one after the other; vs gets their values.                   *)
EvalMore(es, c, vs) ==
  IF es = <<>> THEN [c EXCEPT !.vs = vs]
  ELSE LET r == Eval(Head(es), c) IN EvalMore(Tail(es), r, Append(vs, r.v))

EvalAll(es, c) == EvalMore(es, c, <<>>)

ExecAll(ss, c) ==
  IF ss = <<>> \/ c.st # "ok" THEN c ELSE ExecAll(Tail(ss), Exec(Head(ss), c))

(* lower_bounds_check: index and limit compared as unsigned numbers of the  *)
(* wider of their types.                                                    *)
Checked(index, limit, c) ==
  LET r == EvalAll(<<index, limit>>, c)
      wide == IF "w" \in {index.ty, limit.ty} THEN "w" ELSE "u"
  IN  IF r.st # "ok" THEN r
      ELSE IF Coerce(index.ty, wide, r.vs[1]) < Coerce(limit.ty, wide, r.vs[2]) THEN r
      ELSE Ends(r, "trap")

(* The part of an index that is computed, and the constant displacement.    *)
Displaced(index) ==
  LET plain == [at |-> index, by |-> 0]
      shift(at, c, sign) == [at |-> at, by |-> sign * SignExtend(c.bits, "w")]
      constant(e) == e.k = "const" /\ e.ty = index.ty
  IN  CASE index.k = "add" /\ index.kids[2].k = "const" ->
             IF constant(index.kids[2]) THEN shift(index.kids[1], index.kids[2], 1) ELSE plain
        [] index.k = "add" /\ index.kids[1].k = "const" ->
             IF constant(index.kids[1]) THEN shift(index.kids[2], index.kids[1], 1) ELSE plain
        [] index.k = "sub" /\ constant(index.kids[2]) -> shift(index.kids[1], index.kids[2], -1)
        [] OTHER -> plain

(* lower_index_addr_parts: base, index and perhaps limit; elem_size is bits.*)
Address(e, c) ==
  LET checked == IF Len(e.kids) = 3 THEN Checked(e.kids[2], e.kids[3], c) ELSE c
      d == Displaced(e.kids[2])
      r == EvalAll(<<e.kids[1], d.at>>, checked)
  IN  IF r.st # "ok" THEN r
      ELSE Yields(r, (r.vs[1] + (Number(d.at.ty, r.vs[2]) + d.by) * e.bits) % 2^Word)

EvalUnary(e, r) ==
  Yields(r, CASE e.k = "neg" -> (-r.v) % Modulus(e.ty)
              [] e.k = "not" -> 1 - r.v
              [] e.k = "bnot" -> (-1 - r.v) % Modulus(e.ty)
              [] e.k = "cast" -> Coerce(e.kids[1].ty, e.ty, r.v))

EvalBinary(e, r) ==
  LET a == r.vs[1]  b == r.vs[2]  lt == e.kids[1].ty  rt == e.kids[2].ty
      x == IF e.ty = "bool" THEN a ELSE Coerce(lt, e.ty, a)
      y == IF e.ty = "bool" THEN b ELSE Coerce(rt, e.ty, b)
  IN  IF r.st # "ok" THEN r
      ELSE IF e.k \in Comparisons THEN Yields(r, Bit(Compares(e.k, lt, a, b)))
      ELSE IF DivisionTraps(e.k, e.ty, x, y) THEN Ends(r, "trap")
      ELSE Yields(r, Computes(e.k, e.ty, x, y))

(* lower_memory_addr: a constant that is added to an address becomes the    *)
(* displacement of the access, which is added just the same.                *)
MemoryAddr(e, c) == Eval(e, c)

(* lower_call_value: the arguments from left to right, then the call, of a  *)
(* function that answers with its first argument.                           *)
CallValue(e, c) ==
  LET r == EvalAll(e.kids, c)
  IN  IF r.st = "ok" THEN Yields(Logged(r, "call", r.vs[1]), Unpacked(e.ty, r.vs[1])) ELSE r

(* lower_expr: operands from left to right; and, or and select evaluate all *)
(* of theirs, if only the arm it takes.                                     *)
Eval(e, c) ==
  IF c.st # "ok" THEN c
  ELSE CASE e.k = "arg" -> Yields(c, Unpacked(e.ty, c.args[e.bits]))
    [] e.k = "local" -> IF Known(c, e.name) THEN Yields(c, Read(c, e.name)) ELSE Ends(c, "refused")
    [] e.k = "const" -> Yields(c, e.bits % Modulus(e.ty))
    [] e.k \in UnaryOps \cup {"cast"} -> EvalUnary(e, Eval(e.kids[1], c))
    [] e.k \in BinaryOps -> EvalBinary(e, EvalAll(e.kids, c))
    [] e.k = "letin" ->
         LET i == Eval(e.kids[1], c) IN Leave(c, Eval(e.kids[2], Bind(i, e.name, i.v, FALSE)))
    [] e.k = "block" -> Leave(c, Eval(e.kids[1], ExecAll(e.body, c)))
    [] e.k = "ifelse" ->
         LET t == Eval(e.kids[1], c) IN Leave(c, Eval(e.kids[IF t.v = 1 THEN 2 ELSE 3], t))
    [] e.k = "select" ->
         LET r == EvalAll(e.kids, c)
         IN  IF r.st = "ok" THEN Yields(r, r.vs[IF r.vs[1] = 1 THEN 2 ELSE 3]) ELSE r
    [] e.k = "load" ->
         LET r == MemoryAddr(e.kids[1], c)
         IN  IF r.st = "ok" THEN Yields(Logged(r, "load", r.v), Unpacked(e.ty, r.mem[r.v])) ELSE r
    [] e.k = "index" -> Address(e, c)
    [] e.k = "call" -> CallValue(e, c)

(* The condition of a for-range: with a direction known from the step or    *)
(* given, otherwise by the sign of the step.                                *)
InRange(s, cur, fin, step) ==
  LET dir == EffectiveDirection(s.ty, s.kids[3], s.dir)
      down == IF dir = "none" THEN Number(s.ty, step) < 0 ELSE dir = "desc"
  IN  Compares(IF down THEN IF s.incl THEN "ge" ELSE "gt" ELSE IF s.incl THEN "le" ELSE "lt",
               s.ty, cur, fin)

(* The body of a for-range, the step, and again while it is in range.       *)
ForLoop(s, c, fin, step, fuel) ==
  IF ~InRange(s, Read(c, s.name), fin, step) THEN c
  ELSE IF fuel = 0 THEN Ends(c, "hang")
  ELSE LET r == Leave(c, ExecAll(s.body, c))
           cur == Read(r, s.name)
           next == Computes(IF s.dir = "desc" THEN "sub" ELSE "add", s.ty, cur, step)
       IN  CASE r.st = "break" -> Ends(r, "ok")
             [] r.st \in {"ok", "continue"} ->
                  ForLoop(s, Write(Ends(r, "ok"), s.name, next), fin, step, fuel - 1)
             [] OTHER -> r

(* Start, finish and step are evaluated once.  An unscoped loop runs on a   *)
(* variable that is there already and leaves its last value in it.          *)
ForRange(s, c) ==
  LET r == EvalAll(s.kids, c)
  IN  IF r.st # "ok" THEN r
      ELSE IF s.scoped
           THEN Leave(c, ForLoop(s, Bind(r, s.name, r.vs[1], TRUE), r.vs[2], r.vs[3], Fuel))
      ELSE IF Mutable(r, s.name)
           THEN ForLoop(s, Write(r, s.name, r.vs[1]), r.vs[2], r.vs[3], Fuel)
      ELSE Ends(r, "refused")

BindAll(c, vars, values) ==
  IF vars = <<>> THEN c
  ELSE BindAll(Bind(c, Head(vars).name, Head(values), FALSE), Tail(vars), Tail(values))

(* while and loop-while.  vs holds the state of a loop-while: all its next  *)
(* values are computed from the old state.                                  *)
Iterate(s, c, fuel) ==
  LET at == IF s.k = "while" THEN c ELSE BindAll(c, s.vars, c.vs)
      test == Eval(IF s.k = "while" THEN s.kids[1] ELSE Cond(s), at)
      done == ExecAll(s.body, test)
      r == IF s.k = "while" THEN done ELSE EvalAll(Nexts(s), done)
      again == [Leave(c, Ends(r, "ok")) EXCEPT !.vs = r.vs]
  IN  IF test.st # "ok" THEN test
      ELSE IF test.v = 0
           THEN IF s.k = "while" THEN Leave(c, test) ELSE BindAll(Leave(c, test), s.vars, c.vs)
      ELSE IF fuel = 0 THEN Ends(c, "hang")
      ELSE CASE r.st = "ok" \/ (r.st = "continue" /\ s.k = "while") -> Iterate(s, again, fuel - 1)
             [] r.st = "break" /\ s.k = "while" -> Leave(c, Ends(r, "ok"))
             [] OTHER -> r

(* lower_stmt.                                                              *)
Exec(s, c) ==
  IF c.st # "ok" THEN c
  ELSE CASE s.k \in {"let", "var"} ->
              LET r == Eval(s.kids[1], c)
              IN  IF r.st = "ok" THEN Bind(r, s.name, r.v, s.k = "var") ELSE r
    [] s.k = "set" ->
         LET r == Eval(s.kids[1], c)
         IN  IF ~Mutable(c, s.name) THEN Ends(c, "refused")
             ELSE IF r.st = "ok" THEN Write(r, s.name, r.v) ELSE r
    [] s.k = "if" ->
         LET t == Eval(s.kids[1], c) IN Leave(c, ExecAll(IF t.v = 1 THEN s.body ELSE s.els, t))
    [] s.k = "while" -> Iterate(s, c, Fuel)
    [] s.k = "loopwhile" ->
         IF LoopControl(s.body) THEN Ends(c, "refused")
         ELSE LET i == EvalAll(Inits(s), c) IN IF i.st = "ok" THEN Iterate(s, i, Fuel) ELSE i
    [] s.k = "for" -> ForRange(s, c)
    [] s.k = "store" ->
         LET r == EvalAll(s.kids, c)
         IN  IF r.st = "ok" THEN [Logged(r, "store", r.vs[1]) EXCEPT !.mem[r.vs[1]] = r.vs[2]] ELSE r
    [] s.k = "check" -> Checked(s.kids[1], s.kids[2], c)
    [] s.k = "assert" -> LET r == Eval(s.kids[1], c) IN IF r.st = "ok" /\ r.v = 0 THEN Ends(r, "trap") ELSE r
    [] s.k = "do" -> EvalAll(s.kids, c)
    [] s.k \in {"break", "continue"} -> Ends(c, s.k)

(* What a call of a function shows: how it ends, its result, its effects.   *)
Outcome(body, result, args, mem) ==
  LET r == Eval([Node EXCEPT !.k = "block", !.body = body, !.kids = <<result>>], Start(args, mem))
  IN  [st |-> r.st, v |-> IF r.st = "ok" THEN r.v ELSE 0, log |-> r.log]
=============================================================================
