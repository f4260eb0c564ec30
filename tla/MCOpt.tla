-------------------------------- MODULE MCOpt --------------------------------
(***************************************************************************)
(* Functions for MoonOpt: counted loops of every direction and type that    *)
(* index an array, phi loops, nested loops, and expressions over constants  *)
(* and arguments.                                                           *)
(***************************************************************************)
EXTENDS MoonOpt

Arg(i, ty) == [Node EXCEPT !.k = "arg", !.bits = i, !.ty = ty]
Unary(op, ty, e) == [Node EXCEPT !.k = op, !.ty = ty, !.kids = <<e>>]
Load(addr) == [Node EXCEPT !.k = "load", !.ty = "u", !.kids = <<addr>>]
IndexOf(index, limit) == [Node EXCEPT !.k = "index", !.bits = 1, !.kids = <<Const("w", 0), index, limit>>]
At(index, limit) == Load(IndexOf(index, limit))
Let(name, e) == [Node EXCEPT !.k = "let", !.name = name, !.kids = <<e>>]
Var(name, e) == [Node EXCEPT !.k = "var", !.name = name, !.kids = <<e>>]
Set(name, e) == [Node EXCEPT !.k = "set", !.name = name, !.kids = <<e>>]
Call(e) == [Node EXCEPT !.k = "call", !.ty = e.ty, !.kids = <<e>>]
Do(e) == [Node EXCEPT !.k = "do", !.kids = <<e>>]
Store(addr, e) == [Node EXCEPT !.k = "store", !.kids = <<addr, e>>]
Claim(e) == [Node EXCEPT !.k = "assert", !.kids = <<e>>]
If(cond, then) == [Node EXCEPT !.k = "if", !.kids = <<cond>>, !.body = then]
While(cond, body) == [Node EXCEPT !.k = "while", !.kids = <<cond>>, !.body = body]
Break == [Node EXCEPT !.k = "break"]
Block(ss, e) == [Node EXCEPT !.k = "block", !.ty = e.ty, !.body = ss, !.kids = <<e>>]
Three(k, cond, a, b) == [Node EXCEPT !.k = k, !.ty = a.ty, !.kids = <<cond, a, b>>]
For(name, ty, start, finish, step, dir, incl, body) ==
  [Node EXCEPT !.k = "for", !.name = name, !.ty = ty, !.kids = <<start, finish, step>>,
               !.dir = dir, !.incl = incl, !.body = body]
Loop(vs, inits, cond, nexts, body) ==
  [Node EXCEPT !.k = "loopwhile", !.vars = vs, !.kids = inits \o <<cond>> \o nexts, !.body = body]

Size == 5
Array == 0..(Size - 1)
Contents == [a \in 0..(2^Word - 1) |-> (3 * a + 1) % 8]
Some5 == {0, 1, 3, 4, 6, 15}
Pairs == {<<a, b>> : a, b \in Some5}

Plus(ty, e, n) ==
  CASE n = 0 -> e [] n > 0 -> Binary("add", ty, e, Const(ty, n))
    [] n < 0 -> Binary("sub", ty, e, Const(ty, 0 - n))
Limits == {Const("w", Size), Local("n", "w")}
I(ty) == Local("i", ty)
Acc == Local("acc", "u")
Add(e) == Set("acc", Binary("add", "u", Acc, e))
Sum(ss) == [body |-> <<Let("n", Const("w", 4)), Var("acc", Const("u", 0))>> \o ss, result |-> Acc]

-----------------------------------------------------------------------------
(* for loops up by one, or down by one in a given direction.  A descending  *)
(* unsigned loop that includes its bound has one above 0; an unsigned       *)
(* narrow index has no offset.                                              *)
ForLoops ==
  {Sum(<<For("i", ty, Arg(1, ty), fin, Const(ty, 1), way[1], way[2],
             <<Add(At(Plus(ty, I(ty), off), lim)), Do(Call(I(ty)))>>)>>) :
     ty \in {"w", "i", "u"}, fin \in {Arg(2, "w"), Arg(2, "i"), Arg(2, "u"), Const("w", 3), Const("i", 3)},
     way \in {"none", "asc", "desc"} \X BOOLEAN, off \in {-1, 0, 1}, lim \in Limits}

WellTyped(f) ==
  LET s == f.body[3]
  IN  /\ s.kids[2].ty = s.ty
      /\ s.ty = "u" => ~s.incl /\ Bounded(s.body[1], "i", "u")[1].off = 0
      /\ s.incl /\ s.dir = "desc" => s.ty = "i" \/ s.kids[2].k = "const"

(* Steps the optimizer leaves alone, and bodies it must not change.         *)
OtherLoops ==
  {Sum(<<For("i", "i", Arg(1, "i"), Arg(2, "i"), step, "none", TRUE, <<Add(At(I("i"), Const("w", Size)))>>)>>) :
     step \in {Const("i", 2), Const("i", 14), Arg(2, "i")}}
  \cup {Sum(<<For("i", "i", Arg(1, "i"), Arg(2, "i"), Const("i", 15), "none", TRUE, <<Do(Call(I("i")))>>)>>)}
  \cup {Sum(<<For("i", "w", Arg(1, "w"), Const("w", 9), Const("w", 1), "none", FALSE,
              <<If(Binary("ge", "bool", I("w"), Arg(2, "w")), <<Break>>), Add(At(I("w"), lim))>>)>>) : lim \in Limits}
  \cup {Sum(<<For("i", "w", Const("w", 0), Arg(1, "w"), Const("w", 1), "none", FALSE,
              <<For("j", "w", I("w"), Arg(2, "w"), Const("w", 1), "none", FALSE,
                    <<Add(At(Local("j", "w"), lim)), Do(Call(At(Plus("w", I("w"), -1), Local("j", "w"))))>>)>>)>>) : lim \in Limits}

-----------------------------------------------------------------------------
V(name, ty) == [name |-> name, ty |-> ty]

(* Phi loops over an array, the loop variable first or last.  A signed one   *)
(* does not subtract -1 as long as it is above its bound.                    *)
Ways ==
  {<<"lt", "add", "gt", 1>>, <<"gt", "sub", "lt", 1>>, <<"lt", "sub", "gt", 1>>, <<"gt", "add", "lt", -1>>, <<"lt", "sub", "gt", -1>>}
PhiLoops ==
  {LET i == V("i", ty)  acc == V("acc", "u")
       next == Binary(dir[2], ty, I(ty), Const(ty, dir[4] % Modulus(ty)))
       more == Binary("add", "u", Acc, At(Plus(ty, I(ty), off), lim))
       cond == IF flip THEN Binary(dir[3], "bool", Arg(2, ty), I(ty)) ELSE Binary(dir[1], "bool", I(ty), Arg(2, ty))
       seen == <<Let("x", Call(I(ty)))>>
   IN  [body |-> <<Let("n", Const("w", 4)),
                   IF first THEN Loop(<<i, acc>>, <<Arg(1, ty), Const("u", 0)>>, cond, <<next, more>>, seen)
                            ELSE Loop(<<acc, i>>, <<Const("u", 0), Arg(1, ty)>>, cond, <<more, next>>, seen)>>,
        result |-> Binary("add", "u", Acc, Unary("cast", "u", I(ty)))] :
     ty \in {"w", "i"}, dir \in Ways,
     off \in {-1, 0, 1}, lim \in Limits, first \in BOOLEAN, flip \in BOOLEAN}

(* Phi loops with more state, without an array or without a loop variable.  *)
StateLoops ==
  LET w(n) == Local(n, "w")
      up(n) == Binary("add", "w", w(n), Const("w", 1))
      cond(op, e) == Binary(op, "bool", w("i"), e)
      loop(c, p, a) == [body |-> <<Loop(<<V("i", "w"), V("p", "w"), V("a", "w")>>,
                                       <<Const("w", 0), Arg(1, "w"), Const("w", 1)>>, c, <<up("i"), p, a>>, <<>>)>>,
                        result |-> Binary("add", "w", Binary("mul", "w", w("p"), Const("w", 4)), w("a"))]
  IN  {loop(cond("lt", Arg(2, "w")), p, a) : p \in {w("a"), w("i"), Binary("add", "w", w("p"), w("a"))},
                                             a \in {w("a"), up("a"), Binary("add", "w", w("a"), w("i"))}}
      \cup {loop(c, up("p"), up("a")) : c \in {cond("lt", w("a")), cond("le", w("p")), cond("lt", Binary("sub", "w", Arg(2, "w"), w("i"))), cond("ne", Arg(1, "w"))}}

(* Initial values that read what the loop variables hide: their own name or  *)
(* that of a later variable, the loop variable being the first.              *)
HidingLoops ==
  LET w(n) == Local(n, "w")
      up(n) == Binary("add", "w", w(n), Const("w", 1))
  IN  {[body |-> <<Let("i", Arg(1, "w")), Let("p", Const("w", 2)), Let("a", Const("w", 3)),
                   Loop(<<V("i", "w"), V("p", "w"), V("a", "w")>>, <<i, p, a>>,
                        Binary("lt", "bool", w("i"), Arg(2, "w")), <<up("i"), up("p"), w("a")>>, <<Do(Call(w("p")))>>)>>,
        result |-> Binary("add", "w", Binary("mul", "w", w("p"), Const("w", 4)), w("a"))] :
         i \in {w("i"), w("p"), up("a")}, p \in {w("p"), w("a")}, a \in {w("a"), Arg(2, "w")}}

-----------------------------------------------------------------------------
Numbers(ty) == {Const(ty, b) : b \in {0, 1, 3, Modulus(ty) \div 2, Modulus(ty) - 1}}
Shift(ty) == {Const(ty, b) : b \in 0..(Narrow - 1)}
Apply(op, ty, a, b) == Binary(op, IF op \in Comparisons THEN "bool" ELSE ty, a, b)
Value(e) == [body |-> <<>>, result |-> e]

(* Every operator on two constants and on a constant and an argument, shifts *)
(* by less than the width, and chains of two operators.                     *)
Expressions ==
  UNION {{Value(Apply(op, ty, a, b)) : op \in (Arithmetic \cup Comparisons) \ {"shl", "shru", "shrs"},
            a \in Numbers(ty) \cup {Arg(1, ty)}, b \in Numbers(ty) \cup {Arg(2, ty)}}
         \cup {Value(Apply(op, ty, a, b)) : op \in {"shl", "shru", "shrs"}, a \in Numbers(ty) \cup {Arg(1, ty)}, b \in Shift(ty)}
         \cup {Value(Apply(op, ty, Apply(op2, ty, Arg(1, ty), a), b)) : op, op2 \in {"add", "sub", "mul", "div"},
            a \in {Const(ty, 0), Const(ty, 1)}, b \in {Const(ty, 1), Const(ty, 3)}}
         \cup {Value(Unary(op, ty, a)) : op \in {"neg", "bnot"}, a \in Numbers(ty) \cup {Arg(1, ty)}}
         : ty \in {"i", "u", "w"}}
  \cup {Value(Three(k, Unary("not", "bool", Apply(op, "bool", Apply("lt", "i", Arg(1, "i"), Const("i", 3)), b)), x, y)) :
          k \in {"ifelse", "select"}, op \in {"and", "or"}, b \in {Const("bool", 0), Const("bool", 1)},
          x \in {Arg(1, "i")}, y \in {Binary("div", "i", Const("i", 8), Arg(2, "i"))}}

(* Checks, assertions, stores and blocks outside loops.                     *)
Straight ==
  {[body |-> <<BoundsCheck(a, lim), BoundsCheck(b, lim), Store(IndexOf(a, lim), Call(Arg(2, "w"))),
               Claim(Binary("ne", "bool", b, Const("w", 3)))>>,
    result |-> Block(<<Let("x", At(b, lim))>>, Local("x", "u"))] :
     a, b \in {Arg(1, "w"), Const("w", 2), Const("w", 5), Const("w", 7), Binary("add", "w", Const("w", 1), Const("w", 2))}, lim \in {Const("w", Size), Const("w", 3)}}
  \cup {Sum(<<Var("i", Arg(1, "w")),
              While(Binary("lt", "bool", I("w"), Arg(2, "w")),
                    <<Set("i", Plus("w", I("w"), 1)), If(Binary("eq", "bool", I("w"), Const("w", 3)), <<Break>>), Add(At(I("w"), lim))>>)>>) : lim \in Limits}

Sound == {f \in ForLoops : WellTyped(f)} \cup OtherLoops \cup PhiLoops \cup StateLoops \cup HidingLoops \cup Expressions \cup Straight

-----------------------------------------------------------------------------
(* The state of a phi loop: each number is the sum of the two before it.    *)
Fibonacci ==
  LET w(n) == Local(n, "w")
  IN  {[body |-> <<Loop(<<V("i", "w"), V("a", "w"), V("b", "w")>>, <<Const("w", 0), Const("w", 0), Const("w", 1)>>,
                        Binary("lt", "bool", w("i"), Arg(1, "w")),
                        <<Binary("add", "w", w("i"), Const("w", 1)), w("b"), Binary("add", "w", w("a"), w("b"))>>, <<>>)>>,
        result |-> w("a")]}
=============================================================================
