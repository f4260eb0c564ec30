------------------------------ MODULE MoonParse ------------------------------
(***************************************************************************)
(* The parser of parser.rs: recursive descent for items, types and          *)
(* statements, binding powers for expressions.  A parse function is written *)
(* down as the steps it takes, in order; each looks at the current token    *)
(* alone and never goes back.  A token is its text, with "id", "num", "str" *)
(* and "splice" for the four that carry one, and "nl" for both separators.  *)
(***************************************************************************)
EXTENDS Integers, Sequences, TLC

CONSTANT Sources   \* what is parsed: [entry, tokens], with "eof" as the last token

VARIABLES
  source,      \* what is parsed
  parsed       \* not yet, or the answer: [ok, nodes]

vars == <<source, parsed>>

-----------------------------------------------------------------------------
(* Classes of tokens.                                                       *)
Casts == {"cast", "trunc", "zext", "sext", "bitcast"}
DeclNames == Casts \cup {"load", "store", "memcpy", "memmove", "memset", "memcmp", "sizeof", "alignof", "offsetof"}
Literals == {"num", "str", "true", "false", "nil", "splice"}
UnaryOps == {"-", "not", "~", "&", "*"}
Comparing == {"==", "~=", "<", "<=", ">", ">="}
Shifting == {"<<", ">>", ">>>"}
Operators == Comparing \cup Shifting \cup {"or", "and", "|", "~", "&", "+", "-", "*", "/", "%"}
AfterReturn == {"nl", "end", "else", "elseif", "case", "default", "eof"}

-----------------------------------------------------------------------------
(* Steps                                                                    *)
OneOf(ts) == [do |-> "token", ts |-> ts]
Expect(t) == OneOf({t})
Skip == [do |-> "skip"]
Call(name) == [do |-> "call", name |-> name]
IfEaten(t, steps) == [do |-> "ifeaten", t |-> t, steps |-> steps]
WhileEaten(t, steps) == [do |-> "whileeaten", t |-> t, steps |-> steps]
Unless(ts, steps) == [do |-> "unless", ts |-> ts, steps |-> steps]
Until(ts, steps) == [do |-> "until", ts |-> ts \cup {"eof"}, steps |-> steps]
Match(arms, other) == [do |-> "match", arms |-> arms, other |-> other]
Fails == <<OneOf({})>>

Ident == Expect("id")
ExprBp(min) == [do |-> "expr", min |-> min]
Expr == ExprBp(0)
Type == Call("type")
List(steps) == steps \o <<WhileEaten(",", steps)>>
Block(ts) == <<Skip, Until(ts, <<Call("stmt"), Skip>>)>>

-----------------------------------------------------------------------------
(* Items                                                                    *)
DeclName == OneOf({"id"} \cup DeclNames)
Attribute == <<Ident, IfEaten("(", <<Unless({")"}, List(<<OneOf({"id", "num", "str"})>>)), Expect(")")>>), Skip>>
Attributes == <<WhileEaten("@", Attribute)>>
Visibility == <<IfEaten("pub", <<>>)>>
Path == <<Ident, WhileEaten(".", <<Ident>>)>>

ConstDecl == <<Expect("const"), Ident, IfEaten(":", <<Type>>), Expect("="), Expr>>
TypeAlias == <<Expect("type"), Ident, Expect("="), Type>>
FieldDecl == <<Ident, Expect(":"), Type>>
FieldBlock == <<Skip, Until({"end"}, <<Call("field"), Skip>>), Expect("end")>>
Struct == <<Expect("struct"), Ident>> \o FieldBlock
Union == <<Expect("union"), Ident>> \o FieldBlock

(* A variant has fields if a name and a colon come next, whatever line they *)
(* are on.                                                                  *)
Variant == <<Ident, [do |-> "iffield", steps |-> FieldBlock]>>
TaggedUnion ==
  <<Expect("tagged"), Expect("union"), Ident, IfEaten(":", <<Type>>), Skip,
    Until({"end"}, <<Call("variant"), Skip>>), Expect("end")>>
Enum ==
  <<Expect("enum"), Ident, IfEaten(":", <<Type>>), Skip,
    Until({"end"}, <<Ident, IfEaten("=", <<Expr>>), Skip>>), Expect("end")>>
Opaque == <<Expect("opaque"), Ident>>
Slice == <<Expect("slice"), Ident, Expect("="), Type>>

ParamList == <<Unless({")"}, List(<<Ident, Expect(":"), Type>>))>>
ResultType == <<IfEaten("->", <<Type>>)>>
Parameters == <<Expect("(")>> \o ParamList \o <<Expect(")")>> \o ResultType

(* Nothing before the parameters, one name, or a path, a colon and a name.  *)
FuncName == <<Call("path"), Match(":" :> <<Expect(":"), Ident>>, <<[do |-> "onesegment"]>>)>>
FuncSignature == <<Expect("func"), Unless({"("}, FuncName)>> \o Parameters
FuncDecl == FuncSignature \o Block({"end"}) \o <<Expect("end")>>
ExternFunc == <<Expect("extern"), Expect("func"), DeclName>> \o Parameters
Impl ==
  <<Expect("impl"), Call("path"), Skip, Until({"end"}, Attributes \o <<Call("func"), Skip>>), Expect("end")>>

Item ==
  Visibility \o <<Skip>> \o Attributes \o
  <<Match("const" :> ConstDecl @@ "type" :> TypeAlias @@ "struct" :> Struct @@ "union" :> Union
            @@ "tagged" :> TaggedUnion @@ "enum" :> Enum @@ "opaque" :> Opaque @@ "slice" :> Slice
            @@ "func" :> <<Call("func")>> @@ "extern" :> <<Call("extern")>> @@ "impl" :> Impl
            @@ "splice" :> <<Expect("splice")>>, Fails)>>

-----------------------------------------------------------------------------
(* Types.  The scalar types are identifiers to the lexer.                   *)
TypeExpr ==
  <<Match("func" :> <<Expect("func"), Expect("("), Unless({")"}, List(<<Type>>)), Expect(")")>> \o ResultType,
          <<Call("typeprefix")>>)>>
TypePrefix ==
  <<Match("&" :> <<Expect("&"), Call("typeprefix")>>
            @@ "[" :> <<Expect("["), Unless({"]"}, <<Expr>>), Expect("]"), Type>>
            @@ "splice" :> <<Expect("splice")>>
            @@ "(" :> <<Expect("("), Type, Expect(")")>>
            @@ "id" :> <<Call("path")>>, Fails)>>

-----------------------------------------------------------------------------
(* Statements                                                               *)
LetStmt == <<OneOf({"let", "var"}), Ident, IfEaten(":", <<Type>>), Expect("="), Expr>>

Branch == <<Expr, Expect("then")>> \o Block({"elseif", "else", "end"})
IfStmt ==
  <<Expect("if")>> \o Branch \o
  <<WhileEaten("elseif", Branch), IfEaten("else", Block({"end"})), Expect("end")>>
WhileStmt == <<Expect("while"), Expr, Expect("do")>> \o Block({"end"}) \o <<Expect("end")>>
ForStmt ==
  <<Expect("for"), Ident, Expect("="), Expr, Expect(","), Expr, IfEaten(",", <<Expr>>), Expect("do")>>
  \o Block({"end"}) \o <<Expect("end")>>

LoopVarInit == <<Expect(":"), Type, Expect("="), Expr>>
LoopHead ==
  <<Ident,
    Match("over" :> <<Expect("over"), Expr, WhileEaten(",", <<Ident>> \o LoopVarInit)>>,
          LoopVarInit \o <<WhileEaten(",", <<Unless({"while"}, <<Ident>> \o LoopVarInit)>>), Expect("while"), Expr>>)>>
LoopNext == <<Skip, Until({"end"}, <<Ident, Expect("="), Expr, Skip>>)>>
LoopStmt ==
  <<Expect("loop")>> \o LoopHead \o Block({"next", "end"}) \o <<IfEaten("next", LoopNext), Expect("end")>>

Case == <<Expr, Expect("then")>> \o Block({"case", "default", "end"})
(* Bug: a default ends where a case begins. *)
SwitchStmt_DefaultAnywhere ==
  <<Expect("switch"), Expr, Expect("do"), Skip,
    Until({"end"}, <<Match("case" :> <<Expect("case")>> \o Case
                             @@ "default" :> <<Expect("default"), Expect("then")>> \o Block({"case", "default", "end"}),
                           Fails), Skip>>),
    Expect("end")>>

SwitchStmt ==
  <<Expect("switch"), Expr, Expect("do"), Skip,
    Until({"end"}, <<Match("case" :> <<Expect("case")>> \o Case
                             @@ "default" :> <<Expect("default"), Expect("then")>> \o Block({"end"}), Fails), Skip>>),
    Expect("end")>>

ReturnStmt == <<Expect("return"), Unless(AfterReturn, <<Expr>>)>>
Three == <<Expect("("), Expr, Expect(","), Expr, Expect(","), Expr, Expect(")")>>
Typed(steps) == <<Expect("<"), Type, Expect(">"), Expect("(")>> \o steps \o <<Expect(")")>>
MemoryStmt ==
  <<Match("store" :> <<Expect("store")>> \o Typed(<<Expr, Expect(","), Expr>>),
          <<OneOf({"memcpy", "memmove", "memset"})>> \o Three)>>
AssignOrExpr == <<Expr, IfEaten("=", <<Expr>>)>>

Stmt ==
  <<Skip,
    Match("let" :> LetStmt @@ "var" :> LetStmt @@ "if" :> IfStmt @@ "while" :> WhileStmt @@ "for" :> ForStmt
            @@ "loop" :> LoopStmt @@ "switch" :> SwitchStmt @@ "break" :> <<OneOf({"break"})>>
            @@ "continue" :> <<OneOf({"continue"})>> @@ "return" :> ReturnStmt @@ "memcpy" :> MemoryStmt
            @@ "memmove" :> MemoryStmt @@ "memset" :> MemoryStmt @@ "store" :> MemoryStmt, AssignOrExpr)>>

-----------------------------------------------------------------------------
(* Expressions                                                              *)
IfExpr ==
  <<Expect("if"), Expr, Expect("then"), Expr, WhileEaten("elseif", <<Expr, Expect("then"), Expr>>),
    Expect("else"), Expr, Expect("end")>>
SwitchExpr ==
  <<Expect("switch"), Expr, Expect("do"), Skip, WhileEaten("case", <<Expr, Expect("then"), Expr, Skip>>),
    Expect("default"), Expect("then"), Expr, Skip, Expect("end")>>
LoopExpr == LoopStmt \o <<Expect("->"), Expr>>
BlockExpr == <<Expect("do")>> \o Block({"end"}) \o <<Expect("end")>>

(* parse_func_signature, refused unless it is anonymous.                    *)
AnonymousFunc == <<Expect("func")>> \o Parameters \o Block({"end"}) \o <<Expect("end")>>
CastLike == <<OneOf(Casts)>> \o Typed(<<Expr>>)
SizeOf == <<OneOf({"sizeof", "alignof"}), Expect("("), Type, Expect(")")>>
OffsetOf == <<Expect("offsetof"), Expect("("), Type, Expect(","), Ident, Expect(")")>>
Load == <<Expect("load")>> \o Typed(<<Expr>>)
Memcmp == <<Expect("memcmp")>> \o Three
Hole == <<Expect("?"), Ident, Expect(":"), Type>>

(* A field is named if a name and "=" come next.                            *)
AggregateField == <<[do |-> "ifnamed", steps |-> <<Ident, Expect("=")>>], Expr>>
Aggregate ==
  <<Expect("{"), Unless({"}"}, AggregateField \o <<WhileEaten(",", <<Unless({"}"}, AggregateField)>>)>>), Expect("}")>>
NameOrAggregate == <<Call("path"), Match("{" :> Aggregate, <<>>)>>
ArrayAggregate == <<Expect("["), Expr, Expect("]"), Type>> \o Aggregate

Each(ts, steps) == [t \in ts |-> steps]
Primary ==
  <<Match(Each(Literals, <<OneOf(Literals)>>) @@ Each(Casts, CastLike) @@ "?" :> Hole @@ "if" :> IfExpr @@ "switch" :> SwitchExpr @@ "loop" :> LoopExpr
            @@ "do" :> BlockExpr @@ "func" :> AnonymousFunc @@ "sizeof" :> SizeOf @@ "alignof" :> SizeOf
            @@ "offsetof" :> OffsetOf @@ "load" :> Load @@ "memcmp" :> Memcmp
            @@ "[" :> ArrayAggregate @@ "id" :> NameOrAggregate, Fails)>>
Prefix == <<Skip, Match(Each(UnaryOps, <<Call("unary")>>) @@ "(" :> <<Call("group")>>, <<Call("primary")>>)>>

Arguments == <<Expect("("), Unless({")"}, List(<<Expr>>)), Expect(")")>>
Postfix ==
  "(" :> Arguments @@ "[" :> <<Expect("["), Expr, Expect("]")>>
  @@ ":" :> <<Expect(":"), Ident>> \o Arguments @@ "." :> <<Expect("."), Ident>>

PrefixPower == 100
PostfixPower == 110

(* Bug: subtraction groups to the right. *)
BindingPower_SubRight(op) ==
  CASE op = "or" -> <<10, 11>> [] op = "and" -> <<20, 21>> [] op \in Comparing -> <<30, 31>>
    [] op = "|" -> <<40, 41>> [] op = "~" -> <<50, 51>> [] op = "&" -> <<60, 61>> [] op \in Shifting -> <<70, 71>>
    [] op = "-" -> <<80, 80>> [] op = "+" -> <<80, 81>> [] op \in {"*", "/", "%"} -> <<90, 91>>

(* current_binary_op: how strongly an operator binds on its left and right. *)
BindingPower(op) ==
  CASE op = "or" -> <<10, 11>> [] op = "and" -> <<20, 21>> [] op \in Comparing -> <<30, 31>>
    [] op = "|" -> <<40, 41>> [] op = "~" -> <<50, 51>> [] op = "&" -> <<60, 61>> [] op \in Shifting -> <<70, 71>>
    [] op \in {"+", "-"} -> <<80, 81>> [] op \in {"*", "/", "%"} -> <<90, 91>>

Rules ==
  [item |-> Item, func |-> FuncDecl, field |-> FieldDecl, variant |-> Variant, path |-> Path,
   type |-> TypeExpr, typeprefix |-> TypePrefix, stmt |-> Stmt, extern |-> ExternFunc,
   primary |-> Primary, unary |-> <<OneOf(UnaryOps), ExprBp(PrefixPower)>>,
   group |-> <<Expect("("), Expr, Expect(")")>>]

-----------------------------------------------------------------------------
(* The parser between two steps: the place of the current token, whether no *)
(* error was met, and the nodes that the rule at hand has made so far.  A   *)
(* node has the places of its first and last token (its span) and, with an  *)
(* operator, the place of it.                                               *)
At(c) == source.tokens[c.at]
Bump(c) == IF At(c) = "eof" THEN c ELSE [c EXCEPT !.at = @ + 1]
Failed(c) == [c EXCEPT !.ok = FALSE]
NodeOf(k, op, from, to, kids) == [k |-> k, op |-> op, from |-> from, to |-> to, kids |-> kids, grouped |-> FALSE]
Emptied(c) == [c EXCEPT !.kids = <<>>]

RECURSIVE Separated(_), Run(_, _), Do(_, _), Infix(_, _)

Separated(c) == IF At(c) = "nl" THEN Separated(Bump(c)) ELSE c

(* next_non_separator_starts_field_decl, and the look at a named field.     *)
StartsField(c) == LET i == Separated(c).at IN source.tokens[i] = "id" /\ source.tokens[i + 1] = ":"
StartsNamed(c) == At(c) = "id" /\ source.tokens[c.at + 1] = "="

(* What r made after c becomes one node: an expression in parentheses is    *)
(* the expression within, with a wider span.                                *)
Built(name, c, r) ==
  LET from == Separated(c).at
  IN  IF name = "group" THEN [r.kids[1] EXCEPT !.from = from, !.to = r.at - 1, !.grouped = TRUE]
      ELSE NodeOf(name, from, from, r.at - 1, r.kids)
Pushed(c, r, node) == [r EXCEPT !.kids = Append(c.kids, node)]

(* The operand on the left and what r read after it, as one operand.        *)
Joined(k, c, r) ==
  IF r.ok THEN [r EXCEPT !.kids = <<NodeOf(k, c.at, c.kids[1].from, r.at - 1, @)>>] ELSE r

(* The loop of parse_expr_bp.                                               *)
Infix(min, c) ==
  IF ~c.ok THEN c
  ELSE CASE At(c) \in DOMAIN Postfix /\ PostfixPower >= min ->
              Infix(min, Joined("postfix", c, Run(Postfix[At(c)], c)))
         [] At(c) \in Operators /\ BindingPower(At(c))[1] >= min ->
              Infix(min, Joined("binary", c, Do(ExprBp(BindingPower(At(c))[2]), Bump(c))))
         [] OTHER -> c

Run(steps, c) == IF steps = <<>> \/ ~c.ok THEN c ELSE Run(Tail(steps), Do(Head(steps), c))

Do(s, c) ==
  CASE ~c.ok -> c
    [] s.do = "token" -> IF At(c) \in s.ts THEN Bump(c) ELSE Failed(c)
    [] s.do = "skip" -> Separated(c)
    [] s.do = "call" ->
         LET r == Run(Rules[s.name], Emptied(c)) IN IF r.ok THEN Pushed(c, r, Built(s.name, c, r)) ELSE r
    [] s.do = "expr" ->
         LET r == Infix(s.min, Run(Prefix, Emptied(c))) IN IF r.ok THEN Pushed(c, r, r.kids[1]) ELSE r
    [] s.do = "ifeaten" -> IF At(c) = s.t THEN Run(s.steps, Bump(c)) ELSE c
    [] s.do = "whileeaten" -> IF At(c) = s.t THEN Do(s, Run(s.steps, Bump(c))) ELSE c
    [] s.do = "unless" -> IF At(c) \in s.ts THEN c ELSE Run(s.steps, c)
    [] s.do = "until" -> IF At(c) \in s.ts THEN c ELSE Do(s, Run(s.steps, c))
    [] s.do = "match" -> Run(IF At(c) \in DOMAIN s.arms THEN s.arms[At(c)] ELSE s.other, c)
    [] s.do = "iffield" -> IF StartsField(c) THEN Run(s.steps, c) ELSE c
    [] s.do = "ifnamed" -> IF StartsNamed(c) THEN Run(s.steps, c) ELSE c
    [] s.do = "onesegment" ->
         LET path == c.kids[Len(c.kids)] IN IF path.from = path.to THEN c ELSE Failed(c)
    [] s.do = "externitem" ->
         LET kids == c.kids[Len(c.kids)].kids
         IN  IF kids # <<>> /\ kids[Len(kids)].k = "extern" THEN c ELSE Failed(c)

-----------------------------------------------------------------------------
(* The entry points.  Each parses the whole source or reports an error.     *)
Unparsed == [done |-> FALSE, ok |-> FALSE, nodes |-> <<>>]
Parse(steps) ==
  LET c == Run(<<Skip>> \o steps, [at |-> 1, ok |-> TRUE, kids |-> <<>>])
  IN  /\ ~parsed.done
      /\ parsed' = [done |-> TRUE, ok |-> c.ok, nodes |-> IF c.ok THEN c.kids ELSE <<>>]
      /\ UNCHANGED source

End == <<Skip, Expect("eof")>>
ParseCode == source.entry = "code" /\ Parse(<<Call("item")>> \o End)
ParseModule == source.entry = "module" /\ Parse(<<Until({}, <<Call("item"), Skip>>)>>)
ParseExpr == source.entry = "expr" /\ Parse(<<Expr>> \o End)
ParseType == source.entry = "type" /\ Parse(<<Type>> \o End)
ParseExterns == source.entry = "externs" /\ Parse(<<Until({}, <<Call("item"), [do |-> "externitem"], Skip>>)>>)

Init == source \in Sources /\ parsed = Unparsed
Next == ParseCode \/ ParseModule \/ ParseExpr \/ ParseType \/ ParseExterns
ParseSpec == Init /\ [][Next]_vars

-----------------------------------------------------------------------------
Grammar == INSTANCE MoonGrammar

(* The parser commits to an alternative on one token (in two places on two) *)
(* and never goes back, and lets separators be left out.  It still accepts  *)
(* all that the document derives as MoonGrammar marks it, and nothing but   *)
(* that with some separators put back.                                      *)
AcceptsGrammar ==
  parsed.done =>
    /\ Grammar!Derives(source.entry, source.tokens, Grammar!Parsed(TRUE)) => parsed.ok
    /\ parsed.ok => Grammar!Derives(source.entry, source.tokens, Grammar!Parsed(FALSE))

(* How tightly a node holds together: a binary one as its operator does by  *)
(* the table of the grammar, then unary and postfix ones, then the rest.    *)
OpOf(node) == source.tokens[node.op]
Tightness(node) ==
  CASE node.grouped -> 13
    [] node.k = "binary" -> Grammar!Level(OpOf(node))
    [] node.k = "unary" -> 11
    [] node.k = "postfix" -> 12
    [] OTHER -> 13

RECURSIVE Grouped(_)
Grouped(node) ==
  LET kids == node.kids
  IN  /\ \A i \in DOMAIN kids :
           /\ Grouped(kids[i])
           /\ node.from <= kids[i].from /\ kids[i].to <= node.to
           /\ i > 1 => kids[i - 1].to < kids[i].from
      /\ node.k = "binary" =>
           /\ Tightness(kids[1]) >= Grammar!Level(OpOf(node))
           /\ Tightness(kids[2]) > Grammar!Level(OpOf(node))
           /\ kids[1].to < node.op /\ node.op < kids[2].from
      /\ node.k = "unary" => Tightness(kids[1]) >= 11
      /\ node.k = "postfix" => Tightness(kids[1]) >= 12

(* Binding powers and recursion give the tree that the table of section 10  *)
(* means: what binds more tightly is further in, equals group to the left,  *)
(* unary operators to the right, parentheses hold, and the span of a node   *)
(* covers those of the nodes in it, which follow one another.               *)
TreesGroup == \A i \in DOMAIN parsed.nodes : Grouped(parsed.nodes[i])
=============================================================================
