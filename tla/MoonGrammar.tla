----------------------------- MODULE MoonGrammar -----------------------------
(***************************************************************************)
(* The grammar of MOONLIFT_GRAMMAR.md and the strings it derives: a         *)
(* reference for the parser that chooses no alternative, looks ahead        *)
(* nowhere and knows no binding powers.  What only the parser takes is      *)
(* marked Added, what only the document derives is marked Dropped, and      *)
(* nothing else tells them apart but where a line break may stand: in all   *)
(* readings one that is no separator is allowed before an operand, after an *)
(* attribute and around what a block or a list of lines holds, and the one  *)
(* that opens a block is also the separator of its first statement.         *)
(* A production is a sequence of parts, each a record with a tag.           *)
(***************************************************************************)
EXTENDS Integers, Sequences, TLC

T(t) == [tag |-> "token", ts |-> {t}]
OneOf(ts) == [tag |-> "token", ts |-> ts]
Followed(ts) == [tag |-> "followed", ts |-> ts]
NotAt(ts) == [tag |-> "notat", ts |-> ts]
N(name) == [tag |-> "name", name |-> name]
Opt(parts) == [tag |-> "opt", parts |-> parts]
Rep(parts) == [tag |-> "rep", parts |-> parts]
Either(choices) == [tag |-> "either", choices |-> choices]
Added(parts) == [tag |-> "added", parts |-> parts]
Dropped(parts) == [tag |-> "dropped", parts |-> parts]
Sep == [tag |-> "sep"]
Ws == Rep(<<T("nl")>>)
Id == T("id")
X == N("expr")
Ty == N("type_expr")

Listed(parts) == parts \o <<Rep(<<T(",")>> \o parts)>>
Lines(parts) == <<Sep, Opt(parts \o <<Rep(<<Sep>> \o parts)>>), Ws>>
Rows(parts) == <<Sep, Rep(parts \o <<Sep>>), T("end")>>
Applied(word, parts) == <<T(word), T("(")>> \o parts \o <<T(")")>>
Generic(words, parts) == <<OneOf(words), T("<"), Ty, T(">"), T("(")>> \o parts \o <<T(")")>>

-----------------------------------------------------------------------------
(* Sections 3 to 6: fragments, items and types.                             *)
Fragments ==
  [code |-> <<Ws, N("item"), Ws>>,
   module |-> <<Ws, Rep(<<N("item"), Ws>>)>>,
   expr |-> <<X, Ws>>,
   type |-> <<Ws, Ty, Ws>>,
   externs |-> <<Ws, Either({<<N("extern_item"), Rep(<<Ws, N("extern_item")>>)>>, <<Added(<<>>)>>}), Ws>>]

Signature == <<T("("), Opt(Listed(<<Id, T(":"), Ty>>)), T(")"), Opt(<<T("->"), Ty>>)>>
Body == <<N("block"), T("end")>>
Field == <<Id, T(":"), Ty>>
Attribute == <<T("@"), Id, Opt(<<T("("), Opt(Listed(<<OneOf({"id", "num", "str"})>>)), T(")")>>), Ws>>

Items ==
  [visibility |-> <<Opt(<<T("pub")>>), Ws>>,
   item |->
     <<N("visibility"), Rep(Attribute),
       Either({<<T("const"), Id, Opt(<<T(":"), Ty>>), T("="), X>>,
               <<T("type"), Id, T("="), Ty>>,
               <<OneOf({"struct", "union"}), Id>> \o Rows(Field),
               <<T("tagged"), T("union"), Id, Opt(<<T(":"), Ty>>)>> \o Rows(<<N("variant")>>),
               <<T("enum"), Id, Opt(<<T(":"), Ty>>)>> \o Rows(<<Id, Opt(<<T("="), X>>)>>),
               <<T("opaque"), Id>>, <<T("slice"), Id, T("="), Ty>>,
               <<N("func_decl")>>, <<N("extern_func")>>,
               <<T("impl"), N("name")>> \o Rows(<<Rep(Attribute), N("impl_func_decl")>>),
               <<Added(<<T("splice")>>)>>})>>,
   variant |-> <<Id, Either({<<Sep>> \o Field \o Rows(Field), <<Dropped(Rows(<<>>))>>, <<Added(<<>>)>>})>>,
   extern_item |-> <<N("visibility"), Rep(Attribute), N("extern_func")>>,
   extern_func |-> <<T("extern"), T("func"), Either({<<Id>>, <<Added(<<N("word")>>)>>})>> \o Signature,
   word |-> <<OneOf({"load", "store", "memcpy", "memmove", "memset", "memcmp", "cast", "trunc", "zext",
                     "sext", "bitcast", "sizeof", "alignof", "offsetof"})>>,
   impl_func_decl |-> <<Either({<<T("func"), Id>> \o Signature \o Body, <<Added(<<N("func_decl")>>)>>})>>,
   func_decl |-> <<T("func"), Either({<<>>, <<Id>>, <<N("name"), T(":"), Id>>})>> \o Signature \o Body,
   name |-> <<Id, Rep(<<T("."), Id>>)>>,
   type_expr |->
     <<Either({<<N("pointer_type")>>, <<Dropped(<<N("pointer_type"), T("->"), Ty>>)>>,
               Applied("func", <<Opt(Listed(<<Ty>>))>>) \o <<Opt(<<T("->"), Ty>>)>>})>>,
   pointer_type |->
     <<Either({<<T("&"), N("pointer_type")>>, <<T("["), Opt(<<X>>), T("]"), Ty>>, <<N("name")>>,
               <<T("("), Ty, T(")")>>, <<Added(<<T("splice")>>)>>})>>]

-----------------------------------------------------------------------------
(* Sections 7 and 8: statements.                                            *)
LoopVar == <<Id, T(":"), Ty, T("="), X>>
Loop ==
  <<T("loop"),
    Either({<<Id, T("over"), X, Rep(<<T(",")>> \o LoopVar)>>,
            Listed(LoopVar) \o <<Opt(<<Added(<<T(",")>>)>>), T("while"), X>>}),
    N("block"),
    Opt(<<T("next"), Sep, Either({<<N("next_assign"), Rep(<<Sep, N("next_assign")>>), Ws>>, <<Added(<<>>)>>})>>),
    T("end")>>

(* No token that begins a statement of another kind.                        *)
Plain == NotAt({"nl", "if", "switch", "loop"})

Statements ==
  [block |-> Lines(<<N("stmt")>>),
   next_assign |-> <<Id, T("="), X>>,
   stmt |->
     <<Ws,
       Either({<<OneOf({"let", "var"}), Id, Opt(<<T(":"), Ty>>), T("="), X>>,
               <<Plain, X>>, <<Dropped(<<X>>)>>,
               <<Plain, N("postfix_expr"), T("="), X>>, <<Dropped(<<N("postfix_expr"), T("="), X>>)>>,
               <<Added(<<Plain, X, T("="), X>>)>>,
               <<T("if"), X, T("then"), N("block"), Rep(<<T("elseif"), X, T("then"), N("block")>>),
                 Opt(<<T("else"), N("block")>>), T("end")>>,
               <<T("while"), X, T("do")>> \o Body,
               <<T("for"), Id, T("="), X, T(","), X, Opt(<<T(","), X>>), T("do")>> \o Body,
               Loop,
               <<T("switch"), X, T("do"), Ws, Rep(<<T("case"), X, T("then"), N("block")>>),
                 Opt(<<T("default"), T("then"), N("block")>>), T("end")>>,
               <<OneOf({"break", "continue"})>>,
               <<T("return"),
                 Either({<<NotAt({"nl"}), X>>, <<Followed({"nl", "end", "else", "elseif", "case", "default", "eof"})>>,
                         <<Dropped(<<Opt(<<X>>)>>)>>})>>,
               <<OneOf({"memcpy", "memmove", "memset"}), T("("), X, T(","), X, T(","), X, T(")")>>,
               Generic({"store"}, <<X, T(","), X>>)})>>]

-----------------------------------------------------------------------------
(* Section 11: expressions; the levels of section 10 are below.             *)
AggregateField == Either({<<Id, T("="), X>>, <<X>>})
Aggregate == <<T("{"), Opt(Listed(<<AggregateField>>) \o <<Opt(<<T(",")>>)>>), T("}")>>
Arguments == <<T("("), Opt(Listed(<<X>>)), T(")")>>

Levels ==
  <<{"or"}, {"and"}, {"==", "~=", "<", "<=", ">", ">="}, {"|"}, {"~"}, {"&"}, {"<<", ">>", ">>>"}, {"+", "-"}, {"*", "/", "%"}>>

Expressions ==
  [expr |-> <<Ws, Either({<<N("if_expr")>>, <<N("switch_expr")>>, <<N("or_expr")>>})>>,
   if_expr |-> <<T("if"), X, T("then"), X, Rep(<<T("elseif"), X, T("then"), X>>), T("else"), X, T("end")>>,
   switch_expr |->
     <<T("switch"), X, T("do"), Ws, Rep(<<T("case"), X, T("then"), X, Ws>>), T("default"), T("then"), X, Ws, T("end")>>,
   or_expr |-> <<N("unary_expr"), Rep(<<OneOf(UNION {Levels[i] : i \in DOMAIN Levels}), N("unary_expr")>>)>>,
   unary_expr |-> <<Ws, Either({<<OneOf({"-", "not", "~", "&", "*"}), N("unary_expr")>>, <<N("postfix_expr")>>})>>,
   postfix_expr |->
     <<N("primary_expr"),
       Rep(<<Either({<<T("."), Id>>, <<T("["), X, T("]")>>, Arguments, <<T(":"), Id>> \o Arguments})>>)>>,
   primary_expr |->
     <<Either({<<OneOf({"num", "true", "false", "nil", "str", "splice"})>>,
               <<N("name"), Opt(Aggregate)>>, <<T("["), X, T("]"), Ty>> \o Aggregate,
               Generic({"cast", "trunc", "zext", "sext", "bitcast", "load"}, <<X>>),
               Applied("sizeof", <<Ty>>), Applied("alignof", <<Ty>>), Applied("offsetof", <<Ty, T(","), Id>>),
               Applied("memcmp", <<X, T(","), X, T(","), X>>),
               <<T("do")>> \o Body, Loop \o <<T("->"), X>>, <<T("("), X, T(")")>>, <<T("?"), Id, T(":"), Ty>>,
               <<T("func")>> \o Signature \o Body,
               <<Added(<<N("if_expr")>>)>>, <<Added(<<N("switch_expr")>>)>>})>>]

Productions == Items @@ Statements @@ Expressions

-----------------------------------------------------------------------------
(* Readings: what the parser takes and what the document derives, with      *)
(* separators where the document has them or with any of them left out.     *)
Reading(separators, added, dropped) == [separators |-> separators, added |-> added, dropped |-> dropped]
Parsed(separators) == Reading(separators, TRUE, FALSE)
Document(separators) == Reading(separators, FALSE, TRUE)

(* Where a string of the parts that starts at a place of `at` may end.      *)
Step(ts, w, at) == {i + 1 : i \in {j \in at : w[j] \in ts /\ w[j] # "eof"}}

RECURSIVE Ends(_, _, _, _), Part(_, _, _, _), Closed(_, _, _, _)

Closed(parts, w, at, reading) ==
  LET more == Ends(parts, w, at, reading) \ at
  IN  IF more = {} THEN at ELSE at \cup Closed(parts, w, more, reading)

Part(p, w, at, reading) ==
  CASE p.tag = "token" -> Step(p.ts, w, at)
    [] p.tag = "followed" -> {i \in at : w[i] \in p.ts}
    [] p.tag = "notat" -> {i \in at : w[i] \notin p.ts}
    [] p.tag = "name" -> Ends(Productions[p.name], w, at, reading)
    [] p.tag = "opt" -> at \cup Ends(p.parts, w, at, reading)
    [] p.tag = "rep" -> Closed(p.parts, w, at, reading)
    [] p.tag = "either" -> UNION {Ends(c, w, at, reading) : c \in p.choices}
    [] p.tag = "added" -> IF reading.added THEN Ends(p.parts, w, at, reading) ELSE {}
    [] p.tag = "dropped" -> IF reading.dropped THEN Ends(p.parts, w, at, reading) ELSE {}
    [] p.tag = "sep" -> Closed(<<T("nl")>>, w, IF reading.separators THEN Step({"nl"}, w, at) ELSE at, reading)

Ends(parts, w, at, reading) ==
  IF at = {} \/ parts = <<>> THEN at
  ELSE Ends(Tail(parts), w, Part(parts[1], w, at, reading), reading)

Derives(entry, w, reading) == Len(w) \in Ends(Fragments[entry], w, {1}, reading)

(* How tightly an operator binds by the table of section 10.                *)
Level(op) == CHOOSE i \in DOMAIN Levels : op \in Levels[i]
=============================================================================
