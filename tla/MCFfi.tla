-------------------------------- MODULE MCFfi --------------------------------
(* Hosts of the Moonlift back end: four programs, each as it is and with     *)
(* one mistake (a command left out, sent twice, sent too early, or one that  *)
(* does not belong there).                                                   *)
EXTENDS MoonFfi, SequencesExt

CONSTANTS t1, t2

MCSymbols == {<<"host", "print">>}
MCHostSymbols == {<<"libc", "puts">>}

Sig(id, params, results) == [Cmd EXCEPT !.k = "createsig", !.id = id, !.params = params, !.results = results]
Data(size, align) == [Cmd EXCEPT !.k = "declaredata", !.id = "d", !.size = size, !.align = align]
Zero(at, size) == [Cmd EXCEPT !.k = "datazero", !.id = "d", !.at = at, !.size = size]
Init_(k, at, ty, n) == [Cmd EXCEPT !.k = k, !.id = "d", !.at = at, !.ty = ty, !.lit = Some(n)]
Func(id, sig, how) == [Cmd EXCEPT !.k = "declarefunc", !.id = id, !.sig = sig, !.how = how]
Extern(sig, symbol) == [Cmd EXCEPT !.k = "declareextern", !.id = "x", !.sig = sig, !.symbol = symbol]
At(k, id) == [Cmd EXCEPT !.k = k, !.id = id]
To(k, block) == [Cmd EXCEPT !.k = k, !.dests = <<block>>]
Entry(block, dsts) == [To("bindentry", block) EXCEPT !.dsts = dsts]
BlockParam(block, dst, ty) == [To("blockparam", block) EXCEPT !.dsts = <<dst>>, !.ty = ty]
Make(k, dst, ty, uses) == [Cmd EXCEPT !.k = k, !.dsts = <<dst>>, !.ty = ty, !.uses = uses]
Address(k, id, dst) == [At(k, id) EXCEPT !.dsts = <<dst>>]
Number(k, dst, ty, n) == [Make(k, dst, ty, <<>>) EXCEPT !.lit = Some(n)]
Jump(block, uses) == [To("jump", block) EXCEPT !.uses = uses]
Return(uses) == [Cmd EXCEPT !.k = "return", !.uses = uses]
Call(k, how, id, sig, dsts, uses) ==
  [Cmd EXCEPT !.k = k, !.how = how, !.id = id, !.sig = sig, !.dsts = dsts, !.uses = uses]
Switch(ty, on, n1, b1, n2, b2, default) ==
  [Cmd EXCEPT !.k = "switch", !.ty = ty, !.uses = <<on>>, !.dests = <<default>>,
    !.cases = <<[lit |-> Some(n1), dest |-> b1], [lit |-> Some(n2), dest |-> b2]>>]
Plain(k) == [Cmd EXCEPT !.k = k]

-----------------------------------------------------------------------------
DataProgram ==
  <<Sig("s", <<>>, <<"i64">>), Data(5, 2), Init_("dataint", 1, "i64", -3), Zero(2, 2),
    Init_("databool", 0, "bool", 1), Init_("datafloat", 3, "f64", 9), Func("f", "s", "export"),
    At("begin", "f"), At("createblock", "e"), To("switchto", "e"), Address("dataaddr", "d", "a"),
    Make("convert", "v", "i64", <<"a">>), Return(<<"v">>), At("finish", "f"), Plain("finalize")>>
DataVocabulary ==
  {Data(0, 1), Data(4, 3), Zero(4, 2), Zero(0, 5), Init_("dataint", 0, "i8", 3), Init_("dataint", 0, "u8", 3),
   Init_("dataint", 0, "bool", 1), Init_("datafloat", 0, "i64", 1), Extern("s", DataSymbolOf("d")), Extern("s", SymbolOf("f"))}

SwitchProgram ==
  <<Sig("s", <<"i8">>, <<"i8">>), Func("f", "s", "local"), At("begin", "f"), At("createblock", "e"),
    At("createblock", "o"), To("switchto", "e"), Entry("e", <<"n">>),
    Switch("i8", "n", 1, "o", -1, "e", "o"), To("switchto", "o"), Number("constint", "m", "u8", 5),
    Return(<<"m">>), At("finish", "f")>>
SwitchVocabulary ==
  {Switch(ty, "n", n[1], "o", n[2], "e", "o") : ty \in {"i8", "u8", "bool", "i64"}, n \in {<<3, -1>>, <<0, 1>>, <<2, 1>>}}
    \cup {Switch("u8", "n", 1, "o", 3, "e", "q"), To("seal", "o"), To("seal", "q"),
          Number("constint", "p", "i64", 8), Number("constint", "p", "u64", 8), Number("constfloat", "p", "f64", 3)}

CallProgram ==
  <<Sig("s", <<"i8">>, <<"i8">>), Sig("v", <<"i8">>, <<>>), Extern("v", <<"host", "print">>),
    Func("f", "s", "export"), At("begin", "f"), At("createblock", "e"), To("switchto", "e"), Entry("e", <<"n">>),
    Call("callstmt", "extern", "x", "v", <<>>, <<"n">>),
    Call("callvalue", "direct", "f", "s", <<"m">>, <<"n">>),
    Call("callvalue", "indirect", "", "s", <<"w">>, <<"n", "m">>), Return(<<"w">>), At("finish", "f")>>
CallVocabulary ==
  {Extern("v", <<"libc", "puts">>), Extern("s", SymbolOf("f")), Extern("v", SymbolOf("f")), Func("g", "s", "local"),
   Call("callvalue", "direct", "g", "s", <<"q">>, <<"n">>), Call("callvalue", "direct", "f", "v", <<"q">>, <<"n">>),
   Call("callvalue", "indirect", "", "v", <<"q">>, <<"n", "n">>), Call("callstmt", "direct", "f", "s", <<>>, <<"n">>),
   Sig("s", <<>>, <<"i8", "i8">>)}

NameProgram ==
  <<Sig("s", <<"i8", "i64">>, <<"i64">>), Func("f", "s", "local"), At("begin", "f"), At("createblock", "e"),
    At("createblock", "l"), To("switchto", "e"), BlockParam("e", "z", "i64"),
    Entry("e", <<"y", "c", "n">>), At("slot", "k"),
    Address("stackaddr", "k", "a"), [Cmd EXCEPT !.k = "store", !.uses = <<"a", "n">>],
    BlockParam("l", "i", "i64"), [Jump("l", <<"n">>) EXCEPT !.k = "brif", !.dests = <<"l", "l">>, !.uses = <<"c", "n">>],
    To("switchto", "l"), Make("compute", "j", "i64", <<"i", "n">>), Make("alias", "k", "i64", <<"j">>),
    Return(<<"k">>), At("finish", "f")>>
NameVocabulary ==
  {Make("alias", "n", "i64", <<"c">>), Make("select", "p", "i64", <<"c", "i", "n">>), Make("frem", "p", "f64", <<"n", "n">>),
   Make("compare", "p", "i8", <<"n", "j">>), Number("constbool", "p", "bool", 1), Jump("q", <<>>), Plain("trap"),
   Switch("i64", "n", 0, "e", 1, "l", "l"), Switch("i64", "y", 0, "e", 1, "l", "l"),
   Switch("i8", "y", 0, "e", 1, "l", "l"), Switch("i8", "c", 0, "e", 1, "l", "l"), Entry("l", <<"q", "r", "w">>), At("slot", "q")}

-----------------------------------------------------------------------------
Edits(p, vocabulary) ==
  {p}
    \cup {RemoveAt(p, i) : i \in DOMAIN p}
    \cup {InsertAt(p, i, p[i]) : i \in DOMAIN p}
    \cup {[p EXCEPT ![i] = p[i + 1], ![i + 1] = p[i]] : i \in 1..(Len(p) - 1)}
    \cup {InsertAt(p, i, c) : i \in {i \in DOMAIN p : i % 3 = 2}, c \in vocabulary}
    \cup UNION {{ReplaceAt(p, i, c) : c \in {c \in vocabulary : c.k = p[i].k}} : i \in DOMAIN p}

Programs ==
  Edits(DataProgram, DataVocabulary) \cup Edits(SwitchProgram, SwitchVocabulary)
    \cup Edits(CallProgram, CallVocabulary) \cup Edits(NameProgram, NameVocabulary)

(* One host thread that makes no mistake in its calls; or two, one jit and   *)
(* one program between them, that do.                                        *)
MCSessions ==
  {[cmds |-> p, threads |-> {t1}, careless |-> FALSE] : p \in Programs}
    \cup {[cmds |-> p, threads |-> {t1, t2}, careless |-> TRUE] : p \in {DataProgram, CallProgram}}
=============================================================================
