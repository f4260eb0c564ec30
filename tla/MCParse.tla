------------------------------- MODULE MCParse -------------------------------
(* Whole programs and fragments that use every production, each also with    *)
(* one token left out, repeated, exchanged with the next or replaced, and    *)
(* short expressions over one operator of every level.                       *)
EXTENDS MoonParse, SequencesExt

Line == <<"nl">>
Param == <<"id", ":", "id">>
Fn(body) == <<"func", "id", "(">> \o Param \o <<")", "->", "id", "nl">> \o body \o <<"nl", "end">>
In(body) == <<"do", "nl">> \o body \o <<"nl", "end">>

Items ==
  {<<"pub", "nl", "@", "id", "(", "str", ",", "num", ")", "nl", "const", "id", ":", "id", "=", "num">>,
   <<"type", "id", "=", "[", "]", "&", "id", ".", "id">>,
   <<"struct", "id", "nl", "id", ":", "id", "nl", "id", ":", "splice", "nl", "end">>,
   <<"tagged", "union", "id", ":", "id", "nl", "id", "nl", "id", ":", "id", "nl", "end", "nl", "id", "nl", "end">>,
   <<"union", "id", "nl", "id", ":", "(", "id", ")", "nl", "end">>,
   <<"enum", "id", ":", "id", "nl", "id", "=", "num", "nl", "id", "nl", "end">>,
   <<"opaque", "id">>, <<"slice", "id", "=", "[", "num", "]", "id">>, <<"splice">>,
   <<"impl", "id", ".", "id", "nl", "@", "id", "func", "id", ".", "id", ":", "id", "(", ")", "nl", "return", "nl", "end", "nl", "end">>,
   Fn(<<"let", "id", ":", "id", "=", "id", "nl", "id", ".", "id", "=", "num", "nl", "return", "id">>)}

Bodies ==
  {<<"if", "id", "then", "nl", "break", "nl", "elseif", "id", "then", "nl", "continue", "nl", "else", "nl", "id", "(", ")", "nl", "end">>,
   <<"while", "id", "do", "nl", "var", "id", "=", "num", "nl", "end", "nl", "return">>,
   <<"for", "id", "=", "num", ",", "id", ",", "num", "do", "nl", "id", "=", "id", "nl", "end">>,
   <<"loop", "id", ":", "id", "=", "num", ",", "id", ":", "id", "=", "num", ",", "while", "id", "nl", "id", "nl", "next", "nl", "id", "=", "id", "nl", "end">>,
   <<"loop", "id", "over", "id", ",", "id", ":", "id", "=", "num", "nl", "next", "nl", "id", "=", "num", "nl", "id", "=", "id", "nl", "end">>,
   <<"switch", "id", "do", "nl", "case", "num", "then", "nl", "return", "nl", "default", "then", "nl", "id", "nl", "end">>,
   <<"switch", "id", "do", "nl", "default", "then", "nl", "id", "nl", "case", "num", "then", "nl", "end">>,
   <<"memcpy", "(", "id", ",", "id", ",", "num", ")", "nl", "store", "<", "id", ">", "(", "id", ",", "num", ")">>}

Expressions ==
  {In(b) : b \in Bodies} \cup
  {<<"if", "id", "then", "num", "elseif", "id", "then", "num", "else", "-", "num", "end">>,
   <<"switch", "id", "do", "nl", "case", "num", "then", "id", "nl", "default", "then", "id", "nl", "end">>,
   <<"loop", "id", "over", "id", "nl", "next", "nl", "id", "=", "id", "nl", "end", "->", "id", "+", "num">>,
   <<"func", "(">> \o Param \o <<",">> \o Param \o <<")", "->", "id", "nl", "return", "id", "nl", "end", "(", "num", ")">>,
   <<"id", ".", "id", "{", "id", "=", "num", ",", "num", ",", "}">>,
   <<"[", "num", "]", "id", "{", "num", ",", "id", "}", "[", "num", "]">>,
   <<"id", ":", "id", "(", "id", ",", "num", ")", ".", "id", "[", "id", "]">>,
   <<"cast", "<", "&", "id", ">", "(", "load", "<", "id", ">", "(", "id", ")", ")">>,
   <<"sizeof", "(", "id", ")", "+", "offsetof", "(", "id", ",", "id", ")">>,
   <<"memcmp", "(", "id", ",", "id", ",", "num", ")", "==", "?", "id", ":", "id">>,
   <<"not", "id", "and", "nl", "*", "id", "or", "(", "id", "<", "num", ")">>,
   <<"id", "[", "num", "]", "[", "]", "id", "{", "}">>}

Types == {<<"func", "(", "&", "id", ",", "[", "num", "]", "id", ")", "->", "func", "(", ")", "->", "(", "id", ")">>}
Externs == {<<"@", "id", "(", "id", ")", "nl", "extern", "func", "memcpy", "(">> \o Param \o <<")", "->", "id", "nl">>}

(* A token may be read as any of these.                                      *)
Others ==
  {"id", "nl", "(", ")", "[", "{", ",", ":", ".", "=", "-", "&", "end", "if", "do", "loop", "next", "case", "default", "return", "func"}
Changed(s) ==
  {s} \cup {RemoveAt(s, i) : i \in DOMAIN s} \cup {InsertAt(s, i, s[i]) : i \in DOMAIN s}
      \cup {[s EXCEPT ![i] = s[i + 1], ![i + 1] = s[i]] : i \in 1..(Len(s) - 1)}
      \cup {[s EXCEPT ![i] = t] : i \in DOMAIN s, t \in Others}

(* Operands that end with a word of their own, and one that does not.        *)
Closed ==
  {<<"if", "id", "then", "id", "or", "id", "else", "-", "id", "end">>,
   <<"switch", "id", "do", "default", "then", "id", "end">>, In(<<"id">>), <<"func", "(", ")", "nl", "end">>}
Loops == <<"loop", "id", "over", "id", "nl", "end", "->", "id", "*", "id">>

(* Operands with operators of every level between and before them.           *)
Ops == {"or", "and", "<", "|", "~", "&", "<<", "-", "*"}
Sums ==
  {<<"id", p, "id", q, "id">> : p \in Ops, q \in Ops}
  \cup {<<"id", p>> \o u \o <<"id", q, "id">> \o v : p \in Ops, q \in Ops,
         u \in {<<"-">>, <<"not", "&">>, <<"nl">>}, v \in {<<>>, <<".", "id">>, <<"[", "id", "]">>}}
  \cup {<<"(", "id", p, "id", ")", q, "id">> : p \in Ops, q \in Ops}
  \cup {<<"id", p, "(", "id", q, "id", ")">> : p \in Ops, q \in Ops}
  \cup {<<"id", p, "id", q, "id", r, "id">> : p \in Ops, q \in Ops, r \in Ops}
  \cup {<<"id", p>> \o e \o <<q, "id">> : p \in Ops, q \in Ops, e \in Closed}
  \cup {e \o <<p, "id", q>> \o Loops : p \in Ops, q \in Ops, e \in Closed}

All(entry, set) == {[entry |-> entry, tokens |-> Append(s, "eof")] : s \in set}

-----------------------------------------------------------------------------
(* One text for each part that only the parser has: an item, extern items    *)
(* and a type first, then statements and operands.                          *)
If == <<"if", "id", "then", "num", "else", "num", "end">>
Switch == <<"switch", "id", "do", "nl", "case", "num", "then", "num", "nl", "default", "then", "num", "end">>
Over(body) == <<"loop", "id", "over", "id", "nl">> \o body \o <<"end">>
Gained ==
  All("code", {<<"splice">>, <<"tagged", "union", "id", "nl", "id", "nl", "end">>,
               <<"impl", "id", "nl", "func", "id", ":", "id", "(", ")", "nl", "end", "nl", "end">>})
  \cup All("type", {<<"splice">>})
  \cup All("externs", {<<>>, <<"extern", "func", "cast", "(", ")">>})
  \cup All("expr", {<<"id", "+">> \o If, <<"id", "+">> \o Switch, In(<<"id", "-", "id", "=", "num">>),
                    In(Over(<<"next", "nl">>)), In(<<"loop">> \o Param \o <<"=", "num", ",", "while", "id", "nl", "end">>)})

(* One text for each part that only the document has.                       *)
Lost ==
  All("code", {<<"tagged", "union", "id", "nl", "id", "nl", "end", "nl", "end">>})
  \cup All("type", {<<"&", "id", "->", "id">>})
  \cup All("expr", {In(Over(<<>>) \o <<"->", "id">>), In(Over(<<>>) \o <<"->", "id", "=", "num">>),
                    In(<<"if", "id", "then">> \o Over(<<>>) \o <<"->", "id", "else", "id", "end">>),
                    In(<<"switch", "id", "do", "default", "then">> \o Over(<<>>) \o <<"->", "id", "end">>),
                    In(Over(<<"return", "next", "nl", "id", "=", "num", "nl">>))})

(* The marks are differences to the document as it is written: with the     *)
(* run, the parser takes the first texts and refuses the second.            *)
ASSUME Deviations ==
  /\ \A t \in Gained : /\ Grammar!Derives(t.entry, t.tokens, Grammar!Parsed(TRUE))
                       /\ ~Grammar!Derives(t.entry, t.tokens, Grammar!Document(FALSE))
  /\ \A t \in Lost : /\ Grammar!Derives(t.entry, t.tokens, Grammar!Document(TRUE))
                     /\ ~Grammar!Derives(t.entry, t.tokens, Grammar!Parsed(FALSE))

ChangedAll(set) == UNION {Changed(s) : s \in set}
MCSources ==
  All("code", ChangedAll(Items)) \cup All("module", {<<>>, <<"nl">>} \cup {s \o Line \o t : s, t \in Items})
  \cup All("expr", ChangedAll(Expressions) \cup Sums) \cup All("type", ChangedAll(Types))
  \cup All("externs", ChangedAll(Externs) \cup Items \cup {<<>>}) \cup Gained \cup Lost
=============================================================================
