------------------------------- MODULE MoonBack -------------------------------
(***************************************************************************)
(* The back end of Moonlift (src/moonlift/src/lib.rs): a flat program of    *)
(* commands is collected into tables and bodies, the tables are declared to *)
(* a Cranelift module, data objects are laid out, bodies are lowered one by *)
(* one, and the module is linked.  A command is one record, whatever its    *)
(* kind: the names it binds are dsts, the names it reads uses, its blocks   *)
(* dests.  The commands that compute are told apart by how their result is  *)
(* typed: "compute" (type of the first operand), "compare" (I8), "convert"  *)
(* (the given type: casts and loads), "select".                             *)
(***************************************************************************)
EXTENDS Integers, Sequences, FiniteSets

CONSTANTS
  Byte,        \* bits of a byte, and of I8
  Long,        \* bits of I64
  HostSymbols  \* symbols the process has without anyone registering them

ASSUME WidthAssumption == Byte \in 1..8 /\ Long \in Byte..16 /\ Long % Byte = 0

None == <<>>
Some(x) == <<x>>

(* A table with a value put under a key.                                    *)
Put(table, key, value) == [x \in DOMAIN table \cup {key} |-> IF x = key THEN value ELSE table[x]]

Cmd == [k |-> "", id |-> "", sig |-> "", ty |-> "i64", how |-> "", symbol |-> <<>>, dsts |-> <<>>,
        uses |-> <<>>, dests |-> <<>>, cases |-> <<>>, lit |-> None, at |-> 0, size |-> 1,
        align |-> 1, params |-> <<>>, results |-> <<>>]

Declarations == {"createsig", "declaredata", "declarefunc", "declareextern"}
DataInits == {"datazero", "dataint", "datafloat", "databool"}
TopLevel == Declarations \cup DataInits \cup {"finalize"}
Constants == {"constint", "constfloat", "constbool", "constnull"}
Computing == {"compute", "compare", "convert", "select"}
Calls == {"callvalue", "callstmt"}
Inserting == Constants \cup Computing \cup Calls
               \cup {"stackaddr", "dataaddr", "store", "jump", "brif", "switch", "return", "trap"}

Kinds == TopLevel \cup Inserting \cup
           {"begin", "finish", "frem", "createblock", "switchto", "seal", "bindentry", "blockparam", "slot", "alias"}
Binding == Constants \cup Computing \cup {"frem", "stackaddr", "dataaddr", "callvalue", "blockparam", "alias"}

(* The operands each variant of BackCmd has.                                *)
List(s) == s \in Seq({s[i] : i \in DOMAIN s})

Shaped(c) ==
  /\ DOMAIN c = DOMAIN Cmd /\ c.k \in Kinds
  /\ List(c.dsts) /\ List(c.uses) /\ List(c.dests) /\ List(c.cases) /\ List(c.params) /\ List(c.results)
  /\ c.k \in TopLevel \cup {"begin", "finish"} => c.uses = <<>> /\ c.dests = <<>>
  /\ c.k \in Binding => Len(c.dsts) = 1
  /\ c.k \notin Binding \cup {"bindentry"} => c.dsts = <<>>
  /\ c.k \in {"compute", "convert", "alias", "brif", "switch"} => c.uses # <<>>
  /\ c.k = "select" => Len(c.uses) = 3
  /\ c.k \in {"switchto", "seal", "bindentry", "blockparam", "jump", "switch"} => Len(c.dests) = 1
  /\ c.k # "switch" => c.cases = <<>>
  /\ c.k \in Calls => c.how \in {"direct", "extern", "indirect"}
  /\ c.lit \in Seq(Int) /\ \A i \in DOMAIN c.cases : c.cases[i].lit \in Seq(Int)
  /\ c.at \in Nat /\ c.size \in Nat /\ c.align \in Nat

ClifType(ty) ==
  CASE ty \in {"bool", "i8", "u8"} -> "I8" [] ty = "f64" -> "F64" [] OTHER -> "I64"
Bits(ty) == IF ClifType(ty) = "I8" THEN Byte ELSE Long
Signed == {"i8", "i64"}

-----------------------------------------------------------------------------
(* A literal is the number its text stands for, or None.                    *)
Parsed(lit, signed, bits) ==
  LET fits(n) == IF signed THEN -(2^(bits - 1)) <= n /\ n < 2^(bits - 1) ELSE 0 <= n /\ n < 2^bits
  IN  IF lit # None /\ fits(lit[1]) THEN lit ELSE None

Masked(lit, ty) == IF lit = None THEN None ELSE Some(lit[1] % 2^Bits(ty))

(* lower_const_int: parsed as 64 bits whatever the type.                    *)
ConstBits(ty, lit) ==
  IF ty \in {"bool", "f64"} THEN None ELSE Masked(Parsed(lit, ty \in Signed, Long), ty)

(* Bug: only the bits that fit the type are accepted as a case. *)
SwitchBits_Truncates(ty, lit) ==
  CASE ty = "bool" -> IF lit \in {Some(0), Some(1)} THEN lit ELSE None
    [] ty \in {"ptr", "f64"} -> None
    [] OTHER -> IF lit = None THEN None ELSE Some(lit[1] % 2^(Bits(ty) - 1))

(* parse_switch_int_case: parsed as 128 bits, then masked.                  *)
SwitchBits(ty, lit) ==
  CASE ty = "bool" -> IF lit \in {Some(0), Some(1)} THEN lit ELSE None
    [] ty \in {"ptr", "f64"} -> None
    [] ty \in Signed -> Masked(lit, ty)
    [] OTHER -> IF lit # None /\ lit[1] >= 0 THEN Masked(lit, ty) ELSE None

(* What a data initializer writes: bytes, the lowest first.                 *)
InitBytes(c) ==
  LET digits(v, bits) == [i \in 1..(bits \div Byte) |-> (v \div 2^(Byte * (i - 1))) % 2^Byte]
      value == CASE c.k = "dataint" /\ c.ty \notin {"bool", "f64"} -> Masked(Parsed(c.lit, c.ty \in Signed, Bits(c.ty)), c.ty)
                 [] c.k = "datafloat" /\ c.ty = "f64" -> c.lit
                 [] c.k = "databool" -> c.lit
                 [] OTHER -> None
  IN  IF c.k = "datazero" THEN Some([i \in 1..c.size |-> 0])
      ELSE IF value = None THEN None
      ELSE Some(digits(value[1], IF c.k = "databool" THEN Byte ELSE Bits(c.ty)))

(* Bug: memory is zero from the start, so nothing is written. *)
WriteInit_SkipsZero(bytes, c) ==
  LET src == InitBytes(c)
  IN  IF src = None \/ c.at + Len(src[1]) > Len(bytes) THEN None
      ELSE IF c.k = "datazero" THEN Some(bytes)
      ELSE Some([i \in DOMAIN bytes |-> IF i - c.at \in DOMAIN src[1] THEN src[1][i - c.at] ELSE bytes[i]])

(* write_data_init, write_data_bytes.                                       *)
WriteInit(bytes, c) ==
  LET src == InitBytes(c)
  IN  IF src = None \/ c.at + Len(src[1]) > Len(bytes) THEN None
      ELSE Some([i \in DOMAIN bytes |-> IF i - c.at \in DOMAIN src[1] THEN src[1][i - c.at] ELSE bytes[i]])

-----------------------------------------------------------------------------
(* collect: the tables of a program and its bodies.                         *)
Nothing == [sigs |-> <<>>, datas |-> <<>>, funcs |-> <<>>, externs |-> <<>>, inits |-> <<>>,
            bodies |-> <<>>, open |-> None, cmds |-> <<>>, st |-> "ok"]

Refuse(g) == [g EXCEPT !.st = "error"]

(* make_signature.                                                          *)
Signature(c) ==
  [params |-> [i \in DOMAIN c.params |-> ClifType(c.params[i])],
   results |-> [i \in DOMAIN c.results |-> ClifType(c.results[i])]]

AlignOK(align) == \E n \in 0..align : align = 2^n

(* An id may be declared again, but only as it was.                         *)
Once(g, table, id, decl) ==
  IF id \notin DOMAIN g[table] THEN [g EXCEPT ![table] = Put(@, id, decl)]
  ELSE IF g[table][id] = decl THEN g ELSE Refuse(g)

(* collect_global_decl, insert_func_decl: of every command, those in bodies *)
(* included.                                                                *)
GlobalDecl(c, g) ==
  CASE c.k = "createsig" -> IF Len(c.results) > 1 THEN Refuse(g) ELSE Once(g, "sigs", c.id, Signature(c))
    [] c.k = "declaredata" ->
         IF c.size = 0 \/ ~AlignOK(c.align) THEN Refuse(g)
         ELSE Once(g, "datas", c.id, [size |-> c.size, align |-> c.align])
    [] c.k \in DataInits -> IF c.id \in DOMAIN g.datas THEN [g EXCEPT !.inits = Append(@, c)] ELSE Refuse(g)
    [] c.k = "declarefunc" ->
         IF c.sig \in DOMAIN g.sigs THEN Once(g, "funcs", c.id, [sig |-> c.sig, linkage |-> c.how]) ELSE Refuse(g)
    [] c.k = "declareextern" ->
         IF c.sig \in DOMAIN g.sigs THEN Once(g, "externs", c.id, [sig |-> c.sig, symbol |-> c.symbol]) ELSE Refuse(g)
    [] OTHER -> g

HasBody(g) == {g.bodies[i].id : i \in DOMAIN g.bodies}

(* The loop of collect, validate_top_level_cmd.                             *)
CollectCmd(c, g) ==
  IF g.st # "ok" THEN g
  ELSE CASE c.k = "begin" ->
              IF g.open # None \/ c.id \in HasBody(g) THEN Refuse(g)
              ELSE [g EXCEPT !.open = Some(c.id), !.cmds = <<>>]
         [] c.k = "finish" ->
              IF g.open # Some(c.id) THEN Refuse(g)
              ELSE [g EXCEPT !.bodies = Append(@, [id |-> c.id, cmds |-> g.cmds]), !.open = None, !.cmds = <<>>]
         [] OTHER ->
              IF g.open # None THEN [g EXCEPT !.cmds = Append(@, c)]
              ELSE IF c.k \in TopLevel THEN g ELSE Refuse(g)

(* What is collected after each of the commands.                            *)
Collected(cmds) ==
  LET after[i \in 0..Len(cmds)] ==
        IF i = 0 THEN Nothing ELSE CollectCmd(cmds[i], GlobalDecl(cmds[i], after[i - 1]))
  IN  after

(* Bug: a declared function need not have a body. *)
Collect_Bodyless(cmds) ==
  LET g == Collected(cmds)[Len(cmds)] IN IF g.open # None THEN Refuse(g) ELSE g

Collect(cmds) ==
  LET g == Collected(cmds)[Len(cmds)]
  IN  IF g.open # None \/ ~(DOMAIN g.funcs \subseteq HasBody(g)) THEN Refuse(g) ELSE g

(* local_symbol_name: no two functions share a symbol.                      *)
SymbolOf(func) == <<"moonlift_fn", func>>
DataSymbolOf(data) == <<"moonlift_data", data>>

(* declare_all: a Cranelift module takes one signature for a symbol, and no *)
(* function where it has data.                                              *)
DeclareAll(g) ==
  LET declared == {<<g.externs[x].symbol, g.sigs[g.externs[x].sig]>> : x \in DOMAIN g.externs}
                    \cup {<<SymbolOf(f), g.sigs[g.funcs[f].sig]>> : f \in DOMAIN g.funcs}
      ofData == {DataSymbolOf(d) : d \in DOMAIN g.datas}
  IN  IF \/ \E d1, d2 \in declared : d1[1] = d2[1] /\ d1[2] # d2[2]
         \/ \E x \in DOMAIN g.externs : g.externs[x].symbol \in ofData
      THEN Refuse(g) ELSE g

(* The data part of define_all: the bytes of an object after each of the    *)
(* initializers, None when one of its own did not fit.                      *)
Initialize(bytes, c, d) == IF c.id # d \/ bytes = None THEN bytes ELSE WriteInit(bytes[1], c)

Written(inits, size, d) ==
  LET after[i \in 0..Len(inits)] ==
        IF i = 0 THEN Some([n \in 1..size |-> 0]) ELSE Initialize(after[i - 1], inits[i], d)
  IN  after

Contents(g, d) == Written(g.inits, g.datas[d].size, d)[Len(g.inits)]

DefineData(g) == IF \E d \in DOMAIN g.datas : Contents(g, d) = None THEN Refuse(g) ELSE g

-----------------------------------------------------------------------------
(* A FunctionLowerer: names bound to typed values, blocks with their        *)
(* parameters, stack slots, whether a block was switched to, the externs    *)
(* called and the jump tables made.  st is "ok", "error" or "abort": a      *)
(* panic inside Cranelift, which nobody catches on the way to the C caller. *)
Lowerer ==
  [values |-> <<>>, blocks |-> <<>>, slots |-> {}, placed |-> FALSE, externs |-> {}, tables |-> {}, st |-> "ok"]

Ends(e, st) == [e EXCEPT !.st = st]

(* Bug: a value that is bound again takes the new value. *)
BindValue_Rebinds(e, dst, ty) == [e EXCEPT !.values = Put(@, dst, ty)]

BindValue(e, dst, ty) ==
  IF dst \in DOMAIN e.values THEN Ends(e, "error") ELSE [e EXCEPT !.values = Put(@, dst, ty)]

(* One after the other: the lowerer after each of them.                     *)
Bound(e, dsts, tys) ==
  LET after[i \in 0..Len(dsts)] == IF i = 0 THEN e ELSE BindValue(after[i - 1], dsts[i], tys[i])
  IN  after

BindValues(e, dsts, tys) == Bound(e, dsts, tys)[Len(dsts)]

(* The second look at a declaration, from inside the body it stands in.     *)
Redeclared(c, g) ==
  CASE c.k = "createsig" -> c.id \in DOMAIN g.sigs /\ g.sigs[c.id] = Signature(c)
    [] c.k = "declaredata" -> c.id \in DOMAIN g.datas /\ g.datas[c.id] = [size |-> c.size, align |-> c.align]
    [] c.k = "declarefunc" -> c.id \in DOMAIN g.funcs /\ g.funcs[c.id].sig = c.sig
    [] c.k = "declareextern" -> c.id \in DOMAIN g.externs /\ g.externs[c.id] = [sig |-> c.sig, symbol |-> c.symbol]

(* call_direct, call_extern, call_indirect: the callee has the signature    *)
(* the call names.                                                          *)
Callable(c, g) ==
  CASE c.how = "direct" -> c.id \in DOMAIN g.funcs /\ g.funcs[c.id].sig = c.sig
    [] c.how = "extern" -> c.id \in DOMAIN g.externs /\ g.externs[c.id].sig = c.sig
    [] c.how = "indirect" -> c.sig \in DOMAIN g.sigs

CasesDistinct(c) ==
  /\ \A i \in DOMAIN c.cases : SwitchBits(c.ty, c.cases[i].lit) # None
  /\ \A i, j \in DOMAIN c.cases : SwitchBits(c.ty, c.cases[i].lit) = SwitchBits(c.ty, c.cases[j].lit) => i = j

(* Every name the command looks up, and every check it makes, before it     *)
(* adds anything.                                                           *)
Found(c, e, g) ==
  /\ \A i \in DOMAIN c.uses : c.uses[i] \in DOMAIN e.values
  /\ \A i \in DOMAIN c.dests : c.dests[i] \in DOMAIN e.blocks
  /\ \A i \in DOMAIN c.cases : c.cases[i].dest \in DOMAIN e.blocks
  /\ c.k = "stackaddr" => c.id \in e.slots
  /\ c.k = "dataaddr" => c.id \in DOMAIN g.datas
  /\ c.k = "constint" => ConstBits(c.ty, c.lit) # None
  /\ c.k = "constfloat" => c.ty = "f64" /\ c.lit # None
  /\ c.k \in Calls => Callable(c, g)
  /\ c.k = "switch" => e.values[c.uses[1]] = ClifType(c.ty) /\ CasesDistinct(c)

(* The condition of a branch or select is compared with zero before the     *)
(* other names are looked up.                                               *)
FirstPart(c) ==
  IF c.k \in {"brif", "select"} THEN [c EXCEPT !.uses = SubSeq(@, 1, 1), !.dests = <<>>] ELSE c

ResultType(c, e, g) ==
  CASE c.k \in {"compare", "constbool"} -> "I8"
    [] c.k \in {"constint", "constfloat", "convert"} -> ClifType(c.ty)
    [] c.k = "compute" -> e.values[c.uses[1]]
    [] c.k = "select" -> e.values[c.uses[2]]
    [] c.k = "callvalue" -> g.sigs[c.sig].results[1]
    [] OTHER -> "I64"

(* Blocks, slots and names.                                                 *)
Structure(c, e, params) ==
  CASE c.k = "createblock" -> IF c.id \in DOMAIN e.blocks THEN Ends(e, "error") ELSE [e EXCEPT !.blocks = Put(@, c.id, <<>>)]
    [] c.k = "slot" -> IF c.id \in e.slots \/ ~AlignOK(c.align) THEN Ends(e, "error") ELSE [e EXCEPT !.slots = @ \cup {c.id}]
    [] c.k = "switchto" -> [e EXCEPT !.placed = TRUE]
    [] c.k = "seal" -> e
    [] c.k \in {"bindentry", "blockparam"} ->
         LET block == c.dests[1]
             all == e.blocks[block] \o (IF c.k = "bindentry" THEN params ELSE <<ClifType(c.ty)>>)
             new == IF c.k = "bindentry" THEN all ELSE <<ClifType(c.ty)>>
         IN  IF Len(new) # Len(c.dsts) THEN Ends(e, "error")
             ELSE BindValues([e EXCEPT !.blocks[block] = all], c.dsts, new)
    [] c.k = "alias" -> [e EXCEPT !.values = Put(@, c.dsts[1], e.values[c.uses[1]])]

(* Instructions.                                                            *)
Insert(c, e, g) ==
  CASE c.k \in Calls ->
         LET called == IF c.how = "extern" THEN [e EXCEPT !.externs = @ \cup {c.id}] ELSE e
         IN  IF c.k = "callstmt" THEN called
             ELSE IF Len(g.sigs[c.sig].results) # 1 THEN Ends(e, "error")
             ELSE BindValues(called, c.dsts, <<ResultType(c, e, g)>>)
    [] c.k = "switch" ->
         [e EXCEPT !.tables = @ \cup {[ty |-> c.ty, default |-> c.dests[1],
             entries |-> {<<SwitchBits(c.ty, c.cases[i].lit)[1], c.cases[i].dest>> : i \in DOMAIN c.cases}]}]
    [] OTHER -> IF c.dsts # <<>> THEN BindValues(e, c.dsts, <<ResultType(c, e, g)>>) ELSE e

(* lower_cmd: an instruction without a block to add it to is a panic.       *)
LowerCmd(c, e, g, params) ==
  IF e.st # "ok" THEN e
  ELSE IF c.k \in Declarations THEN IF Redeclared(c, g) THEN e ELSE Ends(e, "error")
  ELSE IF c.k \in TopLevel \cup {"begin", "finish", "frem"} \/ ~Found(FirstPart(c), e, g) THEN Ends(e, "error")
  ELSE IF c.k \in Inserting /\ ~e.placed THEN Ends(e, "abort")
  ELSE IF ~Found(c, e, g) THEN Ends(e, "error")
  ELSE IF c.k \in Inserting THEN Insert(c, e, g) ELSE Structure(c, e, params)

(* The lowerer after each of the commands of a body.                        *)
Lowered(cmds, g, params) ==
  LET after[i \in 0..Len(cmds)] ==
        IF i = 0 THEN Lowerer ELSE LowerCmd(cmds[i], after[i - 1], g, params)
  IN  after

(* A body of define_all.                                                    *)
DefineBody(b, g) ==
  IF b.id \notin DOMAIN g.funcs THEN Ends(Lowerer, "error")
  ELSE Lowered(b.cmds, g, g.sigs[g.funcs[b.id].sig].params)[Len(b.cmds)]

(* finalize_definitions and the pointers of an artifact: what is called and *)
(* what is declared has an address, or Cranelift panics.                    *)
Linked(g, called, symbols) ==
  /\ DOMAIN g.funcs \subseteq HasBody(g)
  /\ \A x \in called : g.externs[x].symbol \in symbols \cup HostSymbols \cup {SymbolOf(f) : f \in DOMAIN g.funcs}

(* The bodies of define_all and the artifact, from what lowering each body    *)
(* comes to.  Cranelift's verifier may turn a lowered body down.            *)
CompileBodies(g, lowered, symbols, refuses) ==
  LET bad == {i \in DOMAIN g.bodies : lowered[i].st # "ok"}
      first == CHOOSE i \in bad : \A j \in bad : i <= j
      verified == IF bad = {} THEN DOMAIN g.bodies ELSE 1..(first - 1)
      called == UNION {lowered[i].externs : i \in DOMAIN g.bodies}
  IN  [st |-> CASE g.st # "ok" -> g.st
                [] g.st = "ok" /\ refuses /\ verified # {} -> "error"
                [] g.st = "ok" /\ ~(refuses /\ verified # {}) /\ bad # {} -> lowered[first].st
                [] OTHER -> IF Linked(g, called, symbols) THEN "ok" ELSE "abort",
       funcs |-> DOMAIN g.funcs,
       data |-> [d \in DOMAIN g.datas |-> Contents(g, d)],
       tables |-> [i \in DOMAIN g.bodies |-> lowered[i].tables]]

(* Compiler::compile.                                                       *)
Compile(cmds, symbols, refuses) ==
  LET g == DefineData(DeclareAll(Collect(cmds)))
  IN  CompileBodies(g, [i \in DOMAIN g.bodies |-> DefineBody(g.bodies[i], g)], symbols, refuses)
=============================================================================
