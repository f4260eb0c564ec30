------------------------------- MODULE BackRules -------------------------------
(***************************************************************************)
(* The rules a program of Moonlift back-end commands has to keep, stated    *)
(* over the positions of the whole program: what the passes of MoonBack,    *)
(* which look at one command at a time, are meant to establish.             *)
(***************************************************************************)
EXTENDS MoonBack

Decl(c) ==
  CASE c.k = "createsig" -> Signature(c)
    [] c.k = "declaredata" -> <<c.size, c.align>>
    [] c.k = "declarefunc" -> <<c.sig, c.how>>
    [] c.k = "declareextern" -> <<c.sig, c.symbol>>

(* The ids a kind of command declares anywhere in a program, and the first  *)
(* command that declares one.                                               *)
Ids(p, k) == {p[i].id : i \in {i \in DOMAIN p : p[i].k = k}}
The(p, k, id) == p[CHOOSE i \in DOMAIN p : p[i].k = k /\ p[i].id = id]
Before(p, i, k, id) == \E j \in 1..(i - 1) : p[j].k = k /\ p[j].id = id

DeclarationRules(p) ==
  /\ \A i, j \in DOMAIN p :
       p[i].k \in Declarations /\ p[j].k = p[i].k /\ p[j].id = p[i].id => Decl(p[i]) = Decl(p[j])
  /\ \A i \in DOMAIN p :
       /\ p[i].k = "createsig" => Len(p[i].results) <= 1
       /\ p[i].k = "declaredata" => p[i].size > 0 /\ AlignOK(p[i].align)
       /\ p[i].k \in DataInits => Before(p, i, "declaredata", p[i].id)
       /\ p[i].k \in {"declarefunc", "declareextern"} => Before(p, i, "createsig", p[i].sig)

DataRules(p) ==
  \A i \in DOMAIN p : p[i].k \in DataInits =>
    /\ InitBytes(p[i]) # None
    /\ p[i].at + Len(InitBytes(p[i])[1]) <= The(p, "declaredata", p[i].id).size

-----------------------------------------------------------------------------
(* A body is what stands between a begin and the next begin or finish.      *)
Begins(p) == {i \in DOMAIN p : p[i].k = "begin"}
EndOf(p, b) ==
  LET later == {j \in (b + 1)..Len(p) : p[j].k \in {"begin", "finish"}}
  IN  IF later = {} THEN Len(p) + 1 ELSE CHOOSE j \in later : \A l \in later : j <= l
Inside(p, i) == \E b \in Begins(p) : b < i /\ i < EndOf(p, b)
BodyOf(p, b) == SubSeq(p, b + 1, EndOf(p, b) - 1)

NestingRules(p) ==
  /\ \A b \in Begins(p) :
       /\ EndOf(p, b) \in DOMAIN p
       /\ p[EndOf(p, b)].k = "finish" /\ p[EndOf(p, b)].id = p[b].id
       /\ \A c \in Begins(p) : p[b].id = p[c].id => b = c
  /\ \A i \in DOMAIN p : p[i].k = "finish" => \E b \in Begins(p) : EndOf(p, b) = i
  /\ \A i \in DOMAIN p : p[i].k \notin TopLevel \cup {"begin", "finish"} => Inside(p, i)
  /\ \A i \in DOMAIN p : p[i].k \in DataInits \cup {"finalize"} => ~Inside(p, i)
  /\ Ids(p, "declarefunc") = {p[b].id : b \in Begins(p)}

-----------------------------------------------------------------------------
BindsAt(q, i, name) == \E d \in DOMAIN q[i].dsts : q[i].dsts[d] = name

(* The last command before position i that gives the name a value.          *)
Binder(q, i, name) ==
  LET js == {j \in 1..(i - 1) : BindsAt(q, j, name)}
  IN  IF js = {} THEN 0 ELSE CHOOSE j \in js : \A l \in js : l <= j

(* The types of the parameters a block has after each of the commands.      *)
ParamTypes(q, params, block) ==
  LET after[i \in 0..Len(q)] ==
        IF i = 0 THEN <<>>
        ELSE after[i - 1] \o
               IF q[i].dests # <<block>> THEN <<>>
               ELSE CASE q[i].k = "bindentry" -> params
                      [] q[i].k = "blockparam" -> <<ClifType(q[i].ty)>>
                      [] OTHER -> <<>>
  IN  after

(* The types of the values each command of a body gives to names.           *)
GivenTypes(p, q, params) ==
  LET given[i \in 0..Len(q)] ==
        LET c == q[i]
            of(name) == given[Binder(q, i, name)][name]
        IN  IF i = 0 THEN <<>>
            ELSE [name \in {c.dsts[d] : d \in DOMAIN c.dsts} |->
                   CASE c.k \in {"compare", "constbool"} -> "I8"
                     [] c.k \in {"constint", "constfloat", "convert", "blockparam"} -> ClifType(c.ty)
                     [] c.k \in {"compute", "alias"} -> of(c.uses[1])
                     [] c.k = "select" -> of(c.uses[2])
                     [] c.k = "callvalue" -> ClifType(The(p, "createsig", c.sig).results[1])
                     [] c.k = "bindentry" ->
                          ParamTypes(q, params, c.dests[1])[i][CHOOSE d \in DOMAIN c.dsts : c.dsts[d] = name]
                     [] OTHER -> "I64"]
  IN  given

(* The type of a name before position i of a body: the last command that    *)
(* gave it a value decides.                                                 *)
TypeAt(p, q, params, i, name) == GivenTypes(p, q, params)[Binder(q, i, name)][name]

(* Every name is bound before it is read.  It is bound once, except that an *)
(* alias may stand for something new.                                       *)
NameRules(q) ==
  \A i \in DOMAIN q :
    /\ \A u \in DOMAIN q[i].uses : \E j \in 1..(i - 1) : BindsAt(q, j, q[i].uses[u])
    /\ q[i].k # "alias" =>
         \A d \in DOMAIN q[i].dsts :
           /\ \A j \in 1..(i - 1) : ~BindsAt(q, j, q[i].dsts[d])
           /\ \A d2 \in DOMAIN q[i].dsts : q[i].dsts[d] = q[i].dsts[d2] => d = d2

(* Blocks and slots are created once and before they are named; every       *)
(* instruction has a block to go to; entry values are all the block's       *)
(* parameters, those of the function last.                                  *)
BlockRules(q, params) ==
  \A i \in DOMAIN q :
    /\ q[i].k \in {"createblock", "slot"} => ~Before(q, i, q[i].k, q[i].id)
    /\ q[i].k = "slot" => AlignOK(q[i].align)
    /\ q[i].k = "stackaddr" => Before(q, i, "slot", q[i].id)
    /\ \A d \in DOMAIN q[i].dests : Before(q, i, "createblock", q[i].dests[d])
    /\ \A d \in DOMAIN q[i].cases : Before(q, i, "createblock", q[i].cases[d].dest)
    /\ q[i].k \in Inserting => \E j \in 1..(i - 1) : q[j].k = "switchto"
    /\ q[i].k = "bindentry" => Len(q[i].dsts) = Len(ParamTypes(q, params, q[i].dests[1])[i])

(* A call names a callee and the signature it was declared with.            *)
CallRules(p, q) ==
  \A i \in DOMAIN q : q[i].k \in Calls =>
    /\ q[i].sig \in Ids(p, "createsig")
    /\ q[i].how = "direct" => q[i].id \in Ids(p, "declarefunc") /\ The(p, "declarefunc", q[i].id).sig = q[i].sig
    /\ q[i].how = "extern" => q[i].id \in Ids(p, "declareextern") /\ The(p, "declareextern", q[i].id).sig = q[i].sig
    /\ q[i].k = "callvalue" => Len(The(p, "createsig", q[i].sig).results) = 1

(* Literals are of their types, and no two cases of a switch are the same.  *)
ValueRules(p, q, params) ==
  \A i \in DOMAIN q :
    /\ q[i].k # "frem"
    /\ q[i].k = "constint" => ConstBits(q[i].ty, q[i].lit) # None
    /\ q[i].k = "constfloat" => q[i].ty = "f64" /\ q[i].lit # None
    /\ q[i].k = "dataaddr" => q[i].id \in Ids(p, "declaredata")
    /\ q[i].k = "switch" => CasesDistinct(q[i]) /\ TypeAt(p, q, params, i, q[i].uses[1]) = ClifType(q[i].ty)

(* Externs that are called exist; a symbol has one signature and is         *)
(* not that of data.                                                        *)
SymbolRules(p, symbols) ==
  LET sig(c) == Signature(The(p, "createsig", c.sig))
      own == {SymbolOf(f) : f \in Ids(p, "declarefunc")}
  IN  \A i \in DOMAIN p :
        /\ p[i].k = "declareextern" =>
             \A j \in DOMAIN p :
               /\ p[j].k = "declareextern" /\ p[i].symbol = p[j].symbol => sig(p[i]) = sig(p[j])
               /\ p[j].k = "declarefunc" /\ p[i].symbol = SymbolOf(p[j].id) => sig(p[i]) = sig(p[j])
               /\ p[j].k = "declaredata" => p[i].symbol # DataSymbolOf(p[j].id)
        /\ p[i].k \in Calls /\ p[i].how = "extern" =>
             The(p, "declareextern", p[i].id).symbol \in symbols \cup HostSymbols \cup own

WellFormed(p, symbols) ==
  /\ DeclarationRules(p) /\ DataRules(p) /\ NestingRules(p)
  /\ \A b \in Begins(p) :
       LET q == BodyOf(p, b)
           params == Signature(The(p, "createsig", The(p, "declarefunc", p[b].id).sig)).params
       IN  NameRules(q) /\ BlockRules(q, params) /\ CallRules(p, q) /\ ValueRules(p, q, params)
  /\ SymbolRules(p, symbols)
=============================================================================
