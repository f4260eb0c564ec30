-------------------------------- MODULE MoonFfi --------------------------------
(***************************************************************************)
(* The C interface of Moonlift (src/moonlift/src/ffi.rs): a host makes a    *)
(* jit, registers symbols, pushes the commands of a program one call at a   *)
(* time, compiles what it has pushed and asks the artifact for pointers.    *)
(* Every call reports success or failure and leaves a message for its       *)
(* thread; a panic in a call takes the process down.                        *)
(***************************************************************************)
EXTENDS BackRules

CONSTANTS
  Thread,
  Symbols,     \* what the host may register
  Sessions     \* what a host sets out to do: [cmds, threads, careless]

ASSUME SessionAssumption ==
  \A s \in Sessions :
    /\ s.threads \subseteq Thread
    /\ List(s.cmds) /\ \A i \in DOMAIN s.cmds : Shaped(s.cmds[i])

VARIABLES
  session,
  jit,         \* None, or the symbols registered
  program,     \* None, or the commands pushed so far
  artifact,    \* None, or the commands compiled and the code made
  asked,       \* the last compile of the commands as they are: [symbols, refuses, st]
  error,       \* thread -> LAST_ERROR, "ok" or a message
  shown,       \* thread -> whether its last call that reports succeeded
  caller,      \* the thread that reported last
  up           \* the process runs

vars == <<session, jit, program, artifact, asked, error, shown, caller, up>>
handles == <<jit, program, artifact>>

Init ==
  /\ session \in Sessions
  /\ jit = None /\ program = None /\ artifact = None /\ asked = None
  /\ error = [t \in Thread |-> "ok"] /\ shown = [t \in Thread |-> TRUE]
  /\ caller \in Thread /\ up = TRUE

-----------------------------------------------------------------------------
(* ok_int, fail_int, fail_ptr, clear_last_error: a message for this thread. *)
Report(t, ok) ==
  /\ error' = [error EXCEPT ![t] = IF ok THEN "ok" ELSE "message"]
  /\ shown' = [shown EXCEPT ![t] = ok]
  /\ caller' = t

(* A null pointer, a string that is not UTF-8, or a code nobody knows.      *)
BadArguments == session.careless

NewJit(t) ==
  /\ jit = None
  /\ jit' = Some({}) /\ Report(t, TRUE)
  /\ UNCHANGED <<session, program, artifact, asked, up>>

NewProgram(t) ==
  /\ program = None
  /\ program' = Some(<<>>) /\ Report(t, TRUE)
  /\ UNCHANGED <<session, jit, artifact, asked, up>>

(* The free functions report nothing.                                       *)
FreeJit ==
  /\ jit # None /\ jit' = None
  /\ UNCHANGED <<session, program, artifact, asked, error, shown, caller, up>>

FreeProgram ==
  /\ program # None /\ program' = None /\ asked' = None
  /\ UNCHANGED <<session, jit, artifact, error, shown, caller, up>>

FreeArtifact ==
  /\ artifact # None /\ artifact' = None
  /\ UNCHANGED <<session, jit, program, asked, error, shown, caller, up>>

RegisterSymbol(t, s) ==
  \E good \in BOOLEAN :
    /\ IF good THEN jit # None /\ s \notin jit[1] ELSE BadArguments
    /\ jit' = IF good THEN Some(jit[1] \cup {s}) ELSE jit
    /\ Report(t, good)
    /\ UNCHANGED <<session, program, artifact, asked, up>>

(* Bug: the command is pushed before its arguments are read. *)
Push_Early(t, kinds) ==
  /\ program # None /\ Len(program[1]) < Len(session.cmds)
  /\ LET c == session.cmds[Len(program[1]) + 1]
     IN  \E good \in BOOLEAN :
           /\ c.k \in kinds /\ (good \/ BadArguments)
           /\ program' = Some(Append(program[1], c))
           /\ asked' = None
           /\ Report(t, good)
  /\ UNCHANGED <<session, jit, artifact, up>>

(* The command is pushed when all of its arguments have been read.          *)
Push(t, kinds) ==
  /\ program # None /\ Len(program[1]) < Len(session.cmds)
  /\ LET c == session.cmds[Len(program[1]) + 1]
     IN  \E good \in BOOLEAN :
           /\ c.k \in kinds /\ (good \/ BadArguments)
           /\ program' = IF good THEN Some(Append(program[1], c)) ELSE program
           /\ asked' = IF good THEN None ELSE asked
           /\ Report(t, good)
  /\ UNCHANGED <<session, jit, artifact, up>>

PushDeclaration(t) == Push(t, Declarations \cup DataInits)
PushStructure(t) ==
  Push(t, {"begin", "createblock", "switchto", "seal", "bindentry", "blockparam", "slot", "alias"})
PushConstant(t) == Push(t, Constants \cup {"stackaddr", "dataaddr"})
PushArithmetic(t) == Push(t, {"compute", "compare", "frem"})
PushMemory(t) == Push(t, {"convert", "select", "store"})
PushCall(t) == Push(t, Calls)
PushFlow(t) == Push(t, {"jump", "brif", "switch", "return", "trap", "finish", "finalize"})

(* moonlift_jit_compile: the program stays the host's.  After a panic there *)
(* is no process to report to.                                              *)
CompileProgram(t) ==
  /\ jit # None /\ program # None /\ artifact = None /\ asked = None
  /\ \E refuses \in BOOLEAN :
       LET code == Compile(program[1], jit[1], refuses)
       IN  /\ asked' = Some([symbols |-> jit[1], refuses |-> refuses, st |-> code.st])
           /\ artifact' = IF code.st = "ok" THEN Some([cmds |-> program[1], code |-> code]) ELSE None
           /\ IF code.st = "abort"
              THEN up' = FALSE /\ UNCHANGED <<error, shown, caller>>
              ELSE up' = up /\ Report(t, code.st = "ok")
  /\ UNCHANGED <<session, jit, program>>

CompileNull(t) ==
  /\ BadArguments \/ jit = None \/ program = None
  /\ Report(t, FALSE)
  /\ UNCHANGED <<session, jit, program, artifact, asked, up>>

(* moonlift_artifact_getpointer: the functions of the artifact, local or    *)
(* exported.                                                                *)
GetPointer(t, f) ==
  /\ Report(t, artifact # None /\ f \in artifact[1].code.funcs)
  /\ UNCHANGED <<session, jit, program, artifact, asked, up>>

Functions == Ids(session.cmds, "declarefunc") \cup Ids(session.cmds, "declareextern")

Next ==
  /\ up
  /\ \/ \E t \in session.threads :
          \/ NewJit(t) \/ NewProgram(t) \/ CompileProgram(t) \/ CompileNull(t)
          \/ PushDeclaration(t) \/ PushStructure(t) \/ PushConstant(t)
          \/ PushArithmetic(t) \/ PushMemory(t) \/ PushCall(t) \/ PushFlow(t)
          \/ \E s \in Symbols : RegisterSymbol(t, s)
          \/ \E f \in Functions : GetPointer(t, f)
     \/ FreeJit \/ FreeProgram \/ FreeArtifact

FfiSpec == Init /\ [][Next]_vars

-----------------------------------------------------------------------------
(* A program compiles exactly when it keeps the rules, the declarations and *)
(* bodies taken as a whole: what the pass over the commands and the lowering*)
(* of the bodies let through, each looking at one command at a time, is what *)
(* the rules allow (Cranelift's verifier may refuse some of it).            *)
AcceptsExactly ==
  asked # None =>
    LET fits == WellFormed(program[1], asked[1].symbols)
    IN  /\ asked[1].st = "ok" => fits
        /\ fits /\ ~asked[1].refuses => asked[1].st = "ok"

(* The process goes down only for an instruction with no block to go to or  *)
(* an extern that nobody defined; every other mistake is reported.          *)
AbortsExplained ==
  ~up =>
    LET p == program[1]
    IN  \/ \E b \in Begins(p) : \E i \in DOMAIN BodyOf(p, b) :
             LET q == BodyOf(p, b)
             IN  q[i].k \in Inserting /\ \A j \in 1..(i - 1) : q[j].k # "switchto"
        \/ \E i \in DOMAIN p : p[i].k = "declareextern" /\ p[i].symbol \notin asked[1].symbols \cup HostSymbols

(* Each byte of a data object is what the last initializer that covers it   *)
(* wrote, wherever the declarations and initializers stand.                 *)
DataExact ==
  artifact # None =>
    LET p == artifact[1].cmds
        covering(d, i) == {j \in DOMAIN p : p[j].k \in DataInits /\ p[j].id = d /\ i - p[j].at \in DOMAIN InitBytes(p[j])[1]}
        bytes(d) == artifact[1].code.data[d][1]
    IN  \A d \in DOMAIN artifact[1].code.data : \A i \in DOMAIN bytes(d) :
          LET js == covering(d, i)
              last == CHOOSE j \in js : \A j2 \in js : j2 <= j
          IN  bytes(d)[i] = IF js = {} THEN 0 ELSE InitBytes(p[last])[1][i - p[last].at]

(* A switch of an artifact sends every value of its type to the one case    *)
(* that stands for it, and the other values to the default: literals that   *)
(* wrap to the same bits are never two cases.                               *)
SwitchesDispatch ==
  artifact # None =>
    LET p == artifact[1].cmds
        nth(b) == Cardinality({a \in Begins(p) : a <= b})
        wraps(c, i, v) == c.cases[i].lit[1] % 2^Bits(c.ty) = v
        dispatches(c, table) ==
          /\ table.default = c.dests[1]
          /\ \A v \in 0..(2^Bits(c.ty) - 1) :
               {x[2] : x \in {x \in table.entries : x[1] = v}} = {c.cases[i].dest : i \in {i \in DOMAIN c.cases : wraps(c, i, v)}}
          /\ \A i, j \in DOMAIN c.cases : \A v \in 0..(2^Bits(c.ty) - 1) : wraps(c, i, v) /\ wraps(c, j, v) => i = j
    IN  \A b \in Begins(p) : \A i \in DOMAIN BodyOf(p, b) :
          LET c == BodyOf(p, b)[i]
          IN  c.k = "switch" => \E table \in artifact[1].code.tables[nth(b)] : dispatches(c, table)

(* A call that reports failure leaves the jit, the program and the artifact *)
(* as they were: no half-read command is pushed, and the host may retry.    *)
RefusedChangesNothing == [][up' /\ ~shown'[caller'] => FreeJit \/ FreeProgram \/ FreeArtifact \/ UNCHANGED handles]_vars
=============================================================================
