-------------------- MODULE MoonFfi_proofs --------------------
(***************************************************************************)
(* The C interface: whatever hosts call in whatever order, what the         *)
(* interface answers, makes and leaves alone is what MoonFfi promises. The  *)
(* invariant says where the program, the answer and the artifact come from; *)
(* what they are is MoonBack_proofs.                                        *)
(***************************************************************************)
EXTENDS MoonFfi, MoonBack_proofs

(* Types; the program is of commands as the interface makes them. *)
Handles ==
  /\ session \in Sessions /\ caller \in Thread /\ up \in BOOLEAN
  /\ shown \in [Thread -> BOOLEAN]
  /\ jit # None => jit = Some(jit[1]) /\ jit[1] \subseteq Symbols
  /\ program # None => program = Some(program[1]) /\ WellShaped(program[1])

(* Code is what some compile made of commands. *)
Compiled(cmds, code) ==
  /\ WellShaped(cmds) /\ code.st = "ok"
  /\ \E symbols \in SUBSET Symbols : \E refuses \in BOOLEAN : code = Compile(cmds, symbols, refuses)

(* The answer on record is that of a compile of the commands as they are. *)
Answered ==
  asked # None =>
    /\ program # None /\ asked = Some(asked[1]) /\ asked[1].refuses \in BOOLEAN
    /\ asked[1].st = Compile(program[1], asked[1].symbols, asked[1].refuses).st

(* An artifact is what a compile has made. *)
Made == artifact # None => artifact = Some(artifact[1]) /\ Compiled(artifact[1].cmds, artifact[1].code)

(* Only a panic takes the process down. *)
Down == ~up => asked # None /\ asked[1].st = "abort"

(* The inductive invariant. *)
Inductive == Handles /\ Answered /\ Made /\ Down

(* Init establishes the invariant. *)
LEMMA Begun == Init => Inductive
<1>. SUFFICES ASSUME Init PROVE Inductive
  OBVIOUS
<1>1. [t \in Thread |-> TRUE] \in [Thread -> BOOLEAN]
  OBVIOUS
<1>. QED BY <1>1 DEF Init, Inductive, Handles, Answered, Made, Down

(* A report is of one thread, and of this call. *)
LEMMA Reported ==
  ASSUME shown \in [Thread -> BOOLEAN], NEW t \in Thread, NEW ok \in BOOLEAN, Report(t, ok)
  PROVE  shown' \in [Thread -> BOOLEAN] /\ caller' \in Thread /\ shown'[caller'] = ok
BY DEF Report

(* Pushing a command: whole, or not at all. *)
LEMMA PushedKeeps ==
  ASSUME Inductive, up, NEW t \in Thread, NEW kinds, Push(t, kinds)
  PROVE  /\ Inductive'
         /\ ~shown'[caller'] => UNCHANGED handles
<1>. DEFINE c == session.cmds[Len(program[1]) + 1]
<1>0. Handles /\ Answered /\ Made /\ Down
  BY DEF Inductive
<1>1. PICK good \in BOOLEAN :
        /\ program' = IF good THEN Some(Append(program[1], c)) ELSE program
        /\ asked' = IF good THEN None ELSE asked
        /\ Report(t, good)
  BY Zenon DEF Push
<1>2. program # None /\ Len(program[1]) < Len(session.cmds) /\ UNCHANGED <<session, jit, artifact, up>>
  BY DEF Push
<1>3. program = Some(program[1]) /\ WellShaped(program[1])
  BY <1>0, <1>2 DEF Handles
<1>4. Shaped(c)
  <2>1. List(session.cmds) /\ \A i \in DOMAIN session.cmds : Shaped(session.cmds[i])
    BY <1>0, SessionAssumption DEF Handles
  <2>2. Len(program[1]) \in Nat /\ Len(session.cmds) \in Nat /\ DOMAIN session.cmds = 1..Len(session.cmds)
    BY <1>3, <2>1, ListFacts DEF WellShaped
  <2>3. Len(program[1]) + 1 \in DOMAIN session.cmds
    BY <1>2, <2>2
  <2>. QED BY <2>1, <2>3
<1>. HIDE DEF c
<1>5. WellShaped(Append(program[1], c))
  <2>. DEFINE s == program[1]
             r == Append(s, c)
  <2>1. List(s) /\ \A i \in DOMAIN s : Shaped(s[i])
    BY <1>3 DEF WellShaped
  <2>. HIDE DEF s
  <2>2. List(r) /\ Len(r) = Len(s) + 1 /\ r[Len(s) + 1] = c /\ \A i \in 1..Len(s) : r[i] = s[i]
    BY <2>1, ListAppend
  <2>. HIDE DEF r
  <2>3. Len(s) \in Nat /\ DOMAIN s = 1..Len(s) /\ DOMAIN r = 1..(Len(s) + 1)
    BY <2>1, <2>2, ListFacts
  <2>4. \A i \in 1..(Len(s) + 1) : i = Len(s) + 1 \/ i \in 1..Len(s)
    BY <2>3
  <2>5. \A i \in DOMAIN r : Shaped(r[i])
    BY <1>4, <2>1, <2>2, <2>3, <2>4
  <2>6. WellShaped(r)
    BY <2>2, <2>5 DEF WellShaped
  <2>. QED BY <2>6 DEF r, s
<1>6. shown' \in [Thread -> BOOLEAN] /\ caller' \in Thread /\ shown'[caller'] = good
  BY <1>0, <1>1, Reported DEF Handles
<1>7. CASE good
  <2>1. program' = Some(Append(program[1], c)) /\ asked' = None
    BY <1>1, <1>7
  <2>2. program'[1] = Append(program[1], c) /\ program' # None
    BY <2>1, SomeFacts
  <2>3. program' = Some(program'[1]) /\ WellShaped(program'[1])
    BY <1>5, <2>1, <2>2
  <2>4. Handles'
    BY <1>0, <1>2, <1>6, <2>3 DEF Handles
  <2>5. Answered' /\ Made'
    BY <1>0, <1>2, <2>1 DEF Answered, Made
  <2>6. Down'
    BY <1>0, <1>2, <2>1 DEF Down
  <2>. QED BY <1>6, <1>7, <2>4, <2>5, <2>6 DEF Inductive
<1>8. CASE ~good
  <2>1. UNCHANGED <<session, jit, program, artifact, asked, up>>
    BY <1>1, <1>2, <1>8
  <2>2. Handles' /\ Answered' /\ Made' /\ Down'
    BY <1>0, <1>6, <2>1 DEF Handles, Answered, Made, Down
  <2>. QED BY <2>1, <2>2 DEF Inductive, handles
<1>. QED BY <1>7, <1>8

(* Compiling what has been pushed. *)
LEMMA CompileKeeps ==
  ASSUME Inductive, up, NEW t \in Thread, CompileProgram(t)
  PROVE  /\ Inductive'
         /\ up' /\ ~shown'[caller'] => UNCHANGED handles
<1>0. Handles /\ Answered /\ Made /\ Down
  BY DEF Inductive
<1>1. PICK refuses \in BOOLEAN :
        LET code == Compile(program[1], jit[1], refuses)
        IN  /\ asked' = Some([symbols |-> jit[1], refuses |-> refuses, st |-> code.st])
            /\ artifact' = IF code.st = "ok" THEN Some([cmds |-> program[1], code |-> code]) ELSE None
            /\ IF code.st = "abort"
               THEN up' = FALSE /\ UNCHANGED <<error, shown, caller>>
               ELSE up' = up /\ Report(t, code.st = "ok")
  BY Zenon DEF CompileProgram
<1>. DEFINE code == Compile(program[1], jit[1], refuses)
            answer == [symbols |-> jit[1], refuses |-> refuses, st |-> code.st]
            result == [cmds |-> program[1], code |-> code]
<1>2. jit # None /\ program # None /\ artifact = None /\ asked = None /\ UNCHANGED <<session, jit, program>>
  BY DEF CompileProgram
<1>3. WellShaped(program[1]) /\ jit[1] \in SUBSET Symbols
  BY <1>0, <1>2 DEF Handles
<1>4. /\ asked' = Some(answer) /\ answer.refuses = refuses /\ answer.symbols = jit[1] /\ answer.st = code.st
      /\ artifact' = IF code.st = "ok" THEN Some(result) ELSE None
      /\ result.cmds = program[1] /\ result.code = code
      /\ code.st = "abort" => up' = FALSE /\ UNCHANGED <<shown, caller>>
      /\ code.st # "abort" => up' = up /\ Report(t, code.st = "ok")
  BY <1>1
<1>5. code.st \in States
  BY <1>3, CompileExact
<1>6. code.st = "ok" => Compiled(result.cmds, result.code)
  BY <1>3, <1>4 DEF Compiled
<1>. HIDE DEF answer, result
<1>7. asked' # None /\ asked'[1] = answer
  BY <1>4, SomeFacts
<1>8. Answered'
  BY <1>2, <1>4, <1>7 DEF Answered
<1>. HIDE DEF code
<1>9. Made'
  <2>1. CASE code.st = "ok"
    <3>1. artifact' = Some(result) /\ artifact'[1] = result
      BY <1>4, <2>1, SomeFacts
    <3>. QED BY <1>6, <2>1, <3>1 DEF Made
  <2>2. CASE code.st # "ok"
    BY <1>4, <2>2 DEF Made
  <2>. QED BY <2>1, <2>2
<1>10. CASE code.st = "abort"
  <2>1. up' = FALSE /\ shown' = shown /\ caller' = caller
    BY <1>4, <1>10
  <2>2. Down'
    BY <1>4, <1>7, <1>10 DEF Down
  <2>3. Handles'
    BY <1>0, <1>2, <2>1 DEF Handles
  <2>. QED BY <1>8, <1>9, <2>1, <2>2, <2>3 DEF Inductive
<1>11. CASE code.st # "abort"
  <2>1. shown' \in [Thread -> BOOLEAN] /\ caller' \in Thread /\ shown'[caller'] = (code.st = "ok")
    <3>. DEFINE ok == code.st = "ok"
    <3>1. ok \in BOOLEAN /\ Report(t, ok) /\ shown \in [Thread -> BOOLEAN]
      BY <1>0, <1>4, <1>11 DEF Handles
    <3>. HIDE DEF ok
    <3>2. shown' \in [Thread -> BOOLEAN] /\ caller' \in Thread /\ shown'[caller'] = ok
      BY <3>1, Reported
    <3>. QED BY <3>2 DEF ok
  <2>2. Handles' /\ Down'
    BY <1>0, <1>2, <1>4, <1>11, <2>1 DEF Handles, Down
  <2>3. ~shown'[caller'] => UNCHANGED handles
    BY <1>2, <1>4, <2>1 DEF handles
  <2>. QED BY <1>8, <1>9, <2>2, <2>3 DEF Inductive
<1>. QED BY <1>10, <1>11

(* The calls that report nothing. *)
Frees == FreeJit \/ FreeProgram \/ FreeArtifact

(* Every call keeps the invariant, and one that reports failure leaves the  *)
(* jit, the program and the artifact as they were.                          *)
LEMMA StepKeeps ==
  ASSUME Inductive, [Next]_vars
  PROVE  Inductive' /\ (up' /\ ~shown'[caller'] => Frees \/ UNCHANGED handles)
<1>0. Handles /\ Answered /\ Made /\ Down
  BY DEF Inductive
<1>1. session.threads \subseteq Thread
  BY <1>0, SessionAssumption DEF Handles
<1>2. CASE UNCHANGED vars
  <2>1. Inductive'
    BY <1>0, <1>2 DEF vars, Inductive, Handles, Answered, Made, Down
  <2>. QED BY <1>2, <2>1 DEF vars, handles
<1>3. ASSUME up, NEW t \in Thread, NewJit(t)
      PROVE  Inductive' /\ ~(~shown'[caller'])
  <2>1. jit' = Some({}) /\ Report(t, TRUE) /\ UNCHANGED <<session, program, artifact, asked, up>>
    BY <1>3 DEF NewJit
  <2>2. shown' \in [Thread -> BOOLEAN] /\ caller' \in Thread /\ shown'[caller'] = TRUE
    BY <1>0, <2>1, Reported DEF Handles
  <2>3. jit'[1] = {}
    BY <2>1, SomeFacts
  <2>4. Handles' /\ Answered' /\ Made' /\ Down'
    BY <1>0, <2>1, <2>2, <2>3 DEF Handles, Answered, Made, Down
  <2>. QED BY <2>2, <2>4 DEF Inductive
<1>4. ASSUME up, NEW t \in Thread, NewProgram(t)
      PROVE  Inductive' /\ ~(~shown'[caller'])
  <2>1. program = None /\ program' = Some(<<>>) /\ Report(t, TRUE) /\ UNCHANGED <<session, jit, artifact, asked, up>>
    BY <1>4 DEF NewProgram
  <2>2. shown' \in [Thread -> BOOLEAN] /\ caller' \in Thread /\ shown'[caller'] = TRUE
    BY <1>0, <2>1, Reported DEF Handles
  <2>3. program'[1] = <<>>
    BY <2>1, SomeFacts
  <2>4. WellShaped(<<>>)
    BY DEF WellShaped, List
  <2>5. asked' = None
    BY <1>0, <2>1 DEF Answered
  <2>6. Handles' /\ Answered' /\ Made' /\ Down'
    BY <1>0, <1>4, <2>1, <2>2, <2>3, <2>4, <2>5 DEF Handles, Answered, Made, Down
  <2>. QED BY <2>2, <2>6 DEF Inductive
<1>5. ASSUME up, NEW t \in Thread, NEW s \in Symbols, RegisterSymbol(t, s)
      PROVE  Inductive' /\ (~shown'[caller'] => UNCHANGED handles)
  <2>1. PICK good \in BOOLEAN :
          /\ good => jit # None
          /\ jit' = IF good THEN Some(jit[1] \cup {s}) ELSE jit
          /\ Report(t, good) /\ UNCHANGED <<session, program, artifact, asked, up>>
    BY <1>5 DEF RegisterSymbol
  <2>2. shown' \in [Thread -> BOOLEAN] /\ caller' \in Thread /\ shown'[caller'] = good
    BY <1>0, <2>1, Reported DEF Handles
  <2>3. jit' # None => jit' = Some(jit'[1]) /\ jit'[1] \subseteq Symbols
    <3>1. CASE good
      <4>1. jit' = Some(jit[1] \cup {s}) /\ jit'[1] = jit[1] \cup {s} /\ jit[1] \subseteq Symbols
        BY <1>0, <2>1, <3>1, SomeFacts DEF Handles
      <4>. QED BY <4>1
    <3>2. CASE ~good
      BY <1>0, <2>1, <3>2 DEF Handles
    <3>. QED BY <3>1, <3>2
  <2>4. Handles' /\ Answered' /\ Made' /\ Down'
    BY <1>0, <2>1, <2>2, <2>3 DEF Handles, Answered, Made, Down
  <2>. QED BY <2>1, <2>2, <2>4 DEF Inductive, handles
<1>6. ASSUME up, NEW t \in Thread, NEW ok \in BOOLEAN, Report(t, ok), UNCHANGED <<session, jit, program, artifact, asked, up>>
      PROVE  Inductive' /\ UNCHANGED handles
  <2>1. shown' \in [Thread -> BOOLEAN] /\ caller' \in Thread
    BY <1>0, <1>6, Reported DEF Handles
  <2>2. Handles' /\ Answered' /\ Made' /\ Down'
    BY <1>0, <1>6, <2>1 DEF Handles, Answered, Made, Down
  <2>. QED BY <1>6, <2>2 DEF Inductive, handles
<1>7. ASSUME up, NEW t \in Thread, CompileNull(t)
      PROVE  Inductive' /\ UNCHANGED handles
  BY <1>6, <1>7 DEF CompileNull
<1>8. ASSUME up, NEW t \in Thread, NEW f, GetPointer(t, f)
      PROVE  Inductive' /\ UNCHANGED handles
  <2>. DEFINE ok == artifact # None /\ f \in artifact[1].code.funcs
  <2>1. ok \in BOOLEAN /\ Report(t, ok) /\ UNCHANGED <<session, jit, program, artifact, asked, up>>
    BY <1>8 DEF GetPointer
  <2>. HIDE DEF ok
  <2>. QED BY <1>6, <1>8, <2>1
<1>9. ASSUME up, Frees
      PROVE  Inductive'
  <2>1. CASE FreeJit
    BY <1>0, <2>1 DEF FreeJit, Inductive, Handles, Answered, Made, Down
  <2>2. CASE FreeProgram
    BY <1>0, <1>9, <2>2 DEF FreeProgram, Inductive, Handles, Answered, Made, Down
  <2>3. CASE FreeArtifact
    BY <1>0, <2>3 DEF FreeArtifact, Inductive, Handles, Answered, Made, Down
  <2>. QED BY <1>9, <2>1, <2>2, <2>3 DEF Frees
<1>10. ASSUME up, NEW t \in Thread, NEW kinds, Push(t, kinds)
       PROVE  Inductive' /\ (~shown'[caller'] => UNCHANGED handles)
  BY <1>10, PushedKeeps
<1>11. ASSUME up, NEW t \in Thread,
              \/ PushDeclaration(t) \/ PushStructure(t) \/ PushConstant(t)
              \/ PushArithmetic(t) \/ PushMemory(t) \/ PushCall(t) \/ PushFlow(t)
       PROVE  Inductive' /\ (~shown'[caller'] => UNCHANGED handles)
  <2>1. \E kinds : Push(t, kinds)
    BY <1>11, Zenon DEF PushDeclaration, PushStructure, PushConstant, PushArithmetic, PushMemory, PushCall, PushFlow
  <2>. QED BY <1>10, <1>11, <2>1
<1>12. ASSUME up, NEW t \in Thread, CompileProgram(t)
       PROVE  Inductive' /\ (up' /\ ~shown'[caller'] => UNCHANGED handles)
  BY <1>12, CompileKeeps
<1>13. CASE Next
  <2>1. up
    BY <1>13 DEF Next
  <2>2. CASE Frees
    BY <1>9, <2>1, <2>2
  <2>3. CASE \E t \in session.threads :
               \/ NewJit(t) \/ NewProgram(t) \/ CompileProgram(t) \/ CompileNull(t)
               \/ PushDeclaration(t) \/ PushStructure(t) \/ PushConstant(t)
               \/ PushArithmetic(t) \/ PushMemory(t) \/ PushCall(t) \/ PushFlow(t)
               \/ \E s \in Symbols : RegisterSymbol(t, s)
               \/ \E f \in Functions : GetPointer(t, f)
    <3>1. PICK t \in session.threads :
               \/ NewJit(t) \/ NewProgram(t) \/ CompileProgram(t) \/ CompileNull(t)
               \/ PushDeclaration(t) \/ PushStructure(t) \/ PushConstant(t)
               \/ PushArithmetic(t) \/ PushMemory(t) \/ PushCall(t) \/ PushFlow(t)
               \/ \E s \in Symbols : RegisterSymbol(t, s)
               \/ \E f \in Functions : GetPointer(t, f)
      BY <2>3
    <3>2. t \in Thread
      BY <1>1
    <3>3. CASE NewJit(t) BY <1>3, <2>1, <3>2, <3>3
    <3>4. CASE NewProgram(t) BY <1>4, <2>1, <3>2, <3>4
    <3>5. CASE CompileProgram(t) BY <1>12, <2>1, <3>2, <3>5
    <3>6. CASE CompileNull(t) BY <1>7, <2>1, <3>2, <3>6
    <3>7. CASE \/ PushDeclaration(t) \/ PushStructure(t) \/ PushConstant(t)
               \/ PushArithmetic(t) \/ PushMemory(t) \/ PushCall(t) \/ PushFlow(t)
      BY <1>11, <2>1, <3>2, <3>7
    <3>8. CASE \E s \in Symbols : RegisterSymbol(t, s)
      BY <1>5, <2>1, <3>2, <3>8
    <3>9. CASE \E f \in Functions : GetPointer(t, f)
      BY <1>8, <2>1, <3>2, <3>9
    <3>. QED BY <3>1, <3>3, <3>4, <3>5, <3>6, <3>7, <3>8, <3>9
  <2>. QED BY <1>13, <2>2, <2>3, Zenon DEF Next, Frees
<1>. QED BY <1>2, <1>13

(* The invariant of the interface: programs are of commands as the          *)
(* interface makes them, the answer on record is that of a compile of the   *)
(* commands as they are, an artifact is what a compile has made of its      *)
(* commands.                                                                *)
THEOREM InterfaceHolds == FfiSpec => []Inductive
<1>1. Init => Inductive
  BY Begun
<1>2. Inductive /\ [Next]_vars => Inductive'
  BY StepKeeps
<1>. QED BY <1>1, <1>2, PTL DEF FfiSpec

(* A call that reports failure changes no handle: no half-read command is   *)
(* pushed.                                                                  *)
THEOREM NothingHalfDone == FfiSpec => RefusedChangesNothing
<1>1. Inductive /\ [Next]_vars =>
        [up' /\ ~shown'[caller'] => FreeJit \/ FreeProgram \/ FreeArtifact \/ UNCHANGED handles]_vars
  BY StepKeeps DEF Frees
<1>. QED BY <1>1, InterfaceHolds, PTL DEF FfiSpec, RefusedChangesNothing

(* What was answered to the last compile, and why the process is down. *)
LEMMA AnswersExact == Inductive => AcceptsExactly /\ AbortsExplained
<1>. SUFFICES ASSUME Inductive PROVE AcceptsExactly /\ AbortsExplained
  OBVIOUS
<1>0. Handles /\ Answered /\ Down
  BY DEF Inductive
<1>1. ASSUME asked # None
      PROVE  /\ asked[1].st = "ok" => WellFormed(program[1], asked[1].symbols)
             /\ WellFormed(program[1], asked[1].symbols) /\ ~asked[1].refuses => asked[1].st = "ok"
             /\ asked[1].st = "abort" => Mistake(program[1], asked[1].symbols)
  <2>1. /\ WellShaped(program[1]) /\ asked[1].refuses \in BOOLEAN
        /\ asked[1].st = Compile(program[1], asked[1].symbols, asked[1].refuses).st
    BY <1>0, <1>1 DEF Handles, Answered
  <2>. QED BY <2>1, CompileExact
<1>2. AcceptsExactly
  BY <1>1 DEF AcceptsExactly
<1>3. ASSUME ~up PROVE Mistake(program[1], asked[1].symbols)
  BY <1>0, <1>1, <1>3 DEF Down
<1>4. AbortsExplained
  BY <1>3 DEF AbortsExplained, Mistake, Unplaced
<1>. QED BY <1>2, <1>4

(* A program compiles exactly when it keeps the rules, whatever the         *)
(* program, the symbols and the order of calls.                             *)
THEOREM AcceptsTheRules == FfiSpec => []AcceptsExactly
BY InterfaceHolds, AnswersExact, PTL

(* The process goes down only for an instruction with no block to go to or  *)
(* an extern nobody defined.                                                *)
THEOREM AbortsAreExplained == FfiSpec => []AbortsExplained
BY InterfaceHolds, AnswersExact, PTL

(* What an artifact has. *)
LEMMA ArtifactExact == Inductive => DataExact /\ SwitchesDispatch
<1>. SUFFICES ASSUME Inductive, artifact # None PROVE DataExact /\ SwitchesDispatch
  BY DEF DataExact, SwitchesDispatch
<1>. DEFINE p == artifact[1].cmds
            code == artifact[1].code
<1>1. WellShaped(p) /\ code.st = "ok" /\ \E symbols \in SUBSET Symbols : \E refuses \in BOOLEAN : code = Compile(p, symbols, refuses)
  BY DEF Inductive, Made, Compiled
<1>2. PICK symbols \in SUBSET Symbols, refuses \in BOOLEAN : code = Compile(p, symbols, refuses)
  BY <1>1
<1>3. DataExact
  <2>. DEFINE covering(d, i) == {j \in DOMAIN p : p[j].k \in DataInits /\ p[j].id = d /\ i - p[j].at \in DOMAIN InitBytes(p[j])[1]}
  <2>1. ASSUME NEW d \in DOMAIN code.data, NEW i \in DOMAIN code.data[d][1]
        PROVE  code.data[d][1][i] = IF covering(d, i) = {} THEN 0
                 ELSE LET last == CHOOSE j \in covering(d, i) : \A j2 \in covering(d, i) : j2 <= j
                      IN  InitBytes(p[last])[1][i - p[last].at]
    <3>1. covering(d, i) = Covering(p, d, i)
      BY DEF Covering, Covers
    <3>. HIDE DEF p, code, covering
    <3>. QED BY <1>1, <1>2, <3>1, BytesOf
  <2>. QED BY <2>1, Zenon DEF DataExact
<1>4. SwitchesDispatch
  <2>1. ASSUME NEW b \in Begins(p), NEW i \in DOMAIN BodyOf(p, b), BodyOf(p, b)[i].k = "switch"
        PROVE  \E table \in code.tables[Cardinality({a \in Begins(p) : a <= b})] : Dispatches(BodyOf(p, b)[i], table)
    <3>. HIDE DEF p, code
    <3>. QED BY <1>1, <1>2, <2>1, SwitchesOf DEF Count
  <2>. QED BY <2>1, Zenon DEF SwitchesDispatch, Dispatches, Wraps
<1>. QED BY <1>3, <1>4

(* Each byte of a data object of an artifact is what the last initializer   *)
(* that covers it wrote.                                                    *)
THEOREM DataIsExact == FfiSpec => []DataExact
BY InterfaceHolds, ArtifactExact, PTL

(* A switch of an artifact sends every value of its type to the one case    *)
(* that stands for it.                                                      *)
THEOREM SwitchesAreExact == FfiSpec => []SwitchesDispatch
BY InterfaceHolds, ArtifactExact, PTL

=============================================================================
