------------------------------- MODULE MoonJit -------------------------------
(***************************************************************************)
(* The JIT state behind the Moonlift runtime: MoonliftJit of                *)
(* src/moonlift-old/src/cranelift_jit.rs and the Lua entry points of        *)
(* runtime.rs that drive it.  One request runs at a time (the runtime is    *)
(* single-threaded), but a request is a sequence of steps any of which may  *)
(* fail and leave behind what the earlier ones did.                         *)
(*                                                                         *)
(* Every cached function has three pieces of machine code.  The host calls  *)
(* "packed"; it calls "entry", a trampoline that jumps through a cell; the  *)
(* cell holds the address of "body" once the body is compiled.  Calls       *)
(* between functions of a unit go to the callee's entry.                    *)
(***************************************************************************)
EXTENDS MoonUnits, SequencesExt

CONSTANTS
  Optimized,     \* spec -> what optimize_function_spec makes of it
  Bad,           \* specs whose body the lowering or Cranelift rejects
  SignatureOf,   \* spec -> its signature
  CallsAs,       \* spec -> <<name, signature>> of its direct calls
  Helpers,       \* spec -> <<name, signature>> of the runtime helpers its body needs
  Startup,       \* <<name, signature>> of what the JIT declares when it is made
  Linker,        \* names that resolve outside a unit (the JIT's own, runtime, libc)
  Unit,          \* sequences of specs a host may compile together
  MaxHandle,     \* stands for u32::MAX
  MaxCount,      \* stands for u64::MAX in the statistics
  NoSpec

Handle == 1..MaxHandle
Part   == {"packed", "entry", "body"}
Code   == Handle \X Part          \* Cranelift function ids, named by what they are

ASSUME JitAssumption ==
  /\ MaxHandle \in Nat /\ MaxHandle >= 1
  /\ MaxCount \in Nat
  /\ NoSpec \notin Spec
  /\ \A s \in Spec : Optimized[s] \in Spec
  /\ \A s \in Spec : NameOf[Optimized[s]] = NameOf[s]
  /\ Unit \subseteq Seq(Spec)
  /\ Bad \subseteq Spec
  /\ \A s \in Spec : Calls[s] = {c[1] : c \in CallsAs[s]}
  /\ \A c \in Startup \cup UNION {Helpers[s] : s \in Spec} : c[1] \in Linker

VARIABLES
  nextHandle,    \* next_handle
  handleOf,      \* stable_funcs and spec_cache: spec -> handle, 0 without a record
  ready,         \* specs whose record is body_ready (its cell then holds the body)
  functions,     \* functions: handle -> spec, NoSpec when the handle is unknown
  defined,       \* code the JIT module holds a definition of
  toFinalize,    \* functions_to_finalize of the JIT module, in order
  relocated,     \* code whose relocations were applied
  links,         \* handle -> <<name, target>> of its code's direct calls;
                 \* target is the handle called through its entry, 0 an import
  imports,       \* declarations of the JIT module: <<name, signature>>; the names
                 \* it makes itself, moonlift_stable_1_f_body, are not called
  hits, misses,  \* compile_hits, compile_misses
  active,        \* ACTIVE_DIRECT_FUNCS: <<name, handle>> pairs of the unit
  job,           \* the request in progress
  answer,        \* what the last finished request answered
  leftover       \* history: specs a failed unit left without a body

cache == <<handleOf, nextHandle, misses>>
code  == <<defined, toFinalize, relocated, links>>
vars  == <<cache, ready, functions, code, imports, hits, active, job, answer, leftover>>

NoAnswer == [outcome |-> "none", unit |-> <<>>, handles |-> <<>>, alone |-> FALSE, clean |-> TRUE]
Idle == [pc |-> "idle", unit |-> <<>>, handles |-> <<>>, at |-> 0]

Init ==
  /\ nextHandle = 1
  /\ handleOf = [s \in Spec |-> 0]
  /\ ready = {}
  /\ functions = [h \in Handle |-> NoSpec]
  /\ defined = {} /\ toFinalize = <<>> /\ relocated = {}
  /\ links = [h \in Handle |-> {}]
  /\ imports = Startup
  /\ hits = 0 /\ misses = 0
  /\ active = {}
  /\ job = Idle
  /\ answer = NoAnswer
  /\ leftover = {}

Saturating(n) == IF n < MaxCount THEN n + 1 ELSE n

(* alone: the function was compiled outside a unit; clean: no unit had      *)
(* failed before.                                                           *)
Answer(outcome, u, hs) ==
  answer' = [outcome |-> outcome, unit |-> u, handles |-> hs,
             alone |-> job.pc = "uncached", clean |-> leftover = {}]

(* Bug: the unit's names stay bound after an error. *)
Fail_KeepsNames(outcome) ==
  /\ Answer(outcome, job.unit, <<>>)
  /\ job' = Idle
  /\ leftover' = leftover \cup {s \in ToSet(job.unit) : handleOf[s] # 0 /\ s \notin ready}
  /\ UNCHANGED active

(* An error ends the request.  The records and definitions it made stay;    *)
(* the unit's names are forgotten.                                          *)
Fail(outcome) ==
  /\ Answer(outcome, job.unit, <<>>)
  /\ job' = Idle
  /\ active' = {}
  /\ leftover' = leftover \cup {s \in ToSet(job.unit) : handleOf[s] # 0 /\ s \notin ready}

-----------------------------------------------------------------------------
(* Requests of the host.                                                    *)

(* compile_stable_specs, up to the first record.                            *)
StartUnit(u) ==
  IF DistinctNames(u)
  THEN /\ job' = [pc |-> "declare", unit |-> u, handles |-> <<>>, at |-> 1]
       /\ answer' = NoAnswer
  ELSE Answer("duplicate name", u, <<>>) /\ UNCHANGED job

Optimize(u) == [i \in DOMAIN u |-> Optimized[u[i]]]

CompileFunction(s) ==
  /\ job.pc = "idle"
  /\ StartUnit(Optimize(<<s>>))
  /\ UNCHANGED <<cache, ready, functions, code, imports, hits, active, leftover>>

(* Bug: the module path compiles the specs as they came. *)
CompileModule_Raw(u) ==
  /\ job.pc = "idle"
  /\ IF u = <<>> THEN Answer("ok", u, <<>>) /\ UNCHANGED job ELSE StartUnit(u)
  /\ UNCHANGED <<cache, ready, functions, code, imports, hits, active, leftover>>

CompileModule(u) ==
  /\ job.pc = "idle"
  /\ IF u = <<>> THEN Answer("ok", u, <<>>) /\ UNCHANGED job
                 ELSE StartUnit(Optimize(u))
  /\ UNCHANGED <<cache, ready, functions, code, imports, hits, active, leftover>>

(* compile_spec_entry_sparse: the plan, then the functions the entry needs. *)
CompileEntry(u, name) ==
  /\ job.pc = "idle"
  /\ CASE ~DistinctNames(u)           -> Answer("duplicate name", u, <<>>) /\ UNCHANGED job
       [] EntryPoint(u, name) = {}    -> Answer("unknown entry", u, <<>>) /\ UNCHANGED job
       [] OTHER                       -> StartUnit(Optimize(EntryClosure(u, name)))
  /\ UNCHANGED <<cache, ready, functions, code, imports, hits, active, leftover>>

(* compile_function_without_cache: a handle, then one packed function whose *)
(* code is not shared and whose direct calls are all imports.               *)
CompileUnoptimized(s) ==
  /\ job.pc = "idle"
  /\ IF nextHandle = MaxHandle
     THEN /\ Answer("overflow", <<s>>, <<>>)
          /\ UNCHANGED <<nextHandle, job>>
     ELSE /\ nextHandle' = nextHandle + 1
          /\ job' = [pc |-> "uncached", unit |-> <<s>>, handles |-> <<nextHandle>>, at |-> 1]
          /\ answer' = NoAnswer
  /\ UNCHANGED <<handleOf, misses, ready, functions, code, imports, hits, active, leftover>>

(* compile_source_code: a function with direct calls is a unit of one, any  *)
(* other goes the single way; unoptimised code must not call.               *)
CompileSourceCode(s) ==
  IF HasDirectCall(s) THEN CompileModule(<<s>>) ELSE CompileFunction(s)

CompileSourceUnoptimized(s) ==
  IF HasDirectCall(s)
  THEN /\ job.pc = "idle"
       /\ Answer("direct calls", <<s>>, <<>>)
       /\ UNCHANGED <<cache, ready, functions, code, imports, hits, active, job, leftover>>
  ELSE CompileUnoptimized(s)

(* call_packed once the handle and the number of arguments are right: a      *)
(* wrapper whose call to the entry was never relocated jumps nowhere, an     *)
(* entry whose cell is empty traps.                                          *)
Cached(h) == handleOf[functions[h]] = h
EntryTraps(h) == Cached(h) /\ functions[h] \notin ready

Run(h) ==
  CASE <<h, "packed">> \notin relocated -> "lost" [] EntryTraps(h) -> "trap" [] OTHER -> "ran"

(* moonlift_call counts what it is given, moonlift_call0 .. call4 are for    *)
(* functions of exactly that many parameters.                                *)
Call(h, args) ==
  /\ job.pc = "idle"
  /\ Answer(CASE h \notin Handle \/ functions[h] = NoSpec -> "unknown handle"
              [] args # Arity[functions[h]]               -> "wrong arity"
              [] OTHER                                    -> Run(h), <<>>, <<h>>)
  /\ UNCHANGED <<cache, ready, functions, code, imports, hits, active, job, leftover>>

-----------------------------------------------------------------------------
(* Lowering                                                                 *)

(* ModuleDeclarations: a name keeps the signature it was declared with.     *)
Agree(declarations) == \A c, d \in declarations : c[1] = d[1] => c[2] = d[2]

Outside(s, us) == Helpers[s] \cup {c \in CallsAs[s] : \A t \in us : NameOf[t] # c[1]}
Miscalls(s, us) == \E c \in CallsAs[s], t \in us : NameOf[t] = c[1] /\ SignatureOf[t] # c[2]

(* build_function_context(_typed), with the functions of us bound by name:  *)
(* what is called and not bound is declared in the module, one name after   *)
(* the other, and the first that was declared otherwise ends it, as does    *)
(* what is bad about the body.  What was declared by then stays declared.   *)
(* A call of a bound function with another signature is a matter of the     *)
(* verifier, who may not see it in the result.                              *)
Lower(s, us, result) ==
  \E done \in SUBSET Outside(s, us) :
    /\ Agree(imports \cup done)
    /\ imports' = imports \cup done
    /\ \/ result = "ok" /\ s \notin Bad /\ done = Outside(s, us)
       \/ result = "bad body" /\ (s \in Bad \/ Miscalls(s, us))
       \/ /\ result = "declared otherwise"
          /\ \E c \in Outside(s, us) : ~Agree(imports \cup done \cup {c})

(* dump_disasm_impl: the spec is lowered with its own name bound, under a   *)
(* number of its own that is taken not to run out, and thrown away.         *)
Dump(s) ==
  /\ job.pc = "idle"
  /\ \E result \in {"ok", "bad body", "declared otherwise"} :
       Lower(s, {s}, result) /\ Answer(result, <<s>>, <<>>)
  /\ UNCHANGED <<cache, ready, functions, code, hits, active, job, leftover>>

DumpDisasm(s) == Dump(Optimized[s])
DumpDisasmUnoptimized(s) == Dump(s)

-----------------------------------------------------------------------------
(* Steps of a unit.                                                         *)

(* declare_stable_record: handle, code ids, trampoline and wrapper.         *)
DeclareRecord(s) ==
  /\ handleOf' = [handleOf EXCEPT ![s] = nextHandle]
  /\ nextHandle' = nextHandle + 1
  /\ misses' = Saturating(misses)
  /\ defined' = defined \cup {<<nextHandle, "entry">>, <<nextHandle, "packed">>}
  /\ toFinalize' = toFinalize \o <<<<nextHandle, "entry">>, <<nextHandle, "packed">>>>
  /\ job' = [job EXCEPT !.handles = Append(@, nextHandle), !.at = @ + 1]
  /\ UNCHANGED <<hits, active, answer, leftover>>

(* Bug: a record tried again counts as another miss. *)
FindRecord_Misses(s) ==
  /\ hits' = IF s \in ready THEN Saturating(hits) ELSE hits
  /\ misses' = IF s \in ready THEN misses ELSE Saturating(misses)
  /\ job' = [job EXCEPT !.handles = Append(@, handleOf[s]), !.at = @ + 1]
  /\ UNCHANGED <<handleOf, nextHandle, defined, toFinalize, active, answer, leftover>>

FindRecord(s) ==
  /\ hits' = IF s \in ready THEN Saturating(hits) ELSE hits
  /\ job' = [job EXCEPT !.handles = Append(@, handleOf[s]), !.at = @ + 1]
  /\ UNCHANGED <<cache, defined, toFinalize, active, answer, leftover>>

(* Bug: the handle counter is not checked. *)
Declare_Unchecked ==
  /\ job.pc = "declare" /\ job.at <= Len(job.unit)
  /\ LET s == job.unit[job.at] IN IF handleOf[s] # 0 THEN FindRecord(s) ELSE DeclareRecord(s)
  /\ UNCHANGED <<ready, functions, relocated, links, imports>>

Declare ==
  /\ job.pc = "declare" /\ job.at <= Len(job.unit)
  /\ LET s == job.unit[job.at] IN
       \/ handleOf[s] # 0 /\ FindRecord(s)
       \/ /\ handleOf[s] = 0 /\ nextHandle = MaxHandle
          /\ Fail("overflow") /\ UNCHANGED <<cache, defined, toFinalize, hits>>
       \/ handleOf[s] = 0 /\ nextHandle # MaxHandle /\ DeclareRecord(s)
  /\ UNCHANGED <<ready, functions, relocated, links, imports>>

(* direct_funcs covers the whole unit, pending only what has no body yet.   *)
Pending == ToSet(job.unit) \ ready

(* Bug: only the functions compiled now can be called by name. *)
BeginBodies_PendingOnly ==
  /\ job.pc = "declare" /\ job.at > Len(job.unit)
  /\ IF Pending = {}
     THEN /\ Answer("ok", job.unit, job.handles)
          /\ job' = Idle
          /\ UNCHANGED active
     ELSE /\ active' = {<<NameOf[s], handleOf[s]>> : s \in Pending}
          /\ job' = [job EXCEPT !.pc = "define", !.at = 1]
          /\ UNCHANGED answer
  /\ UNCHANGED <<cache, ready, functions, code, imports, hits, leftover>>

BeginBodies ==
  /\ job.pc = "declare" /\ job.at > Len(job.unit)
  /\ IF Pending = {}
     THEN /\ Answer("ok", job.unit, job.handles)
          /\ job' = Idle
          /\ UNCHANGED active
     ELSE /\ active' = {<<NameOf[s], handleOf[s]>> : s \in ToSet(job.unit)}
          /\ job' = [job EXCEPT !.pc = "define", !.at = 1]
          /\ UNCHANGED answer
  /\ UNCHANGED <<cache, ready, functions, code, imports, hits, leftover>>

(* lower_call_value: the unit's function of that name, else an import.      *)
Link(n) == <<n, IF \E p \in active : p[1] = n
                THEN (CHOOSE p \in active : p[1] = n)[2] ELSE 0>>

(* What direct_funcs binds while a body is lowered.                         *)
Named == {t \in ToSet(job.unit) : \E p \in active : p[1] = NameOf[t]}

(* build_function_context(_typed) and define_function of one function id.   *)
Define(s, h, part) ==
  \E result \in {"ok", "bad body", "declared otherwise"} :
    /\ Lower(s, Named, result)
    /\ IF result # "ok" \/ <<h, part>> \in defined
       THEN /\ Fail(IF result # "ok" THEN result ELSE "defined already")
            /\ UNCHANGED code
       ELSE /\ defined' = defined \cup {<<h, part>>}
            /\ toFinalize' = Append(toFinalize, <<h, part>>)
            /\ links' = [links EXCEPT ![h] = {Link(n) : n \in Calls[s]}]
            /\ job' = [job EXCEPT !.at = @ + 1]
            /\ UNCHANGED <<relocated, active, answer, leftover>>

DefineBody ==
  /\ job.pc = "define" /\ job.at <= Len(job.unit)
  /\ LET s == job.unit[job.at] IN
       IF s \in Pending THEN Define(s, handleOf[s], "body")
       ELSE /\ job' = [job EXCEPT !.at = @ + 1]
            /\ UNCHANGED <<code, imports, active, answer, leftover>>
  /\ UNCHANGED <<cache, ready, functions, hits>>

DefineUncached ==
  /\ job.pc = "uncached" /\ job.at = 1
  /\ Define(job.unit[1], job.handles[1], "packed")
  /\ UNCHANGED <<cache, ready, functions, hits>>

-----------------------------------------------------------------------------
(* Finalization belongs to cranelift_jit: it takes the list, relocates each *)
(* function in turn and panics at the first import nothing resolves; the    *)
(* rest of the list is then forgotten.                                      *)
Resolves(c) ==
  c[2] = "body" \/ (c[2] = "packed" /\ <<c[1], "entry">> \notin defined)
    => \A l \in links[c[1]] : l[2] = 0 => l[1] \in Linker

(* Bug: a finalization that panics is taken for a success. *)
Finalize_Unchecked(publish) ==
  LET stuck == {i \in DOMAIN toFinalize : ~Resolves(toFinalize[i])} IN
  /\ toFinalize' = <<>>
  /\ relocated' = relocated \cup
       {toFinalize[i] : i \in {j \in DOMAIN toFinalize : \A k \in stuck : j < k}}
  /\ publish
  /\ UNCHANGED <<cache, defined, links, imports, hits>>

Finalize(publish) ==
  LET stuck == {i \in DOMAIN toFinalize : ~Resolves(toFinalize[i])} IN
  /\ toFinalize' = <<>>
  /\ IF stuck = {}
     THEN /\ relocated' = relocated \cup ToSet(toFinalize)
          /\ publish
     ELSE /\ relocated' = relocated \cup
                {toFinalize[i] : i \in {j \in DOMAIN toFinalize : \A k \in stuck : j < k}}
          /\ Fail("unresolved")
          /\ UNCHANGED <<functions, ready>>
  /\ UNCHANGED <<cache, defined, links, imports, hits>>

(* Bug: the records of the unit replace those that were ready. *)
PublishUnit_Replaces ==
  /\ functions' = [h \in Handle |->
       IF \E s \in Pending : handleOf[s] = h
       THEN CHOOSE s \in Pending : handleOf[s] = h ELSE functions[h]]
  /\ ready' = Pending
  /\ active' = {}
  /\ job' = Idle
  /\ Answer("ok", job.unit, job.handles)
  /\ UNCHANGED leftover

(* functions, the cells and body_ready change only after the finalization.  *)
PublishUnit ==
  /\ functions' = [h \in Handle |->
       IF \E s \in Pending : handleOf[s] = h
       THEN CHOOSE s \in Pending : handleOf[s] = h ELSE functions[h]]
  /\ ready' = ready \cup Pending
  /\ active' = {}
  /\ job' = Idle
  /\ Answer("ok", job.unit, job.handles)
  /\ UNCHANGED leftover

FinishUnit ==
  /\ job.pc = "define" /\ job.at > Len(job.unit)
  /\ Finalize(PublishUnit)

PublishUncached ==
  /\ functions' = [functions EXCEPT ![job.handles[1]] = job.unit[1]]
  /\ job' = Idle
  /\ Answer("ok", job.unit, job.handles)
  /\ UNCHANGED <<ready, active, leftover>>

FinishUncached ==
  /\ job.pc = "uncached" /\ job.at > 1
  /\ Finalize(PublishUncached)

-----------------------------------------------------------------------------
Request ==
  \/ \E s \in Spec : \/ CompileFunction(s) \/ CompileUnoptimized(s)
                    \/ CompileSourceCode(s) \/ CompileSourceUnoptimized(s)
                    \/ DumpDisasm(s) \/ DumpDisasmUnoptimized(s)
  \/ \E u \in Unit : CompileModule(u)
  \/ \E u \in Unit, s \in Spec : CompileEntry(u, NameOf[s])
  \/ \E h \in 0..MaxHandle, args \in 0..1 : Call(h, args)

Step == \/ Declare \/ BeginBodies \/ DefineBody \/ FinishUnit
        \/ DefineUncached \/ FinishUncached

Next == Request \/ Step
JitSpec == Init /\ [][Next]_vars

-----------------------------------------------------------------------------
(* Every variable holds what its comment says.                              *)
TypeOK ==
  /\ nextHandle \in Handle
  /\ handleOf \in [Spec -> 0..MaxHandle]
  /\ ready \subseteq Spec
  /\ functions \in [Handle -> Spec \cup {NoSpec}]
  /\ defined \subseteq Code /\ relocated \subseteq Code
  /\ toFinalize \in Seq(Code)
  /\ hits \in 0..MaxCount /\ misses \in 0..MaxCount
  /\ job.pc \in {"idle", "declare", "define", "uncached"}
  /\ job.unit \in Seq(Spec) /\ job.handles \in Seq(Handle) /\ job.at \in Nat
  /\ leftover \subseteq Spec

(* What a handle in functions promises: a cached one has its body in the    *)
(* cell and relocated, and every direct call of its code leads to a handle  *)
(* that is callable itself or to a symbol of the linker.  Its wrapper is    *)
(* relocated too, unless the record was left behind by a failed unit.       *)
CallSafe ==
  \A h \in Handle : functions[h] # NoSpec =>
    /\ Cached(h) => functions[h] \in ready /\ <<h, "body">> \in relocated
    /\ \A l \in links[h] : IF l[2] = 0 THEN l[1] \in Linker ELSE functions[l[2]] # NoSpec
    /\ ~(Cached(h) /\ functions[h] \in leftover) => <<h, "packed">> \in relocated

(* A handle once callable keeps its function, its code and its links,       *)
(* whatever is compiled, fails or is dumped later.                          *)
HandlesStay ==
  [][\A h \in Handle : functions[h] # NoSpec =>
        /\ functions'[h] = functions[h]
        /\ links'[h] = links[h]
        /\ Cached(h) => functions[h] \in ready']_vars

(* Between requests no name is bound: code compiled later on its own cannot *)
(* be linked to a unit that is over.                                        *)
NamesForgotten == job.pc \in {"idle", "uncached"} => active = {}

(* The statistics the tests read: one miss for each function that has a     *)
(* record, however often it was tried.                                      *)
MissesAreRecords ==
  LET records == Cardinality({s \in Spec : handleOf[s] # 0}) IN
  misses = IF records < MaxCount THEN records ELSE MaxCount

(* What a request is refused for can be told from the specs it was given,   *)
(* the names the module has declared and whether a unit failed before: a    *)
(* body is bad, or miscalls a function of its unit; a name is called from   *)
(* outside the unit with a signature that is not the one declared; only     *)
(* after a failed unit is something defined twice, or left unresolved that  *)
(* the request does not call.                                               *)
FailuresExplained ==
  LET asked == ToSet(answer.unit)
      bound == IF answer.alone THEN {} ELSE asked
  IN  /\ answer.outcome = "bad body" => \E s \in asked : s \in Bad \/ Miscalls(s, bound)
      /\ answer.outcome = "declared otherwise" =>
           \E s \in asked : \E c \in Outside(s, bound), d \in imports : c[1] = d[1] /\ c[2] # d[2]
      /\ answer.outcome = "defined already" => ~answer.clean
      /\ answer.outcome = "unresolved" =>
           ~answer.clean \/ \E s \in asked : \E c \in Outside(s, bound) : c[1] \notin Linker

(* A unit that was compiled is linked to itself: where its functions call a *)
(* name of the unit, their code calls the unit's function of that name.     *)
UnitLinks ==
  answer.outcome = "ok" =>
    \A i, j \in DOMAIN answer.handles :
      NameOf[answer.unit[j]] \in Calls[answer.unit[i]] /\ handleOf[answer.unit[i]] = answer.handles[i]
        => <<NameOf[answer.unit[j]], answer.handles[j]>> \in links[answer.handles[i]]

(* A callable handle can be called.                                         *)
CallsRun == answer.outcome \notin {"lost", "trap"}
=============================================================================
