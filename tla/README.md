# TLA+ models and proofs of gps.lua

This directory holds TLA+ specifications of the repository's Lua runtime, TLC
configurations that model-check them on small instances, and TLAPS proofs. Every
definition follows the code in `src/`; the comments and docs of the repository
are only used as statements to be checked against it.

It covers two systems of the repository:

- the **pvm phase boundary** in `src/pvm.lua`: the memoised, recording, shared,
  lazily pulled functions that everything else in Lua is written with;
- the **Moonlift compilers** in Rust: the back end and its C interface in
  `src/moonlift/src`, and the JIT state, the compile plan, the optimizer and the
  meaning of compiled code in `src/moonlift-old/src`.

To check: `tlc -config MCPhase_core.cfg MCPhase.tla` (and so on, one line per
run below), and `tlapm` on `DataInduction.tla` and on the modules named
`..._proofs.tla`. The largest three need five to eight minutes each.

## 1. The system

gps.lua is a Lua toolkit in which a program is a tower of immutable ASDL trees.
A *phase* maps a node to a stream of elements. Streams are Lua iterator triplets
`(gen, param, ctrl)`; the output of a handler for a node is recorded while the
first consumer pulls it and is cached, by node identity, once it has been read to
its end. On top of that are a user interface, a web server that sends patches, a
map-tile server, a language server and a compiler; beside it is a second
implementation of phases (`iwatjit`) whose results live in WebAssembly memory.

Moonlift is the compiler beside it: Lua builds programs and hands them to a Rust
library that makes machine code with Cranelift. The older generation
(`moonlift-old`) takes whole function specs, optimizes them itself and keeps a
cache of what it compiled; the newer one (`moonlift`) takes a stream of back-end
commands through a C interface.

The Lua is single-threaded. There is concurrency all the same:
several triplets over one recording are advanced in any order by the program
that holds them, callbacks run in the middle of loops and use the objects being
iterated, errors leave loops at any point, and resets replace tables that
recordings in flight have captured. The Rust runs one request at a time too, but
a request is many steps over state that outlives it, and any of them may fail;
the C interface is called from whatever threads the host has.

### Inventory

| Component | Source | State | Operations | What is hard | What makes it correct |
|---|---|---|---|---|---|
| pvm phase boundary | `pvm.lua` | per phase: `cache`, `pending` (weak keys), counters; per recording: buffer, `done`, source triplet, captured tables; per consumer: position | call, pull, `drain`, `drain_into`, `each`, `fold`, `one`, `warm`, `cached`, `reset` | consumers interleave on one recording; callbacks re-enter; errors mid-recording; abandoned recordings; reset with recordings in flight | a consumer cannot tell that the phase caches or shares; commits are whole and stable; no duplicate work |
| pvm argument caches | `pvm.lua` | per node a tree of tables keyed by argument (`full`) or one slot (`last`), or nothing (`none`) | call with extra arguments, `finish_recording`, `reset` | levels, recordings and results share one table type; handlers call the phase again while the outer call holds table references | an answer belongs to the same node and arguments; no recorded result is lost in mode `full` |
| pvm composition | `pvm.lua` | the sources of recordings are other recordings' readers (`children`, `concat2`, `concat3`, `children_gen`), the Lua call stack | nested calls and pulls | sharing inside one traversal; an error half-way up the stack; commits of inner recordings as side effects | committed output is the flattened tree, inner recordings commit first, each node is recorded once |
| pvm reports, array triplets | `pvm.lua` | none | `report`, `seq` | - | - |
| triplet algebra | `triplet.lua` | control values of combinators | `map`, `filter`, `take`, `zip`, `flatmap`, ... | one-shot control vs. restartable control | each combinator equals its list function |
| asdl interning | `asdl_context.lua` | weak tries per constructor; canonical lists, list-check memo | constructors, `with` | identity stands for structure; a memo keyed by mutable Lua tables | equal arguments give the identical node |
| iwatjit runtime | `iwatjit/init.lua` | entries (pending, committed, cancelled, evicted), cursors, slabs, result and sequence LRU lists, budgets | open, pull, cancel, commit, evict, reset | eviction against open cursors; last cursor cancels; allocation failing half-way; finalizers | no slab is read after it is freed; budgets hold; counters return to zero |
| watjit containers | `watjit/slab.lua`, `lru.lua`, `hashtable.lua`, `arena.lua` | free list, doubly linked list, open addressing with tombstones | alloc/free, touch/evict, set/get/del | relinking, tombstones, full tables | refine a set, a sequence, a finite map |
| watjit language and compiler | `watjit/` | AST | emit WAT text | - | - |
| ui session | `ui/session.lua` | windows, redraw flags, timers | run loop, open/close, `request_redraw` | callbacks close windows during iteration; redraw requested during drawing | no requested redraw is lost; no closed window is called |
| ui interaction | `ui/interact.lua` | hover, press, focus, drag, scroll | `apply` over events | sequences of raw events | press and release pair up; one focus |
| ui layout, text, rendering | `ui/` | - | pure phases over numbers | - | - |
| web live hub, patches | `web/live.lua`, `diff.lua`, `client.js` | per connection: last tree sent | attach, `broadcast`, `refresh`, detach | sends fail; patches address keys in a page already patched | the page equals the tree the server believes it shows |
| web http, html, routing | `web/` | - | parse, format | - | - |
| geopvm store and caches | `geopvm/store.lua`, `lru.lua`, `tile.lua` | layers, indices, revisions, tile cache | edit, query, tile | replace, rebuild and revision are separate steps | a tile of revision r shows the features of revision r |
| geopvm geometry, encodings | `geopvm/` | - | clipping, encoding | floating point | - |
| json | `json/` | - | parse, emit | - | - |
| lsp server | `lsp/server.lua` | open documents, versions | requests, edits | requests refer to versions | answers are about the version asked for |
| moonlift back end | `moonlift/src/lib.rs` | the declarations of a program being compiled; per body its blocks, values, slots | collect, declare, define, finalize; lower a command | the checks are made command by command; Cranelift panics where the code did not check; literals wrap | a program is accepted exactly when it keeps the rules as a whole; data and switches mean what the commands say |
| moonlift C interface | `moonlift/src/ffi.rs` | jit, program, artifact; per thread the last error | new, free, register a symbol, push a command, compile, get a pointer | bad pointers and strings half-way through a call; several threads; panics in `extern "C"` | a refused call changes nothing; a thread's message is about its own last call |
| moonlift-old JIT state | `moonlift-old/src/cranelift_jit.rs`, `runtime.rs` | records by spec, handles, machine code waiting to be relocated, names of the unit being compiled, statistics | compile one, a unit, an entry, unoptimised; call; disassemble | a unit that fails half-way leaves records and code; finalization is for the whole module | what a callable handle reaches is there and stays |
| moonlift-old compile plan | `runtime.rs` | Tarjan's stack, indices, lowlinks, components | plan a unit, closure of an entry | recursion over arbitrary graphs | components exact, callees first, an entry gets what it reaches |
| moonlift-old optimizer | `cranelift_jit.rs` | none between calls | fold, simplify, hoist checks, rewrite loops | traps, wrapping, directions, loops that do not run | same result, same effects, same traps |
| moonlift-old parser | `parser.rs`, `ast.rs` | the tokens and the place in them | parse an item, a module, an expression, a type, extern declarations | one token of lookahead and no way back; separators may be left out; four operators are prefix and infix | accepts what the grammar derives and groups it as the precedence table says |
| moonlift-old lexer, translation | `lexer.rs`, `source_native.rs`, `lua_ast.rs` | - | tokens from text, specs from trees | - | - |
| moonlift Lua front end | `moonlift/lua` | pvm phases | syntax to back-end commands | - | - |
| quote, asdljit | `quote.lua`, `asdljit/` | templates; interning in watjit tables | - | - | - |
| archive, bench, examples | | retired or demonstrations | - | - | - |

The interactions that matter: a consumer *calls* a phase and holds a triplet; the
phase *calls* the handler; the handler's triplet usually holds readers of other
recordings, so pulling one recording pulls others; `each` and `fold` *call back*
into the program, which may call the same phase or advance the recording being
iterated; all consumers of one recording *share* its buffer and source. In Moonlift the
host calls handles, compiled code calls compiled code of the same unit through an
*entry* whose cell is filled later, and all units *share* the records, the handles
and the one list of functions that wait for finalization.

`PROJECT.json` lists the same components with their status, and every hazard at its line.

## 2. The modules

| Module | Models | Read it for |
|---|---|---|
| `PhaseContract` | nothing of the code: the promise | private readers over `Out[epoch][node]`; no cache, no sharing |
| `PvmPhase` | `pvm.lua`, phase without extra arguments | calls, consumers, loops with callbacks, errors, reset |
| `PvmPhase_proofs` | | theorems about the tables and counters of `PvmPhase`, about what its consumers get, and that it implements `PhaseContract` |
| `PvmArgs` | `pvm.lua`, extra arguments | cache trees, three modes, nested calls of handlers |
| `PvmArgs_proofs` | | theorems about the cache trees |
| `PvmNested` | `pvm.lua`, composition | the explicit call stack of nested calls and pulls |
| `PvmNested_proofs` | | theorems about recordings inside recordings |
| `DataInduction` | nothing of the code | lemmas only: functions defined by recursion exist, sets closed under a step; used by the modules of proofs that need it |
| `MoonUnits` | `runtime.rs`, `cranelift_jit.rs`: specs, names, calls, units | what a unit and the closure of an entry are |
| `MoonJit` | `cranelift_jit.rs`, `runtime.rs`: `MoonliftJit` | requests, their steps, what failures leave |
| `MoonJit_proofs` | | theorems about `MoonJit` |
| `MoonPlan` | `runtime.rs`: `build_module_compile_plan` | Tarjan's algorithm, against `MoonUnits` |
| `MoonPlan_proofs` | | the proof of Tarjan's algorithm and of the closure of an entry |
| `MoonIR` | `cranelift_jit.rs`: the lowering, as an interpreter | what statements and expressions do, trap and touch |
| `MoonOpt` | `cranelift_jit.rs`: the optimizer | its rewritings, and a call before and after |
| `MoonGrammar` | nothing of the code: `MOONLIFT_GRAMMAR.md`, with every difference to it marked | the productions as data, and where a string of one may end |
| `MoonParse` | `parser.rs` | each parse function as the steps it takes; binding powers; spans |
| `BackRules` | nothing of the code: the rules of a command program as a whole | declarations, bodies, blocks and values a program must keep |
| `MoonBack` | `lib.rs` | collect, declare, define, lower, as functions of a program |
| `MoonBack_proofs` | | theorems that the passes of `MoonBack` let through what `BackRules` allows, and make what the commands say |
| `MoonFfi` | `ffi.rs` | the calls of a host; composes `MoonBack` with its state |
| `MoonFfi_proofs` | | theorems about what the interface answers, makes and leaves alone |
| `MCPhase`, `MCArgs`, `MCNested`, `MCJit`, `MCPlan`, `MCOpt`, `MCParse`, `MCFfi` | | instances for TLC |

Definitions named `X_Something` next to a definition `X`, with a comment that starts
with "Bug:", are variants of `X` with one plausible mistake. They are used by
nothing; putting one in the place of `X` makes a property fail, which shows that
the property depends on that line of the code (`PROJECT.json`, `mutants`).

### PvmPhase and the code

| Model | Code |
|---|---|
| `gen` | which pair of tables the boundary's upvalues `cache`, `pending` point at; `reset` makes fresh ones |
| `cache[g][n]`, `pending[g][n]` | the slots of the g-th pair; a slot holds the recording's index, or `Nil` |
| `entries[e]` | a recording entry `{buf, done, cache, pending, key, g, p, c}`; `gen` stands for the captured tables, `Len(buf)` for how far the source has come |
| `readers[r]` | a triplet in the program's hands: `kind` is `seq` (`seq_gen` over a committed buffer) or `rec` (`recording_gen`), `i` its control, `got` what it gave (history) |
| `stack`, `hi` | the `each`/`fold` loops whose callback is running, and the `REC_N` read when the loop over the buffered part began |
| `stats` | `calls`, `hits`, `shared` |
| `CallHit`, `CallShared`, `CallMiss`, `CallRaises` | `boundary.__call` without arguments |
| `PullSeq`; `PullRecorded`, `PullSource`, `PullEnd` | `seq_gen`; `recording_gen` with `advance_recording` and `finish_recording` |
| `DrainSeq`, `DrainRec`; `OneSeq`, `OneRec` | the specialised loops of `drain`, `drain_into`; `one` |
| `EachStart`, `EachReturn` | `each` and `fold`, cut at every callback |
| `SourceRaises`, `Unwind` | an error in the source or in a callback, up to the `pcall` at any depth |
| `Drop`, `Reset` | `break`; `boundary:reset()` |

`warm` is a drain whose closing lookup is `FinishedIsCached`; `cached` changes nothing.
An action is what one uninterrupted piece of Lua does: a pull is one call of a `gen`
function, a drain the whole loop (nothing can intervene), and `each` is cut where
the callback gets control.

`#t` on an array with nils is any border of it in Lua's reference manual, so
`HitLengths` is a set and the pull of a hit chooses from it. `Out` is a constant:
handlers are pure functions of the node, but may change what they produce at a
reset (that is what reset is for), hence `Out[g][n]`.

`Reentrant` says whether callbacks advance the recording they are being called
from. `FALSE` is the program that does not; section 4 says what happens to `each`
and `fold` with `TRUE`. The theorems that need `FALSE` say so; the others are proved
for both.

### PvmArgs and the code

The heap of Lua tables is explicit: objects are levels (tables keyed by argument,
`Arg` includes the key that stands for nil), entries and result buffers, because the
code tells them apart only by where they were reached. A call looks the cache up
(`CallHit`), then the pending tree (`CallShared`), and otherwise runs the handler.
`handlers` is the stack of handlers running, each with the values of `cache_root`
and `pending_root` that its caller looked up *before* the handler ran; they are
used *after* it (`HandlerReturnsFull`, `pvm.lua:626`). Recordings are finished as a
whole (`FinishFull`, `FinishLast`): pulling is `PvmPhase`'s subject.

### PvmNested and the code

`frames` is the Lua call stack and `ret` the value being returned. A step is what
one function does between two nested calls: a handler calling the phase on its next
child (`HandlerCalls`), `recording_gen` being asked (`PullChild`), its answer
arriving in `concat2`, `concat3` or `children_gen` (`ChildAnswers`), the call of the
next child by `children_gen` *after* its index has been stored (`PullNextChild`). A
node of one to three children is concatenated from triplets the handler obtained; of
four or more, `children_gen` calls the phase child by child. An error empties the
stack and leaves what was assigned. Nodes are immutable and built bottom-up, so they
are acyclic: `Rank` states that.

### MoonJit and the code

| Model | Code |
|---|---|
| `handleOf`, `ready` | `stable_funcs` and `spec_cache` with `body_ready`; a spec is an opaque value, what the JIT reads of it is `NameOf`, `Arity`, `SignatureOf`, `CallsAs` (the names it calls and the signatures it calls them with; `Calls` are the names alone) and `Helpers` |
| `functions`, `nextHandle`, `hits`, `misses` | the fields of those names |
| `defined`, `toFinalize`, `relocated`, `links` | the state of cranelift's `JITModule`: what has a definition, what waits for finalization, what was relocated, and where direct calls go |
| `imports` | the names `JITModule` has a declaration of, each with the signature it was first declared with; nothing takes one back. `Startup` is there from the start (`MoonliftJit::new`) |
| `Lower` | `build_function_context(_typed)`: what a body calls and its unit does not bind, and the runtime helpers it needs, are declared one after the other before anything else can go wrong; a name declared otherwise before is an error, and what was declared by then stays |
| `active` | the thread-local `ACTIVE_DIRECT_FUNCS` |
| `job` | the request in progress: which step of `compile_stable_specs` or `compile_function_without_cache` comes next |
| `Declare`, `BeginBodies`, `DefineBody`, `FinishUnit` | `compile_stable_specs`: one record; the names and what is pending; one body; finalization and publication |
| `Fail`, `Finalize` | an `Err`, a panic caught by `catch_unwind`; `finalize_definitions` with its panic at an unresolved symbol (cranelift's, taken from how the code uses it) |
| `CompileFunction`, `CompileModule`, `CompileEntry`, `CompileUnoptimized`, `CompileSource...`, `Call` | the Lua entry points of `runtime.rs` |
| `DumpDisasm`, `DumpDisasmUnoptimized` | a listing: the function, optimized or not, is lowered into the module all requests share, compiled and thrown away; its declarations stay |

`leftover` and `answer` are history variables. A cached function has three pieces of
code, named in the model by what they are: *packed* (what the host calls), *entry* (a
trampoline through a cell) and *body*.

### MoonPlan, MoonIR, MoonOpt and the code

`MoonPlan` makes the recursion of `strongconnect` a stack of frames: `Root`, `Descend`,
`Look` and `Return` are the loop over positions, the recursive call, the other branch of
the loop over callees, and the end of a call. `PlanClosure` is the walk over components.

`MoonIR` is an interpreter of the function specs the lowering accepts: `Eval` and `Exec`
return the value, the log of loads, stores and calls, and `ok`, `trap`, `refused` (the
lowering rejects the code) or `long` (out of `Fuel`). Numbers are bit patterns of two
widths, a narrow and a word, with signed, unsigned and boolean types; traps are
assertions, bounds checks and divisions. `MoonOpt` is `optimize_function_spec`
operator by operator, and a small state machine that calls a function as given, compiles it
optimized and calls it again.

### MoonGrammar, MoonParse and the code

`MoonParse` starts from tokens: a token is its text, but `"id"`, `"num"`, `"str"` and
`"splice"` stand for all that carry one, `"nl"` for a line break or a semicolon. A parse function is a
sequence of steps (expect a token, skip separators, call, if or while a token can be eaten,
choose by the current token, ...), and `Do` takes a step as the code does, with the place
in the tokens, whether an error was met, and the nodes made so far. `Infix` is the loop of
`parse_expr_bp`. A node keeps its kind, its operator and its span. The five entry points are
the actions. `MoonGrammar` is written from the document, section by section: a production is
data, `Ends` computes the *set* of places where a string of it may end, so it needs neither
lookahead nor binding powers. Parts the document does not have are marked `Added`, parts of it the
parser does not take are marked `Dropped`, and a *reading* says which of them count and whether
separators must be there: `Parsed` is the document as the parser takes it, `Document` the document as it is written.
`AcceptsGrammar` is exact but for separators: what `Parsed(TRUE)` derives must be accepted, what is accepted
`Parsed(FALSE)` must derive. `MCParse` has a text for each mark (`Gained`, `Lost`) and TLC evaluates
that the two readings differ on it (`Deviations`); the texts are in the run, so the parser does take the
first and refuse the second. Section 4 lists the marks.

### MoonBack, MoonFfi and the code

`Collect`, `DeclareAll`, `DefineData` and `DefineBody` are the passes of `Compiler`, and
`LowerCmd` one command of a body; a command is a record of its kind and the identifiers it
names; `Shaped` says which operands each kind has. `Collected`, `Written`, `Bound` and `Lowered`
are the loops of the code: what there is after each of the commands, initializers or names.
They are functions of the program, because nothing interrupts a compilation; the
state machine is `MoonFfi`: jit, program and artifact are pointers (`None` or one value),
`error[t]` is the thread-local last error, `shown[t]` whether the thread's last call was
reported as a success, `up` whether the process still runs. A session (`session`) is what the
host pushes, and by how many threads; `SessionAssumption` says that its commands have the
operands `ffi.rs` gives them. Entry names (`bindentry`) name *all* parameters the block has by then,
those of the function appended last (`lib.rs` 1003-1019), and `BackRules` asks for as many.

What is modelled is a release build: the debug assertions of cranelift-frontend about
sealing and filling blocks are not made. `SealBlock` looks its block up and does nothing
else, since `lower` seals all blocks at the end. Cranelift's verifier may refuse any
lowered body (`refuses`), nondeterministically. Integers are `Byte` and `Long` bits wide
in place of 8 and 64; `i16`, `i32` and `f32` are left out.

## 3. The runs

| Run | Question | Bounds | Result |
|---|---|---|---|
| `phase_core` | is everything promised kept, with two consumers on two nodes, a reset and an error? | 2 nodes (one empty before the reset), 2 consumers, 1 reset, 3 calls per generation, 1 error | `TypeOK`, `Filed`, `CommitWhole`, `ReadersExact`, `FinishedIsCached`, `StatsAccount`, `CommitsStable`, `OldTablesClosed` hold, and `PvmPhase` implements `PhaseContract` |
| `phase_live` | does a consumer that goes on pulling come to its end, and get exact results, even if callbacks advance recordings under each other's loops? | 1 node of 3 elements, 3 consumers, 3 calls, 1 error | `PullersExact`, `ReadersFinish` hold |
| `args_uniform` | do answers belong to their arguments, is no result of mode `full` lost? | 2 nodes, 3 pairs of arguments (one with nil), 3 modes, 4 calls, 1 reset, handlers calling the phase on another node | `AnswersMatch`, `FullHistory` hold |
| `nested_tree` | recordings inside recordings with sharing and errors | a tree in which one node is a child twice of another, and shared with the program; both concatenations; 2 consumers, 2 errors | `CommitFlat`, `HeldExact`, `InnerFirst`, `OncePerNode`, `Returns` hold |
| `jit_core` | is what a callable handle reaches complete, and does it stay, whatever fails? | 5 specs: one that calls another and needs a runtime helper, two that optimize to one, which calls itself, one rejected, one with an unresolved symbol that calls the helper with a signature of its own; units of up to two, listings, 4 handles, statistics that saturate at 2 | `TypeOK`, `CallSafe`, `NamesForgotten`, `MissesAreRecords`, `FailuresExplained`, `UnitLinks`, `HandlesStay` hold |
| `jit_lost` | does a handle that was returned run? | 4 specs, two units, 5 handles | `CallsRun` fails (finding 1) |
| `jit_units` | is a unit linked to itself if a name means two functions? | 3 specs, two of one name, 5 handles | `UnitLinks` fails (finding 2) |
| `plan_all` | is the plan right? | every call graph of four functions, one of which may call outside; the empty unit, repeated names | `ComponentsExact`, `CalleesFirst`, `StackSound`, `ClosureExact`, `PlanEnds` hold |
| `opt` | does the optimized function mean what the function as given means? | words of 5 bits, narrow integers of 4, an array of 5, 36 pairs of arguments; for loops by one of three types, their direction given or not, their end included or not, offsets -1 to 1; phi loops by 1 and by -1, with `+` and with `-`, one or several variables, initial values that read names the loop hides; nested and left loops; every operator on constants and arguments; checks, divisions, asserts. Without the cases section 4 lists | `SameMeaning`, `TrapsKept`, `InsideArray` hold |
| `opt_next` | the same for a phi loop whose next values read each other | Fibonacci | `SameMeaning` fails (finding 3) |
| `parse` | does the parser accept the documented language but for the marked differences, and group it as documented? | about thirty programs and fragments that together use every production, each also with one token left out, repeated, exchanged with the next or replaced by one of 21; operators of every level, two and three in a row, with prefixes, suffixes, parentheses and `if`, `switch`, `do`, `func` and `loop` expressions as operands; a text for every difference: 14 089 texts | `AcceptsGrammar`, `TreesGroup` hold |
| `back` | does the back end accept exactly the programs that keep the rules, and the interface report exactly what happened? | four programs, each as it is and with one command removed, doubled, swapped with the next or replaced by one of a vocabulary of about fifty, compiled after every push; two threads with bad pointers and strings over one jit and program; integers of 2 and 4 bits | `AcceptsExactly`, `AbortsExplained`, `DataExact`, `SwitchesDispatch`, `RefusedChangesNothing` hold |

**Why the bounds suffice.** A phase treats nodes independently, so two nodes (one
with an empty output, which makes the first pull also the last) show every
interference there is between nodes, and a second generation shows interference
with a replaced one; a third is to the second what the second is to the first.
Two consumers are enough for one to advance, finish or abandon what the other
holds; three are used where a loop is disturbed by one while another waits. Three
elements leave a first, a middle and a last; shorter ones merge cases. An error
leaves only a prefix in the buffer, so a second error in the same recording adds
nothing new. `MaxCalls` and `MaxErrors` bound the counters; `MaxGen` bounds resets. The
theorems of section 5 hold for all values of these.

In `MoonJit` two requests interfere through the cache, the handles and the list of
functions to finalize; a unit of two has one function before and one after any step that
fails, and four handles let two units and a single function follow each other and run
out. The theorems of section 5 hold for all bounds. Tarjan's algorithm first meets all
its cases (a cross edge into a finished component, two cycles sharing a function, a
callee on the stack that is not the caller) on four functions. In `MoonOpt` an array of
five in words of 32 values leaves room for indices below, inside, above and wrapped
around; loops are entered with every pair of six starts and ends, so they run zero, one
and several times in both directions. In `MoonFfi` a mistake is one command: the rules
relate at most three commands at a time (a declaration, a body that uses it, the value
used), and every prefix of a program is compiled, so what comes later may be missing.
In `MoonParse` a choice looks at one token, in two places at two, so one wrong token in a
program that uses every production takes every wrong turn there is; grouping depends on the
levels of neighbouring operators, and three in a row have two neighbours.

`phase_core` and `phase_live` run a phase without a value function (`Scalar = FALSE`). With
one, every recording has one element, a hit is packed with its length (`HitLengths`) and
nil values come through; the theorems of section 5 cover both.

`SYMMETRY` permutes consumers only, which no definition distinguishes, and is not used
with liveness. `CHECK_DEADLOCK FALSE`: the program may stop, and does at the bounds; a
`MoonOpt` behaviour ends after its two calls, a `MoonFfi` one when the process is down or the host is done.

**Fairness.** Lua runs one thing at a time, and nothing but the consumer itself
suspends it. `ReadersFinish` is about a consumer that goes on pulling (`WF(Pull(r))`)
and callbacks that return (`WF(EachReturn)`); no fairness is assumed of the other
consumers, of calls, or of resets, so it says that nobody has to wait for somebody
else. Reentrant loops make `MayAdvance` irrelevant there. `Returns` in `PvmNested`
assumes only that a function that was called runs on (`WF(Machine)`), none of the program.
`PlanEnds` assumes that the one call of `build_module_compile_plan`, which nothing interrupts, goes on.

## 4. Findings

| # | Run | Source | The code | What is said of it |
|---|---|---|---|---|
| 1 | `jit_lost` | `cranelift_jit.rs:633` | the record of a function whose unit failed stays, and its wrapper waits for finalization; a later request whose finalization panics drops that list, so compiling the function again gives a handle whose wrapper was never relocated | `MOONLIFT_SPEC.md:1243` "Compiling a module yields a host-side handle with: ... compiled exported functions by name" |
| 2 | `jit_units` | `cranelift_jit.rs:656` | a record is found by its spec, which names its callees but does not contain them: a unit that brings another `g` with an `f` compiled before gets the old `f`, whose code calls the old `g` | `MOONLIFT_SPEC.md:1198` "Calls between known Moonlift functions in the same compilation unit lower to **direct calls**" |
| 3 | `opt_next` | `cranelift_jit.rs:1172` | a phi loop rewritten to a for-range assigns each further variable before the next is computed | `MOONLIFT_SPEC.md:969` "`next` assignments are simultaneous" |

Met while modelling, followed by the models and kept out of what the passing runs
assert; each is what a reader of the code should know before relying on the property
beside it.

*pvm* (`src/pvm.lua`):

- `each` and `fold` (`:927`) hand over the *newest* buffered element after an advance; a
  callback that itself advanced the recording makes the loop skip. `ReadersExact` of such
  consumers needs `~Reentrant`.
- A nil element survives the first reading; a hit (`:151`) is measured with `#` and may be
  shorter. The theorems about what a consumer gets assume `Dense`.
- After a partial drain the next access joins the abandoned recording (`:536`); the comment
  at `:20` says "next access re-evaluates lazily".
- `phase(n, a)` after `phase(n, a, b)` takes an inner level for a result (`:338`): argument
  lists of one phase must have one length, and `args_uniform` has.
- Mode `last` overwrites the pending slot of a recording in flight (`:606`), so a second one
  is begun for the same arguments.
- Roots looked up before the handler are tested after it (`:626`); if the handler calls the phase
  on its own node with other arguments, the tables that call made are replaced. `FullHistory`
  is checked for handlers that call it on other nodes.
- `children_gen` (`:1300`) moves past a child before the child's phase is called; if that
  raises, the next pull leaves the child out and the parent commits without it. `CommitFlat`
  is checked with errors in the sources only.
- `docs/PVM_GUIDE.md:427` says that after a call "the handler has not run"; the handler does run
  in the call, and it is the triplet it returns that is lazy.

*moonlift-old JIT* (`cranelift_jit.rs`):

- A name called from outside the unit is declared in the one module all requests share (`:2957`, the
  runtime helpers at `:2866` and `:2889`), and keeps the signature it was first declared with, whether the
  request succeeded, failed or was a listing (`:805`). A later function that is sound by itself is
  refused if it calls the name with another signature. `FailuresExplained` says that this,
  bad bodies and calls within the unit, no handles and earlier failures are all there is.

*moonlift-old optimizer* (`cranelift_jit.rs`), left out of `Sound` in `MCOpt`:

- Checks are hoisted out of an `if` inside the loop, so a loop may trap for an access it would
  not have made (`:1806`).
- `for ... step -1` without a direction, over a bounded array, gets a direction when its
  checks are hoisted while the step stays negative, and then runs differently (`:1884`, `:3460`).
- A descending unsigned loop to 0 inclusive wraps and traps as given, and reads outside once
  its checks were hoisted.
- A narrow unsigned index with a constant offset is checked wrapped and addressed unwrapped
  (`:3784`).
- Shifts by at least the width fold to 0, the machine masks the amount; a multiplication or
  `and` with 0 drops an operand that may trap; negative `i32` constants are sign-extended
  when built in Lua and zero-extended when folded.
- A hoisted limit may mention a name bound in the loop's body, which then is unknown.
- A direction given beside a constant step of the other sign is believed (`:940`): the checks are
  hoisted for a loop that goes the other way.
- A phi loop that goes on while its signed variable is above a bound and whose step is `i - (-1)`, that is up, is
  taken for one that goes down and rewritten to one (`:1080`).
- A phi loop that is rewritten declares its variables one after the other (`:1152`), where the loop
  itself evaluates all initial values first (`:3322`): an initial value that reads an outer variable of the
  name of an *earlier* variable of the loop reads that variable instead. The run has initial values that
  read their own name, and those of later variables.

*moonlift-old parser* (`parser.rs`), against `MOONLIFT_GRAMMAR.md`; `MoonGrammar` has the
document's form and the parser's, and marks them. `Added`, what only the parser takes:

- any expression as the target of an assignment (`:1126`; `MOONLIFT_GRAMMAR.md:729` says "lvalue ::= postfix_expr"): `a - b = 1` is accepted;
- a splice as an item and as a type;
- the words of the memory and cast operations as names of extern functions;
- `if` and `switch` expressions as operands of operators (`:623` of the document has them as the outermost levels only);
- methods of other types in an `impl`; an extern fragment with nothing in it; `next` with nothing after it; a
  comma before `while`;
- a variant without fields has no `end` (`:434`, as in the test at `:1754`);
- separators between statements, fields, variants and items may be left out, and what follows then may
  continue the statement: `x [3] []T {}` is not `x` and an array.

`Dropped`, what only the document derives:

- a loop expression as a statement or as the target of an assignment: a statement that begins with `loop` is read as the
  loop statement (`:776`), which ends before the arrow, though by `MOONLIFT_GRAMMAR.md:480` any expression is a
  statement. In the same way `if` and `switch` begin the statements of these names, which makes a difference when a
  branch of theirs is a loop expression;
- `&u8 -> void` as a type (`:299` of the document; a function type is `func(&u8) -> void`);
- a variant without fields that has its own `end` (`:214` of the document), which the parser takes for the end of the union;
- a bare `return` before anything but the end of its line, `end`, `else`, `elseif`, `case`, `default` and the end of
  the text (`:1035`): not before `next`. An operand on the next line is a statement of its own.

In all readings, where the document is silent or calls white space insignificant (`:44`) and the parser has to decide:

- a line break that is no separator may stand before an operand, after an attribute and around what a block or a
  list of lines holds, and nowhere else: one before an operator, `then`, `do` or `else`, before a
  closing bracket or before the name in `Pair { x = 1 }` is an error (`:1256`);
- the line break that opens a block is also its first statement's separator, and `;` and a line break are one token;
- `assignment_expr` and `type_name`, which the document uses and does not define, are the lowest level of
  operators and a dotted name;
- the value of a loop expression, after its `->`, takes all that follows.

*moonlift back end* (`src/moonlift/src`):

- An `extern` named `moonlift_data_...` like a data object is refused, since both are symbols of one module.
- An `extern` that is called and that nothing resolves, or an instruction before any
  `SwitchToBlock`, panics inside Cranelift; through `extern "C"` that ends the process.
  `AbortsExplained` shows that nothing else does. In the model a call in a block that nothing reaches
  counts as well, which Cranelift may drop.
- `ConstInt` of a byte parses 64 bits and truncates, `DataInitInt` of a byte refuses.
- `Alias` rebinds a value silently; every other definition of a value twice is refused.
- Commands after `FinalizeModule` are accepted.

## 5. The proofs

Proved for every set of nodes, consumers and values, any outputs and any bounds (of
Moonlift: every set of specs, units and symbols, every optimizer that keeps names, every
call graph; every program of commands, of any length, over integers of every width allowed;
of nested recordings: every finite tree with sharing):

| Theorem | Statement | Assuming |
|---|---|---|
| `Inductive` | `Spec => []IInv` | - |
| `TypeCorrect` | `Spec => []TypeOK` | - |
| `NoDuplicateWork` | `Spec => []Filed` | - |
| `CommitsAreWhole` | `Spec => []CommitWhole` | - |
| `CommitsAreStable` | `Spec => CommitsStable` | - |
| `OldTablesStayClosed` | `Spec => OldTablesClosed` | - |
| `CountersAddUp` | `Spec => []StatsAccount` | - |
| `PullersGetAll` | `Spec => []PullersExact` | `Dense` |
| `TheFinishedAreCached` | `Spec => []FinishedIsCached` | - |
| `ReadersGetAll` | `Spec => []ReadersExact` | `Dense`, `~Reentrant` |
| `PhaseKeepsContract` | `Spec => ImplementsContract` | `Dense`, `~Reentrant` |
| `JitTypes` | `JitSpec => []TypeOK` | - |
| `HandlesCallable` | `JitSpec => []CallSafe` | - |
| `NamesAreForgotten` | `JitSpec => []NamesForgotten` | - |
| `HandlesAreKept` | `JitSpec => HandlesStay` | - |
| `MissesCounted` | `JitSpec => []MissesAreRecords` | - |
| `RefusalsExplained` | `JitSpec => []FailuresExplained` | - |
| `LinkedToItself` | `JitSpec => []UnitLinks` | `NamesMean` |
| `StructureHolds` | `Spec => []Structure` (`PvmNested`) | - |
| `RecordedOnce` | `Spec => []OncePerNode` | - |
| `ContentsHold` | `Spec => []Contents` | `~CallFails` |
| `CommittedFlat` | `Spec => []CommitFlat` | `~CallFails` |
| `InnerCommitted` | `Spec => []InnerFirst` | `~CallFails` |
| `ProgramGetsFlat` | `Spec => []HeldExact` | `~CallFails` |
| `AnswersAreTheirs` | `Spec => []AnswersMatch` (`PvmArgs`) | `Uniform` |
| `HistoryIsFull` | `Spec => []FullHistory` | `Uniform`, `~SelfCalls` |
| `TarjanHolds` | `PlanSpec => [](Types /\ Tarjan)` | - |
| `StackHolds` | `PlanSpec => []StackSound` | - |
| `CalleesComeFirst` | `PlanSpec => []CalleesFirst` | - |
| `ComponentsAreExact` | `PlanSpec => []ComponentsExact` | - |
| `ClosureIsExact` | `PlanSpec => []ClosureExact` | - |
| `CollectExact` | what `Collect` lets through keeps the rules of declarations and nesting, and conversely | `p` is made of shaped commands |
| `PrefixHolds` | the lowerer after `i` commands of a body has what the rules give to `i` positions | `p` is made of shaped commands |
| `CompileExact` | `Compile` against `WellFormed`: what is accepted, what panics, what is made | `p` is made of shaped commands |
| `InterfaceHolds` | `FfiSpec => []Inductive` | - |
| `NothingHalfDone` | `FfiSpec => RefusedChangesNothing` | - |
| `AcceptsTheRules` | `FfiSpec => []AcceptsExactly` | - |
| `AbortsAreExplained` | `FfiSpec => []AbortsExplained` | - |
| `DataIsExact` | `FfiSpec => []DataExact` | - |
| `SwitchesAreExact` | `FfiSpec => []SwitchesDispatch` | - |

`Dense` says that the phase has a value function (hits are packed with their length) or
that no output contains nil; section 4 says what happens otherwise, and without
`~Reentrant`, so neither can be left out of `ReadersGetAll`. The other hypotheses:

- `NamesMean` (a name means one optimized function, and none of the linker's) is what the
  code relies on; `jit_units` is the counterexample without it (finding 2).
- `~CallFails`: no handler fails while `children_gen` is pulling. `children_gen` stores
  its index before it calls the child's phase (section 4), so that after such a failure the
  child is skipped and the commit lacks it: without the hypothesis `CommitFlat` is false.
  Errors of sources, anywhere in the stack, are covered.
- `Uniform`: all argument lists have one length. Otherwise a walk through the levels may
  end at a level of another call and take it for a result (section 4).
- `~SelfCalls`: no handler calls the phase on its own node with other arguments, only
  `HistoryIsFull` needs it: what such a handler's call records is replaced when the outer
  call files its level (section 4). `AnswersAreTheirs` covers such handlers too.

They rest on `BoundsAssumption` and `OutputAssumption` of `PvmPhase` (the bounds are
numbers; `Out` gives a sequence of values for each generation and node, of length one
for a value function), which TLC evaluates in every `MCPhase` run, and on `SpecAssumption` and
`JitAssumption` of `MoonUnits` and `MoonJit` (finitely many specs, the optimizer keeps a spec's
name, `Calls` are the names of `CallsAs`, and what the JIT declares for itself the linker has), evaluated in every `MCJit` run; on `TreeAssumption` of `PvmNested` (children are of
lower rank) and `ArgsAssumption` of `PvmArgs` (argument lists are not empty), which `MCNested`
and `MCArgs` evaluate; on `PlanAssumption` of `MoonPlan` (a unit is a sequence of specs), which
`MCPlan` evaluates; and on `WidthAssumption` of `MoonBack` (a byte has one to eight bits, a word a
whole number of bytes) and `SessionAssumption` of `MoonFfi`, which `MCFfi` evaluates.

**The argument.** None of the invariants is inductive by itself. `CommitWhole` fails to
be kept by a finishing step unless one knows that what is in the buffer is a prefix
of the source; that is lost when a recording could be advanced after it is done, or
if two recordings were filed under one slot. So `IInv` says three things together:

- `EntriesOK`: tables and recordings are of their types, they are `Filed`, and
  every buffer is exact (`BuffersExact`): a prefix of its source's output, and the
  whole of it once `done`;
- `ConsumersOK`: every consumer holds a recording that exists, at a position inside its
  buffer, and a hit is a finished one, so that `Buf(e)[i]` is always defined;
- `CountersOK`: the generation, the counters and the bounds.

`Grows` is the relation every step has between the recordings before and after it: none
disappears, buffers only grow, a finished one does not change. `AdvanceStep`,
`FinishStep` and `BeginStep` show that the only three ways in which the code changes
recordings keep `EntriesOK` and have `Grows`; `HoldingStable` shows that `Grows` keeps what is known
of consumers; and one lemma per group of actions (`CallInvariance`,
`PullInvariance`, `TakeInvariance`, `LoopInvariance` with `EachInvariance`,
`UnwindInvariance`, `LooseEndInvariance`) puts them together. `CommitsAreStable` and
`OldTablesStayClosed` follow from `IInv` and the same step lemmas.

`StatsAccount` needs two facts more (`CountsOK`): no recording is of a generation to come,
or a reset could find recordings already begun in the new one; and the counters add up
exactly as long as no handler has raised.

*What consumers get.* `IInv` places a consumer somewhere inside its buffer; `ExactInv` says how
its position and what it has got hang together. For one that pulls, `got` is a prefix of
the buffer as long as its position, and the whole of it at the end. For `each` and
`fold` there are two phases: below `hi` they hand over the elements they found buffered
when the loop began, at their own position; above it they hand over the newest element of
the buffer, and are exact only while nobody else has made the buffer longer. So an invariant about one consumer depends on steps of others:
`Undisturbed` says that a step leaves alone the buffers that others are iterating, which is what
`~Reentrant` gives (through `MayAdvance`). `Watched` tells the two kinds of consumers apart, so that one
induction yields both `PullersGetAll` (callbacks may do anything) and `ReadersGetAll`.
`Dense` enters at one place: the length of a hit is then the length of its buffer.
`TheFinishedAreCached` needs neither assumption. It rests on `EndsFinished`, that a consumer at its
end reads a finished recording, which every step keeps whatever length a hit was measured at
and whatever a callback advances.

*The refinement.* `PhaseContract` has neither tables nor recordings, so the mapping shows
of a consumer only its generation, its node and what it has got (`View`). Every step of `PvmPhase`
changes the view of at most one consumer, in one of the four ways the contract allows
(`Moves`): letting go, opening with nothing got on the current epoch, getting more, ending.
That it gets the right elements, and ends only with all of them, is then `ReadersExact` before
and after the step.

*The JIT.* `CallSafe` says what a *callable* handle has, but handles become callable in
one step at the end of a unit, so what that step publishes must have been prepared by all
the steps before, and none of the failures in between may spoil what others rely on.
`IInv` of `MoonJit_proofs` has five parts besides the types:

- `HandlesUnique`: handles are given out in order and each belongs to one spec, or to a
  function without a record; a record's handle is callable exactly when its body is ready;
- `CodeOwned`: only given-out handles have code, and an entry belongs to a record; hence a
  packed function of an unoptimised compilation is never mistaken for a wrapper;
- `Relocations`: a ready body is relocated; a wrapper is relocated, or waits for it, unless its
  unit failed. This is where `leftover` enters: a failed unit's wrapper may have been
  dropped, which is finding 1, and without the exception the invariant is false;
- `LinksLead`: direct calls of callable code lead to callable code or to the linker;
- `JobOK`: what the request in progress has done so far: records without a body belong to it or to
  a failed unit, the bodies before `at` are waiting for finalization and call only the
  unit, and names are bound only while bodies are defined.

`FailedJob` and `FinalizeFails` show that an error anywhere leaves `IInv` (everything without
a body becomes a leftover), `DefineFrame` that code defined for a handle nobody can call
disturbs no other, and one lemma per action puts them together. `OrderedIsSequence` is
needed because a compiled entry gets a sub-sequence of the unit the host gave, chosen by
counting: the numbering of the chosen places is injective into as many numbers, hence
onto. `MissesCounted` rests on the finiteness of the specs and on `FS_AddElement`.

`RefusalsExplained` says what a request is refused for. That a body is bad, miscalls a function of its
unit or calls a name that was declared otherwise can be read off `Lower`, as long as the names bound
are those of the whole unit (`Named`) and `imports` only grows. The two other outcomes are what the invariant is
needed for: as long as `leftover` is empty nothing may be in the
way of a definition or of finalization (`Undisturbed`): every record has its entry, only
bodies the request has made exist, what waits for finalization is its own, and its links are calls of
the unit. `LinkedToItself` needs that a link leads to *some* record of the name called, for ready
bodies and for those begun (`ReadyLinked`, `BegunLinked`); `NamesMean` then makes that
record the unit's own function.

*Recordings inside recordings.* `Structure` has what can be said without looking at
elements: the tables and the recordings name each other (`Tables`); a source's triplets read
recordings of the right children (`Sources`); frames of the call stack get strictly
lower in the tree towards the top, so no recording is pulled while it is being pulled (`Stack`); every
frame waits for exactly what the frame above is doing (`Links`), and what has just been returned
is what the top frame waits for (`Answers`); what the program holds is a piece of its recording
(`Holds`). An error empties the stack at any point, and `Structure` must survive
with the sources where they stand; that `children_gen` may have moved on without asking is
why `Awaits` looks at the stack. `Contents` adds the elements: a recording has the output of the
children `Behind` its source, followed by what its current child's triplet has given (`Part`), and
the children behind are committed. One lemma per piece of Lua between two calls shows that it
keeps both. `CommitFlat` compares with `Flat`, a function over the tree: `FlatIs` shows by induction
over the height that the recursion has a value, which a `CHOOSE` does not give for free.

*Argument caches.* Levels, entries and results are tables without a mark of what they are for, so
the invariant has to say of every level which node, which generation and which
arguments lead to it. That is nowhere in the state: `Full(lab)` is stated for a labelling `lab`
of the heap, and the theorem is about *some* labelling (`\E lab`), which every
step extends by the levels it makes. `Tree` says that a labelled level is reached from the level with one argument less
and nowhere else; `RootsOK` and `HandlersOK`, that the roots in the table and those a running
call still holds are tops of their node's trees, of the generation when they were looked
up; `EntriesOK`, that a recording will write at the level of its own arguments; `SlotsOK`, that a
slot at the last level is of a recording with just those arguments, finished in the
cache and unfinished in the pending tree. Mode `last` needs `LastOK` only. `HistoryIsFull`
adds that no two recordings are for the same thing (`Once`), that what handlers are computing has none (`Fresh`),
that a node has one running handler (`Alone`, from `~SelfCalls`) whose roots are therefore still the
node's (`RootsKnown`), and that every recording since the reset can be found (`AllFound`).

*The compile plan.* `Tarjan` is the invariant of the algorithm, for calls made explicit as
frames: the stack has what has an index and no component (`Stacked`); the frames are a path
of calls on the stack (`FramesOK`); what lies above a frame's function was reached from it (`Under`); a
lowlink is the index of something on the stack that can be reached (`LowReached`), no greater
than that of any callee looked at or of anything returned (`LowSeen`, and `Finished` for
calls that are over); a component was whole when it was made and calls only earlier
ones (`Components`). The hard step is the end of a call whose lowlink is its own index: that
what is above it on the stack is one component. What is above is reached from it by
`Under`; that it is reached back (`StackReachesTop`) is by strong induction on the index: a
finished function's lowlink is smaller than its index, and belongs to something it reaches.
That nothing outside is mutually reachable is `Left`: what is popped calls only what is popped
and earlier components. `Reached` is computed by rounds; that as many rounds as there are functions
saturate (`RoundsReach`) is a counting argument, and makes it the *least* set closed under calls, which is
all the other lemmas use. The walk over components is another such saturation, over components instead
of functions; `ClosureIsExact` shows both give the same functions in the same order.

*The back end and the C interface.* The interface's own invariant (`Inductive` of
`MoonFfi_proofs`) is short: the program is a list of commands as the interface makes them
(`Handles`); the answer is `Compile` of that program with the symbols there were (`Answered`); the artifact
is of a program that compiled (`Made`); a dead process has an answer that says so
(`Down`). It is what makes the other theorems statements about `Compile`, for every order of
calls by every number of threads. In particular the program is pushed to while an artifact of
an earlier prefix is held, and symbols are registered and jits freed after a compile: an answer
is about the symbols of its own moment.

What `Compile` does is the work. `BackRules` speaks of positions in the whole program ("a
signature is declared somewhere before", "the last command that gave the name a value"); the
code keeps tables and looks at one command. So each pass has an invariant that says what it
has after `i` commands in terms of positions up to `i`, a lemma that one more command keeps it, and a lemma
that the command is refused exactly when it breaks a rule *here*; induction on `i` adds
up the rules here to the rules of the program.

- `CollectHold`: the tables list the declarations up to `i` (`TablesHold`, `Lists`), the open body has
  the commands since its begin, the closed ones theirs (`NestHold`). Two rules of nesting are not
  collect's: that a body is of a declared function, and that no initializer or `finalize` stands in
  one, is for the lowering to find, so that `CollectExact` is about `Nested` and
  `NestingExact` puts the two halves together.
- `ObjectHold`: the bytes of an object after `i` commands are those of the last initializer that covers
  them, and it has failed exactly when one of its own did not fit. `DataIsExact` is the end of it.
- `LowerHold`: the names and types (`NamesAre`), blocks and their parameters (`BlocksAre`), slots,
  externs and jump tables (`RestAre`) after `i` commands of a body. The hard part is `NamesAre`: the lowerer
  keeps the type of a name when it is bound, the rules find it from the last binder
  (`Binder`, `GivenTypes`, a recursion along the chain of operands), and an alias may
  bind a name again.
- `DefineExact` says of a body: lowered, refused or a panic, and which; `CompileCases` which
  body's outcome is the program's. That all bodies are lowered before the linker is asked, and one body's
  panic may hide behind the refusal of an earlier one, is why `AbortsAreExplained` says that some
  mistake of these two kinds is there, and not which.
- `SwitchesAreExact` comes from `CasesDistinct`, which looks at masked bits, by arithmetic: two
  literals with the same bits are the same case for every width (`Wraps`, `Dispatches`).

The model's loops are recursive functions, not RECURSIVE operators, so that the provers
can unfold them: a recursive function is a `CHOOSE`, so that it has a value is shown once for each,
by induction on its length (`CollectedDef` and its siblings), and everything else cites the equation.

*Induction.* The library's theorems about induction take an operator as a parameter, which
the provers cannot instantiate. `DataInduction` states what is needed with sets and functions instead: a
set of naturals closed under successor is all of them (`SetInduction`), and a step given as a
function can be iterated. `FlatIs`, the walks of `PvmArgs`, the rounds of `MoonPlan` and the passes of `MoonBack` rest on it.

**What stays with TLC.** Liveness (`ReadersFinish`, `Returns`, `PlanEnds`): the prover has no
rules for fairness and ENABLED. `SameMeaning`, `TrapsKept` and `InsideArray` of `MoonOpt` compare
two runs of an interpreter of nested statements (`MoonIR`), and `AcceptsGrammar` and `TreesGroup` of `MoonParse`
a set of parse functions with a grammar: both are mutual recursion over trees or over what is left of the
text, with RECURSIVE operators, which the provers cannot expand, and need induction over that data with
an operator as the hypothesis, which they cannot instantiate.

## 6. What is not modelled

Of `pvm.lua`: `report`, `report_string`, `seq` and `seq_rev` (reads only); weak keys and
garbage collection (a table entry that disappears with its node is never asked for
again; whether it *does* disappear is a question about the collector, listed as a
hazard without a property); the text of errors; `concat_all` of more than three
triplets (its control is `children_gen`'s without the calls). The actual elements:
handlers are the constants `Out` and `Kids`.

Of Moonlift: the numbers that listings are made under running out, and functions that call the names the old JIT gives
its own code; Cranelift itself (its instruction selection, register allocation and
verifier); floating point; `memcpy`, `memset` and the other memory helpers of the old
runtime; reading specs out of Lua tables; the lexer, and the type-directed translation of
the parser's tree, which are pure functions without state to go wrong between calls; what
a node of the tree says beyond its kind, its operator and its span; error messages; dumping
CLIF. The legacy `locals` of a spec are always empty by the time the JIT sees it (the
reader turns them into statements), so `MoonIR` has none.

Of the repository: the iwatjit runtime and the watjit containers, asdl interning, the
user interface, the web server, the map-tile server and the language server have state
of their own and no model here; what hazards they have is listed in `PROJECT.json` at their lines.
The others have no state to go wrong (the other parsers, printers, pure layout phases), are
numeric (geometry), or depend on a semantics far beyond a bounded model (WebAssembly
emission, Cranelift).

## 7. How it was built up, and what would come next

1. `PhaseContract`, `PvmPhase`, `PvmArgs`, `PvmNested`, and the proofs about `PvmPhase`.
2. `MoonUnits`, `MoonJit`, `MoonPlan` and the proofs about `MoonJit`; `MoonIR` and
   `MoonOpt`; `BackRules`, `MoonBack` and `MoonFfi`; `MoonGrammar` and `MoonParse`.
3. `DataInduction` and the proofs about `PvmNested`, `PvmArgs` and `MoonPlan`; of `MoonJit`,
   what failures and links are due to.
4. `MoonBack` with its loops as recursive functions, and the proofs about `MoonBack` and
   `MoonFfi`. With them every safety property of a run is proved but those of `MoonOpt` and
   `MoonParse`.
5. Next in usefulness: the iwatjit runtime (entries, cursors, eviction, finalizers) with
   `PhaseContract` plus eviction as its abstract specification; asdl interning; the ui
   session and the web hub.
