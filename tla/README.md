# The Gazprea compiler: specifications, checks and proofs

This directory specifies parts of the Gazprea compiler and of its C runtime in
TLA+, checks them with TLC on small instances and proves theorems about them
with TLAPS. Every definition that models code is translated from the source;
`PROJECT.json` names the lines (`map`), the runs, the mutants that show each
property can fail, the hazards the properties are for, and the theorems.

## The system

`gazc` compiles one Gazprea file to LLVM IR; the IR is linked with a C runtime.

| Part | Source | State | Interacts with | What makes it correct |
|---|---|---|---|---|
| Parser | `grammar/Gazprea.g4` (ANTLR) | parse tree | AST builder | - (generated) |
| Pass manager | `include/Passes/PassManager.h` | registered passes, annotations by pass id | every pass | an annotation that is read is the one of the last run |
| AST builder | `src/Passes/BuildAST/ASTBuilderPass.cpp` | the tree | parser, all passes | the tree means what the source says |
| Scope resolution, symbol table | `include/Passes/BuildAST/ScopeResolutionPass.h`, `include/Symbol` | tree of scopes, current scope | identifiers of the tree | each use refers to the declaration in force |
| Type annotator, type registry | `ExprTypeAnnotatorPass.cpp`, `include/Types` | annotations, interned types | all later passes; run again after each rewrite | promotion is sound, a second run changes nothing |
| Checks | `src/Passes/Checks` | per-pass sets and flags | tree, annotations; a failed check throws and ends the compilation | what code generation relies on is what the checks accept |
| Rewrites | `src/Passes/Transformations`, `BuildAST` | the tree, sub-expression cache | type annotator | meaning is kept |
| Free-node insertion | `AddingFreeNodes*.cpp` | stacks of declared values | block structure | - (code generation ignores the nodes) |
| Code generation | `src/Codegen/CodeGenPass.cpp` | insertion point, blocks, loop stacks, symbol map, queue of globals | LLVM; emits calls to the runtime | well-formed functions that do what the source means |
| Stream runtime | `runtime/src/runtime.c` | ring of 1026 characters, cursor, stream state | standard input; compiled code | every character is delivered once, in order; failed reads take nothing |
| Expression builders | `runtime/src/filters.c`, `matrix_literals.c` | file-static vectors, sizes, flags | compiled code, possibly nested | the value built is the one the expression denotes |
| Definitions, globals | `EnsureDefinitionPass`, `EnsureValidGlobalInitPass`, `BubbleGlobalDeclarationPass.h` | sets of names, the order of the program, the queue of globals | scope resolution, code generation of `main` | every routine used has one definition, every global is set before it is read |
| Vectors, matrices | `runtime/src/vectors.c`, `matrix.c`, `casting.c`, `copy_ops.c` | heap structures with index vectors over shared data | compiled code | views write through, copies do not; indices stay in bounds |

There is no concurrency and nothing is persisted. What is hard here is
sequences: visitors that leave work to each other through shared state (the
insertion point, stacks, statics), passes whose order decides the result, and
reads from a stream whose end, like its buffer, comes in the middle of anything.

## Modules

| Module | What it is |
|---|---|
| `InputText` | bytes of standard input, narrowing of `getchar()` to `char`, what the C scanners accept |
| `AbstractInput` | what input promises: one cursor, reads that take a whole lexeme or nothing |
| `StreamBuffer` | `runtime.c`: the ring, `consume_next_n`, `put_data_in_read_buf`, the four scanners |
| `StreamBuffer_proofs` | theorems about `StreamBuffer` |
| `Statements` | statements as the parser delivers them |
| `Lowering` | `ASTBuilderPass` on statements, `EnsureReturnPass`, `ContinueAndBreakCheckPass`: what each visitor does at a node |
| `Passes` | the same three passes on whole trees, as recursive functions |
| `BlockCodegen` | `CodeGenPass` on statements: blocks, insertion point, loop stacks |
| `SourceSemantics` | reference meaning of a body, read off its structure |
| `CompiledRoutine` | composition: lower, check, generate, then run the code next to the source |
| `CompiledRoutine_proofs` | theorems about `BlockCodegen`, then about `CompiledRoutine`: jumps, and the end of a routine |
| `SameBehaviour_proofs` | the theorem that compiled routines do what their source means |
| `ProcedureCalls` | a procedure call: passes over its arguments, code generation of the call, writes of the callee |
| `ProcedureCalls_proofs` | theorems about `ProcedureCalls` |
| `VectorExprs` | vector expressions and statements, and what the runtime computes for them |
| `VectorValues` | what vectors promise: each has a value of its own |
| `VectorStore` | vectors as code generation and the runtime keep them: index vectors over blocks of data |
| `VectorStore_proofs` | theorems about `VectorStore` |
| `Types` | types of expressions, `isSameTypeAs`, promotion, `getWiderType` |
| `Expressions` | typed trees of operators over values, and scalar arithmetic and casts |
| `ExpressionMeaning` | reference meaning of an expression |
| `Annotation` | `ExprTypeAnnotatorPass`: the visitor of each operator, the casts it inserts |
| `ExpressionPasses` | assignment and return checks, removal of `null` and `identity`, rewrites of tuples |
| `ExpressionCodegen` | `CodeGenPass` on expressions and the runtime functions it calls, down to the value |
| `ExpressionPipeline` | composition: one statement through the passes in the order of `main.cpp` |
| `Programs` | programs as trees of declarations, names, domains, routines and calls |
| `ScopeResolution` | `ScopeResolutionPass.h`, the scope tree and the symbol table |
| `ScopeResolution_proofs` | theorems about `ScopeResolution` |
| `LexicalScoping` | reference: bindings, legality and output told from the text |
| `ProgramChecks` | composition: scope resolution, then the checks of definitions and of globals |
| `ProgramChecks_proofs` | theorems about `ProgramChecks`: names are bound as the text says, exactly the legal programs are accepted |
| `Execution` | the compiled program: symbol map, activations, loops over domains |
| `CompiledProgram` | composition: `ProgramChecks`, then tuple unpacking, move and queue of globals, run |
| `ExpressionBuilders` | `filters.c`, `matrix_literals.c` under the code that calls them |
| `ExpressionBuilders_proofs` | theorems about `ExpressionBuilders` |
| `RoutineSets`, `ProgramSets`, `MC*` | instances for TLC |

### The stream (`StreamBuffer`)

`buf`, `pop_idx`, `state`, `has_been_initialized` are the fields of
`stream_state_t`; `pos` counts calls of `getchar()`; `value` is what the last
scanner returned, `exited` its `exit(1)`. One action is one call of a scanner:
the runtime has one thread, so a call is atomic. `ensure_stream_state_init` is
part of every action (`ReadyBuf`, `ReadyPos`, `Scanning`), and the copy to
`scan_buf` is the pair `BlankRun`, `ReadRun` of positions at which its two loops
stop. Which tokens `strtol` and `sscanf` accept is data (`IntTokens`,
`RealTokens`); a token that starts with NUL leaves local variables of
`rt_scan_bool` and `rt_scan_real` uninitialised, and either outcome is allowed.
A byte 0xFF is narrowed to the same `char` as `EOF` and ends the input, as in
the code.

`AbstractInput` knows no buffer. The ring implements it with the cursor mapped
to `pos - BufLen`, the number of characters fetched less those that wait.

### Statements (`Statements`, `Lowering`, `Passes`, `BlockCodegen`, `CompiledRoutine`)

A statement is `[op, at, kids]`. Statements without control flow are `act`: the
model tells them apart by place only. `Built` is the AST builder, including the
early returns for bodies that are not blocks and the nest of `DomainLoop`s that
stands for several domains, of which only the first is breakable. `Returns`,
`HasStray` and `Accepted` are the two checks in the order of `main.cpp`. They are
functions over the statements at hand (`Parsed`, `Stmt`), closed under taking
parts; `Height` says that these are trees of finite height (`HeightAssumption`),
and `RoutineSets` builds them for TLC from all bodies of at most n statements.

`BlockCodegen` is the visitor as a state machine: `work` is the C++ call stack
(statements to visit, and for each visit in progress a frame with the blocks its
visitor still needs), `code` the blocks, `placed` those in the function's block
list, `ip` the insertion point, and the two stacks are the members of
`CodeGenPass`. A step runs one visitor up to the visit of its next child, so
`visitConditionalElse` is three actions. Blocks that LLVM creates detached
(`cond_true`, `cond_false`, the body of a conditional loop) enter `placed` when
the code inserts them.

`CompiledRoutine` executes the blocks and the source side by side. Conditions
and the ends of domains are chosen once for both; `Approach` runs each up to its
next visible act, `Perform` does it. Calls, values and the C runtime are not
part of it.

### Procedure calls (`ProcedureCalls`)

A call starts from any list of parameters (type, `const` or `var`) and any list
of arguments (`source`). The passes rewrite `args` in the order `main.cpp`
registers them (`Pipeline`): scope resolution counts them, `ChangeMemAccessToMemRef` makes references of the
arguments of `var` parameters, `CallableArgumentTypeChecking` counts them
again, compares types and casts, `ProcedureCallAliasCheck` looks for aliases, and the first pass
runs again. Each may throw, which ends the compilation (`error`). The passes in
between do not look at arguments; the type annotator runs after each of them and
is the operators `TypeOf` and `IsConst`. `visitProcedureCall` builds `frame`: the
address of what a reference names, a copy of the value of anything else. `Assign`
is the callee's assignment to a component of a `var` parameter, and `memory`
remembers the parameter each cell of the caller was last written through.

A slice is a view: its elements share the vector's data, and a view of it (which
is what an indexed assignment in the callee makes) indexes that data and not the
slice, as `rt_vector_view_scalar` does. The scalar element `v[k]` is left out as
an argument of a `var` parameter: `visitIndexReference` yields a vector where the
callee expects the address of a scalar, and no well-typed LLVM call results.
`Miscast` is an assertion of `llvm::cast`, which a scalar meets when the parameter
is a const vector (`canPromoteVectorTo`, `TypeHelpers.h:293`); the repository's CMake files set no
build type, so assertions are on.

### Vectors (`VectorExprs`, `VectorValues`, `VectorStore`)

A vector is a structure with an index vector and a pointer to data (`env`,
`heap`). `visitIdentifier` copies it (`rt_get_vec_copy__`), `visitIndex` makes a
view and copies that, `visitMemberAccess` hands out the member's own structure;
`visitDeclaration` stores the pointer it gets. `Yields` and `Raw` say which
happens to an operand: what the runtime computes from `data` without looking at
the index vector (`||`, the base of a view) is computed from `Raw`. The index
vector of a view is a value here; that it is the data of another structure, which
may be a tuple member, is left out.

An assignment builds its right-hand side, then its reference (`Target`: the
vector, or a view of its data), then runs `rt_vector_copy`, whose loop is one
action per element (`CopyStep`) so that its invariant can be stated. A scalar
assigned to a vector becomes a vector first. Nothing compares an index with the
bounds: a write outside the block sets `undefined` and may change any element in
use. `VectorValues` promises nothing from there on. A read outside the data
yields anything and is not a way out. Assigning vectors of
different sizes is `exit(1)`.

A *row* is a vector in a matrix literal: the literal copies it and frees its
data. Matrices themselves are not modelled, nor are calls that pass vectors.

`KeepMembers` says whether a program may store or free a tuple member as it is,
or assign a member to itself (`Keeps`): `var x = t.v`, `var u = t`, `[t.v, w]`,
`t.v[at] = t.v`. With `KeepMembers = FALSE` vectors are values; the run
`lingering_reference` has it `TRUE`. Assignments to `t.v[i]` are
included, although a build with assertions stops at one
(`ChangeMemAccessToMemRef.cpp:57` takes every base for an identifier).

### Expressions (`Types` ... `ExpressionPipeline`)

A node is an operator, its operands, its annotated type and, for leaves and
calls, its value; scalars are small, so that overflow never happens. `pc` walks
through `Pipeline`, the passes of `main.cpp` that look at expressions, with the
annotator wherever the driver runs it: a dozen times. `Annotate` is a fold of the
visitors over the tree; a visitor returns the node with its type and its operands
wrapped in the casts the code inserts, or `Rejected` where it throws. An
assertion that fails is a stop. The rewriting passes are functions on trees as
well, with `Descends` for those that return before they visited their operands.

`ExpressionCodegen` computes the value of what is generated: each visitor
chooses the runtime function by the annotated types, and the functions are
translated with their loops (`rt_arith` runs over the first operand and reads
whatever lies at the same place of the second, `rt_copy` copies as far as the
shorter side). A result is a value, `refused` (the generator throws or asserts),
`stopped` (the runtime exits) or `undefined`. Calls are leaves with a result;
`Executed` counts them, with the cache of sub-expressions (`CachedBases`).

`ExpressionMeaning` gives the value from the source tree alone. Comparing the
two needs to say what the compiler does not support. These forms are predicates
of `ExpressionPipeline`, each a gap a reader should know of:

| Predicate | What happens |
|---|---|
| `MixesKinds` | `==`/`!=` of a vector and a scalar is annotated (`ExprTypeAnnotatorPass.cpp:516`), and the generator throws (`CodeGenPass.cpp:833`) |
| `CastsUnsized`, `CastsTuple`, `JoinsOpaque`, `DividesRanges`, `MeasuresOther` | accepted casts of scalars to vectors of unknown length, of tuples that are no literals, concatenations with `null`, quotients of intervals, `length` of what is no vector: no case in the generator |
| `HalfBounded` | an interval with one bound that is no integer is accepted (`:1228` rejects only two) |
| `DiffersInLists`, `DiffersInMembers` | `!=` of vectors, and of tuples whose members are vectors or tuples, is the conjunction of the elements' inequality |
| `ComparesFlags`, `DotsFlags` | `==` and dot product of boolean vectors read integers |
| `CastsMatrix` | the runtime never sets the data of a cast matrix (`casting.c:215`) |
| `DotsRange` | an interval on the right of a dot product is wrapped at each visit |
| `HasWrittenLength` | `integer[3] v = [1, 2]` keeps two elements (`AssignmentTypeCheckerPass.cpp:81-83` says sizes are copied over) |

A call below a cast to a scalar is generated twice (`CodeGenPass.cpp:1545` and
`1602`); `CallsOnce` excepts it (`CastsScalar`).

Left out: generators, filters, domain loops, rows and columns of matrices,
strings and constness of types; matrices are square.

### Scopes and globals (`Programs` ... `CompiledProgram`)

`work` is the C++ call stack of the visitor, as in `BlockCodegen`. A name is
found by climbing (`Resolve`, one scope per step); what a lookup found is in
`resolved` until the visitor that asked for it goes on. `idents` maps each
identifier, told apart by its place in the tree, to its symbol. `Throw` ends the
compilation: the driver catches nothing.

`ProgramChecks` continues with the checks of definitions and initialisers, each
of which lets the program pass or ends the compilation; `stage` counts the
passes it got through. `CompiledProgram` adds the passes after them:
`TupleUnpackToAssign`, `BubbleGlobalDeclaration`, and code generation. `main`
assigns the queued globals first. `Execution` runs the result by symbol, as the
generated code does (`SymbolMap`), `LexicalScoping` runs the source by name: it
finds the declaration a name means by looking outwards in the text, among
`Subtrees`, the nodes of the program with their paths (a recursive function).

The programs are any set of finite trees of the shape the grammar and the AST
builder give them: `TreeAssumption` says which nodes a node has below it, and
`Height`, that trees are finite (`HeightAssumption`). `ProgramSets` builds those
of the run.

Types are left out: a value is a scalar or a list, a routine has a number of
parameters, and the instances use each as what it is (`Typed`). Domains of
generators are vectors. Size expressions of declared types, type definitions,
member references and casts are not visited, and a tuple is unpacked from a
literal of as many members. A global vector initialised with a scalar is left
out: `assignGlobals` stores the scalar (`CodeGenPass.cpp:588-600`), where a local
one is filled with it (`530-573`).

### Builders (`ExpressionBuilders`)

`filters` and `literal` are the static variables of `filters.c` and
`matrix_literals.c`. An expression under evaluation is a frame of `work` (`op`
says where in the emitted code it is, `i` and `p` are its counters); between two
calls of the runtime the emitted code evaluates the domain, the predicates or the
rows, and the trees these contain are pushed on `work`. A predicate is the set of
values that satisfy it. `live` says whether the allocated block is there, `room`
is what was allocated for a vector: using a block that was freed, or a slot
beyond the room, sets `undefined`.

There is one set of variables, and nothing in the compiler keeps a filter out of
a predicate of a filter, or out of a routine called there, nor a matrix literal
out of a row of another. The inner one then replaces the outer one's variables and
releases them, and the outer one goes on with freed memory. These programs are in
the model: trees may be nested in any way. Where freed memory is used, `undefined`
is set and the program may do anything, so that no step follows. A tree is
`Separate` when its predicates or rows build none of its own kind (`Uses` is what
evaluating a tree builds), and the properties are

* `BuiltRight`, of every tree: what becomes a value is the value it denotes;
* `NothingStale`: only a tree that is not separate uses a released builder
  (`StaleOnlyNested`), and such trees are really lost (`ReenteredNeverBuilt`): a
  filter over some values with a filter directly in a predicate, or a literal with
  one in a row, never becomes a value;
* `BuilderInv`: the variables are those of the loop, but for a tree that is not
  separate while one of its kind is under way, or has released them, in it.

No document or test of the repository says anything of such programs.
Elements are values of one type; the cast of a row is the filling up with zeros.

## Runs

| Run | Instance | What it shows |
|---|---|---|
| `stream_buffer` | ring of 4, input up to 5 bytes over blank, `T`, `F`, `1`, NUL, 0xFF | `WindowInv`, `NeverPastEnd`, refinement of `AbstractInput`, `TakesIffRead`, `EndIsFinal`; a reader that does not give up reaches the end (`ReaderReachesEnd`) |
| `compiled_routine` | every routine of at most 4 statements, procedures and functions | the inductive invariant of code generation (`BlockInv`, `LoopInv`), jump targets, well-formed functions; same behaviour as the source, no jump without a loop, `unreachable` not reached; generation ends and code is never lost in branches (`KeepsUp`) |
| `while_without_block` | procedures of at most 2 statements | violation: see Findings |
| `procedure_calls` | calls of at most 2 arguments over an int, a real, a tuple and a vector, a const int and a const vector | const parameters keep their value, writes reach the arguments they are meant for, constants stay constant, no pass misses an argument, legal calls are accepted |
| `aliased_arguments`, `const_slice` | the same | violations: see Findings |
| `vector_store` | two variables and a tuple member of at most 2 elements over {0, 1}, index vectors that swap, repeat and miss, 4 blocks | vectors keep their own data, no operand is a view, no row in use is freed, the copy loop's invariant, refinement of `VectorValues` |
| `lingering_reference` | the same, members may be stored | violation: see Findings |
| `expressions` | expressions of two levels over leaves of every type, printed, tested, declared, assigned and returned | `Fresh`: no pass reads a type that another visit would change; `Simplified`: no comparison or cast of tuples and no `null` is left; `AcceptedIsGenerated`, `ValuePreserved`: what is accepted can be generated and computes what it means, but for the gaps above; `CallsOnce` |
| `unequal_tuples` | the same | violation: see Findings |
| `scopes` | 6525 programs: bodies that declare, shadow and bind two names, unpackings, and every order of four items out of globals, routines and forward declarations | `SymbolsApart`; `ResolvesLexically`: each name refers to the declaration the text says; `VerdictIsRight`: exactly the legal programs are accepted; `SameOutput` |
| `builders` | filters of up to 2 predicates over up to 3 values, matrices of up to 3 rows, each within the other, within domains and within its own kind, three deep | `BuiltRight`: what becomes a value is right; `NothingStale`: only what nests its own kind uses a released builder, and it is then lost; `BuilderInv`, the loop invariant |

Bounds. A ring of 4 holds a token of at most 2 characters: with inputs of 5 the
cursor wraps, tokens straddle the wrap, the look-ahead limit is met and
exceeded, and the end comes inside blanks, inside tokens and at the wrap. Larger
rings only lengthen the runs between those events, and the theorems hold for
every ring and input. Four statements are enough for a loop in a loop (or a
conditional in a loop) with a jump between two other statements, which is what
distinguishes one loop of the stacks from another; two of the four levels are
needed to see a stack that is not popped. Two arguments are enough for two
parameters on one variable, in both orders and with any mix of const and var;
tuples and vectors of two tell the first component from the others, and every
kind of variable occurs as const and as var where the passes tell the difference.
Two elements
are enough to reverse, repeat and half-overwrite a vector, and three vectors for
two operands and a target; the fourth block is the one that is free. Variables and
blocks are interchangeable, hence the symmetry; the theorems hold for all sizes.
Two levels of operators are enough for each pass to meet the casts another one
inserted and each operator below every other; three levels only nest these. Two
names tell a shadowed declaration from the one around it and from its neighbour;
four top-level items are a global, a routine that reads it, its declaration and
`main`, in all orders. Three values are enough for one that two predicates share,
one that only the rest gets and a repetition; two predicates tell the flag after
one from the flag after all.

Deadlock checking is off where the system really stops: a program may exit in a
scanner or on an assignment of another size, a compilation ends, a rejected
routine is not run, an expression has been evaluated.

Fairness. `ReaderSpec` assumes that the program goes on calling `rt_scan_char`:
that is a property of the program considered, not of the runtime. `FairRoutine`
assumes that the compiler and the compiled code do not stop by themselves; no
fairness is assumed of `Perform`, since the statements executed are the
program's.

## Findings

* `while_without_block`: `visitWhileLoop` and `visitDoWhileLoop` return the
  block they wrapped the body in, not the loop (`ASTBuilderPass.cpp:165-169`,
  `184-188`), when the body is not a block: the loop and its condition vanish.
  The other runs therefore consider `while` and `do` loops over blocks only
  (`BlockWhiles`); every other routine is included.
* `aliased_arguments`: the alias check runs after the pass that replaces the
  nodes it looks for (`main.cpp:115`, `120`), so it never reports anything;
  `tests/ErrorTests/Input/AliasIllegal.in:12` expects an error.
* `const_slice`: `visitIndexReference` of the annotator takes every slice to be
  var (`ExprTypeAnnotatorPass.cpp:919`), so a slice of a const vector can be
  given to a `var` parameter (`exceptions.h:418`: "must not be a constant type").
  `CallConstants` proves that this is the only way to change a constant.
* `lingering_reference`: a tuple's vector is stored without a copy
  (`CodeGenPass.cpp:1436`, `574`), so that after `var x = t.v` a write to `x[1]`
  changes `t.v`; the comment at line 1010 says copies are there so that "there are
  no lingering references to other vectors".
* `unequal_tuples`: `TupleNotEqualTransformationPass.cpp:7` returns without a visit
  of the operands unless the operator is an inequality of tuples. `(t != u) and b`
  reaches the next pass with its `!=`, which says "We only care about EQ Operation
  on two tuples in this pass" (`TupleCompToMemberCompPass.cpp:19`) and joins the
  members' inequalities by `and`: true only if all members differ.

Observations without a run of their own: a return in a nested block does not
count for `EnsureReturnPass` (`EnsureReturnPass.cpp:15`; the comment at
`EnsureReturnPass.h:23` says any block), which rejects legal functions and accepts
no illegal one; the gaps of the table of expressions; a procedure's definition
after its forward declaration gets no symbol for its name, which nothing reads.

## Proofs

`StreamBuffer_proofs` proves, for every ring of at least 3 slots, every input
and every set of accepted tokens: `StreamInv` (types, `FreshInv`, `WindowInv`,
`NeverPastEnd`) is inductive; hence the type invariant, the window, that the end
is never consumed, that a scanner takes characters exactly when it succeeds
(`TakesIffRead`), and that the ring refines `AbstractInput`
(`StreamImplementsText`). `EndInv` adds that once a scanner reported the end only
blanks are left, hence `EndIsFinal`. `WindowInv` is what makes the rest go through: it
turns each `Peek` into a character of the text. `FreshInv` is needed because the
ring is filled by the first scan.

The first part of `CompiledRoutine_proofs` is about code generation alone. It
proves, for every set of statements closed under taking parts (`StmtAssumption`),
whatever the depth of nesting: `GenInv` is inductive. Its parts are

* `WorkInv`: the frames end with the routine's and name blocks of the function;
* `WaitingInv`: a block a frame owns is empty, is not the current one, and is
  owned by no other frame. Without it a return to `cond_end` might find it
  terminated already;
* `SealedInv`: the current block is unfinished, every other is finished or waits;
* `PlacedInv`: only what a pending `ConditionalEnd` will insert is not in the
  function;
* `LoopInv`: an increasing map from the loop stacks onto the frames of breakable
  loops exists.

`VisitKeepsInv` and `LeaveKeepsInv` state once what starting and ending a visit
does; there is one lemma per visitor. `WellFormedFunction` and
`JumpsToInnermostLoop` follow.

`ProcedureCalls_proofs` proves, for every set of variables and every list of
parameters and arguments, the five safety invariants of `procedure_calls`. The
inductive invariant is `CallInv`:

* `ArgsInv`: an argument is as written, or the reference the first pass made of
  it (var parameters only), or a cast of it (const parameters only). It makes the
  second run of `ChangeMemAccessToMemRef` a stutter;
* `CheckedInv`: after the type check the arguments of var parameters are
  references that the annotator takes to be var;
* `FrameInv`, `MemoryInv`: there is no frame and no write before the call, copies
  hold what memory held at the call, and a cell that was written is reached
  through the parameter it names.

`ArgumentsExist` is inductive relative to it: each pass either throws an error of
its own (`FirstErrorIn`) or keeps as many arguments as parameters. `LegalInv`
strengthens it for legal calls: from the first pass on their var
arguments are references, which is why no later pass can refuse them. That the
alias check never fires is part of the same argument.

`VectorStore_proofs` proves, for every set of vectors, blocks, elements and index
vectors and every bound on lengths, with `KeepMembers = FALSE`: the five invariants of
`vector_store`, and that the store implements `VectorValues`. The inductive
invariant is

* `StoreInv`: types, `OperandsAreDense`, `Separated`, nothing freed, and
  `CopyShape`: a copy under way goes from a dense vector to the reference of
  the statement, on other data. It holds even after writes outside their vector,
  since those change contents and no structure;
* `CopyInv`, the loop invariant of `rt_vector_copy`: an element is old, or the
  last of the source that was written there. It needs `CopyShape` (the source
  does not move);
* `SourceInv`: the source has the value the statement's expression has in the
  store *before* the assignment, and the positions written so far exist.

The refinement mapping shows the old contents of the target until the copy ends
(`Before`): a copy step is a stutter or a write outside the vector, its end is the
assignment. `WrittenFacts` identifies the loop's result with the abstract one.
What the theorems do not cover is what the excluded programs do: for these the
properties are false.

`ScopeResolution_proofs` proves, for every set of programs: `TypeOK`,
`SymbolsApart` and `ScopesNest`. The inductive invariant is `IInv`:

* `Shapes`, `Tables2`: the stack, the scope tree and the symbol table are well
  formed, parents come before their children, a symbol has one home and the name
  it is kept under, an identifier refers to a symbol of its own name;
* `ScopesNest`: the scopes that wait to be closed are the current one and, from
  the top of the stack down, each the parent of the one before. Without it a
  visitor's end might close a scope another opened (`current` might leave the
  tree at the global scope);
* `LookupInv`: a lookup is the top of the stack, right above the visitor that
  asked for it, and what it found has the name looked up. Without it `Refer` might
  store the result of another lookup.

`ProgramChecks_proofs` proves, for every set of programs, `ResolvesLexically` and
`VerdictIsRight` of `ChecksSpec`: the symbols that a stack of scopes, filled while
the tree is walked, finds for the uses of names are those of the declarations the
text binds them to, and the compiler rejects exactly the programs that the text
says are illegal. The two sides are told differently. The pass has a scope tree,
tables and a walk; `LexicalScoping` has the nodes of the program with their paths,
and says of two places which is inside or before the other. What joins them:

* `Grown`: the nodes, `N`, form a tree (every node but the root is one of the
  items of exactly one node). That the recursive function `Subtrees` exists and
  is this set is proved first, by well-founded recursion on `Height`; where the
  proof needs induction it takes a least counterexample.
* An *event* is the place at which a name is declared or used, and `Pends` says
  which events the items of `work` still have to come to. `Walk` says that the
  pending ones are those of the rest of the text: items are apart (`Disjoint`), a
  frame belongs to the node it closes (`Matched`), and an item is reached when
  the declarations it sees in the scopes around it are done and the later ones
  are not (`Ordered`, `NameFirst`).
* `Placing`: a scope was opened by one node, and no two scopes by the same
  (`Owned`); an item is reached in the scope of the innermost node around it that
  opens one (`Laid`).
* `Tabled`: the tables hold the declarations that are done, of a routine declared
  several times the first, each in the scope of its node (`Kept`, `Known`), and
  each use that is done has the symbol of its binder (`Bound`). `Called` adds that
  the calls that are done have as many arguments as their routine has parameters.
* `LookingUp`: no scope that a lookup has passed has the name. With `Ordered` and
  `Placing`, the first that has it is the one of the binder.

`Following` is their conjunction, and inductive together with `IInv` above. Each
visitor has two lemmas: if it
throws, the nodes are not `WellFormed`, since the table entry it met is another
declaration in the same scope, or the lookup that failed has passed every scope
around the use; otherwise its step keeps `Following`. When the work stack is
empty no event pends, so that every condition of `WellFormed` was met somewhere
on the way (`EndFollows`). `LegalIs` says the same of the two checks.

The theorems are about `ChecksSpec`, which ends with the last pass that can reject
a program. The later passes of `CompiledProgram` change neither `source` nor
`idents` nor `verdict`, which is all that the two properties speak of, besides
that the checks were passed; the run `scopes` checks them on all passes.

`ExpressionBuilders_proofs` proves, for every set of trees, nested in any way,
`BuiltRight`, `NothingStale` and `BuilderInv`. `UsesAssumption` only says that
`Uses` counts what nested trees build; any program has such a `Uses`, the least one
being what the runs take. The invariant `RInv` has two parts. While the code runs
(`BInv`) there are, besides the properties,

* `Apart`: what is evaluated above a separate tree under construction builds
  nothing of its kind, which makes one set of variables enough for it. Of a tree
  that is not separate, `BuilderFor` says that its variables are right, released,
  or replaced by one of its kind that is above it and will release them;
* `Shapes`: each frame is at a place its loop can reach (`InLoop`).

Once a tree that is not separate has used what it lost (`Ruined`), no step follows.
For `ReenteredNeverBuilt`, `Lost` adds that a frame past a call that builds its own
kind has that one above it still, or its variables are released.

`PushKeeps` and `PopKeeps` reduce each action to what it does to its own builder;
the lemmas named `...Late` are the actions of a tree whose variables were released.
`SelectedTake` and `SelectedSkip` extend a selection by one value, `SelectedShort`
(a pigeonhole) bounds its length: a vector that has what a predicate selects of
the values before the current one has room for the current one.

`CompiledRoutine_proofs` proves, for every set of statements of finite height and
every routine made of them, `JumpHasTarget` and `NeverUnreachable`. `BuiltIs`,
`HasStrayIs` and `ReturnsIs` unfold the recursive functions of `Passes` once
(well-founded recursion on `Height`), and `NextLeavesWork` and the step summaries
(`PlainStep`, `LoopStep`, `TestStep`...) say once what a visitor does.

* Jumps: `StrayInv` says that a statement to be visited with no breakable loop
  below it on the stack has no stray jump. An inner domain loop is not breakable
  and hides strays from the check all the same; it is harmless because the inner
  loop of two domains is always inside the breakable one (`OriginOf...`: where the
  statements of a lowered tree come from). `LoopInv` of `BlockCodegen` turns the
  loop below into a stack that is not empty.
* The end: `Paired` is the shape of a block (an evaluation is followed by its
  branch, nothing follows a terminator). `LiveSet` is the set of blocks that an
  execution may enter, or will once the pending visits have written theirs;
  `LiveInv` says it contains the entry, is closed under the branches of its
  blocks, and that code generation is at a block of it unless what precedes
  always returns or jumps (`Must`). `Returns` implies `Must` (`AcceptedMust`), so
  the block the final `unreachable` is written to is not in the set, and the
  program counter never leaves the set (`OnPath`).

`SameBehaviour_proofs` proves `SameBehaviour` (`CodeDoesAsSource`): a simulation
between the source, of which a sequence of statements and marks of loops remains
to be executed, and the code.

* A visit `<<T, b, k>>` says that `T` remains while the code is at instruction `k`
  of block `b`. It advances in a set of visits if from it the source alone, or the
  code alone (a branch), goes on to a visit of the set; or both show the same and,
  whatever the outcome, both go on to visits of the set (`Advances`).
* `Sim` is the invariant of code generation. Each visitor on the work stack has
  what remains of the source when it is reached (`Stands`), loops in progress are
  nested in the order of their marks (`LoopsNest`), and the blocks of their
  headers are known (`HeadersKnown`). The visits known are those whose code is
  written, all of which advance, and those whose code is still to come (`Waits`:
  the end of the current block, and the blocks that a visitor has created and not
  filled yet). Each step keeps every visit known, and what it writes makes the one
  it was at advance. For `break` and `continue` this is what relates the loop
  stacks to the innermost mark that counts; for a loop, the visit of its header is
  relied on before the code that branches back to it exists.
* When the work stack is empty nothing waits any more: the set is `Settled`.
* In the run the two executions are not in step, since each goes ahead where it
  cannot be seen. `Meets` says that both came by unseen steps from a visit of the
  set. The visit for which least is missing has nothing missing, so that
  where both show something they are at one visit, and show the same (`MeetAgree`).

The hypothesis `WhilesHaveBlocks`, that the body of a `while` or `do` loop is a
block, is the restriction of the runs: the other loops vanish when the tree is
built (`while_without_block`). TLC evaluates it on the routines of the runs
(`BlocksAssumption`).

The only assumptions are the named `ASSUME`s of the modules, which TLC evaluates
in the runs, and the hypotheses that theorems state. Every safety property of the
runs that expect no violation is a theorem, but for those of two modules that
only TLC's runs use: the five of `ExpressionPipeline` (`Fresh`, `Simplified`,
`AcceptedIsGenerated`, `ValuePreserved`, `CallsOnce`) and `SameOutput` of
`CompiledProgram`. Their annotator, rewrites, code generators and reference
meanings are recursive operators over trees that the passes build anew, so that
what they compute for every tree would need induction over data, which is out of
the prover's reach. Liveness (`KeepsUp`, `ReaderReachesEnd`) is out of it too.

## Not modelled, and what could follow

* Matrices as shared data (rows that are views, `matrix.c:171`), `by` and
  element-wise operators on shared data, vectors passed to routines: the next
  extension of `VectorStore`. As functions of values they are in
  `ExpressionCodegen`.
* The pass manager's results: no registered pass sets or asks for one, so that
  `setResult`, invalidation and re-run (`PassManager.h:131`) never happen.
* Free nodes are inserted by two passes and ignored by code generation.
* Size expressions of declared types, type definitions, member references and
  casts in scope resolution; generators, filters, rows, columns and strings in the
  annotator's model.
* `EnsureDeclInBeginOfBlock`, `VectorScalarOpTransformation`,
  `VectorScalarAppendTransformation`, `SimplifyCompositeTypeCasting`,
  `ConstantFolding` and the other passes `main.cpp` does not register; one-node
  rewrites and checks without state (`BadStreamPass` and the like).
* The ANTLR parser, output formatting and error texts.

Proofs that could follow: properties of the relations of `Types` (sameness
is symmetric, promotion and `getWiderType` agree), that the matrix part of
`VectorStore` refines values.
