# A TLA+ model of SymSan

SymSan runs a program once on an input and records, for everything the program
computes from that input, an expression; a driver outside the program turns the
branches the program took into constraints and asks solvers for inputs that take
the other direction. This directory holds TLA+ models of the parts that carry this
out, TLC configurations that check them on small instances, and TLAPS proofs about
six of them for every size. Paths are relative to the repository; `src/` is its root.

## 1. The system and its parts

| Part | Source | State | Operations |
|---|---|---|---|
| Union table | `runtime/dfsan/dfsan.cpp`, `union_hashtable.cpp`, `union_util.cpp`, `taint_allocator.cpp` | a slot (`dfsan_label_info`) for every label, the label counter `__dfsan_last_label`, hash buckets with lists of entries, the entry allocator | `__taint_union`, `__taint_trace_global`, `dfsan_create_label` |
| Shadow memory | `dfsan.cpp` | a label for every byte of memory | `__taint_union_load`, `__taint_union_store` |
| Bounds tracking | `dfsan.cpp`, `dfsan_custom.cpp` | labels of stack objects from the other end of the slots (`__alloca_stack_top`), the array of saved tops | push and pop of frames, `__taint_trace_alloca`, `malloc`, `realloc`, `free` wrappers, `__taint_check_bounds` |
| Libc wrappers | `dfsan_custom.cpp`, `dfsan.cpp` (`taint_set_file`, `taint_close_file`, ...) | which descriptor, socket or user accounting file is the input (`tainted`, `tainted_socket`), the counter of stdin bytes | taint sources (`read`, `fread`, `mmap`, `recv`, ...), what opens, moves and closes them, and what the other wrappers do to labels |
| Event back end | `backend/fastgen.cpp` | the switch buffer, coverage history | one or two `write`s on a pipe for each branch, gep, memcmp, coverage or memory error |
| Launcher | `driver/launcher/launch.c` | process number, pipe, shared memory | `symsan_run`, `symsan_read_event`, `symsan_terminate` |
| AFL++ mutator | `driver/aflpp/symsan.cpp`, `include/task_mgr.h`, `include/cov.h` | branch coverage, task queue, current task, solver index, state of the last mutation | `fuzz_count` (traces a seed, makes tasks), `fuzz` (one solver attempt), `queue_new_entry` (feedback) |
| fgtest, RL driver | `driver/fgtest.cpp`, `driver/rl/main.cpp` | - / coverage tables of a gRPC server | an event loop |
| RGD parser | `parsers/rgd-parser.cpp`, `include/union_find.h`, `include/ast.h` | caches by label, a union-find structure on input bytes, saved constraints | `restart`, `parse_cond`, `parse_gep`, `add_constraints`; `to_nnf`, `to_dnf`, `save_constraint` |
| Z3 parser and solver | `solvers/z3-ts.cpp` | caches by label, dependency sets | `serialize`, `parse_cond`, `solve_task` |
| Solvers | `solvers/i2s-solver.cpp`, `jit-solver.cpp`, `z3-solver.cpp` | flags on a task | `solve` |
| Jigsaw | `solvers/jigsaw/gd.cc`, `include/task.h` | best and tried point, distances, gradient, budget of a task | `gd_entry`: reload, input-to-state guesses, partial derivatives, descent, random restarts |
| Compiler pass | `instrumentation/TaintPass.cpp` | at run time: thread-local argument and result labels, call-stack context | inserts the calls above; passes labels through calls, wrappers, trampolines |
| Compiler wrapper | `compiler/` | none | builds an argument list |

How they interact. The instrumented program calls the runtime from all its threads;
the label slots are in memory shared with the driver. The back end sends events
that name labels through a pipe; the driver reads them with the launcher and hands
the labels to a parser, which reads the slots and makes tasks; the AFL++ mutator
queues the tasks and answers AFL++'s callbacks from the queue.

What is hard: threads that race on the hash table; a label that is taken, filled
and published in three steps; label and array limits; pointers to objects that are
freed or whose function was left by `longjmp`; events in two parts whose writer may
die, hang or block between them; clean-up after every way a run can end; callbacks
from AFL++ that come in an order the mutator does not control, and that may stop
early; constraints filed under a representative that later merges change; an input
known only by a descriptor number that is closed and used again; streams that buffer
ahead of the counter of labels; labels that cross calls in variables that callbacks,
native code, signal handlers and exceptions also use; a search whose points overflow
the bytes they stand for and whose distances go stale.

What makes each part correct:

- *Union table*: a label means one expression for ever; operands have smaller
  labels; no insertion is lost; equal expressions get the same label but for races;
  every call returns.
- *Shadow memory*: a label, evaluated as the solvers do, is the value the program
  would have for any input.
- *Taint sources*: a byte that carries a label has the offset in the input that the
  label stands for, and no byte of the input is without one.
- *Calls*: an argument or a result carries the label of its value and never one left
  by another call; context and stack frames are those of the call stack.
- *Bounds*: a pointer leads to the slot of its object, which says what the object
  is now, so every access is judged right.
- *Launcher and events*: the stream is read as it was written; a run ends, whatever
  the target does, and leaves nothing behind; nothing but the target is killed.
- *Parser*: the clauses of a branch are satisfied by the inputs that flip it; saved
  constraints hold on the path and are found again.
- *Mutator*: every task meets every solver, once, in order, on its own seed, and
  nested tasks after the task they extend.
- *Jigsaw*: what it reports as solved is, for the program's own comparison; it stays
  in its budget and ends.

`PROJECT.json` lists the components, and under "hazards" the lines where each of
these can go wrong.

## 2. Modules

| Module | Models | Used by |
|---|---|---|
| `TaintUnion` | the pure part of `__taint_union`: order of operands, early returns, simplifications, canonical key and hash; no state | `UnionTable`, `TaintShadow`, `RootExpr` |
| `UnionTable` | the table under concurrent threads, one action per atomic access | `MCUnionTable`, `UnionTableProofs` |
| `LabelStore` | the abstract specification of the table: an atomic store that names expressions | `UnionTable` (refinement) |
| `UnionTableProofs` | theorems about `UnionTable`: its inductive invariant and what follows, that it implements `LabelStore`, and how many labels an expression can have | - |
| `TaintShadow` | taint sources, copies, loads, stores, conversions and computations of one thread, with what every label means | `MCTaintShadow` |
| `ObjectBounds` | frames, stack and heap objects, pointers in memory, the verdict on accesses | its cfgs |
| `ObjectBoundsProofs` | theorems about `ObjectBounds` | - |
| `EventPipe` | target, pipe, launcher and the loop of a driver | its cfgs |
| `EventPipeProofs` | theorems about `EventPipe` | - |
| `BranchClause` | literals and clauses, and what they say of an input | `BranchFormula`, `NestedConstraints` |
| `BranchFormula` | formula nodes, `to_nnf`, `to_dnf`, `negate_cmp` and what formulas mean | `RootExpr` |
| `RootExpr` | from the label of a branch to its formula: `scan_labels`, `strip_zext`, `find_roots`, `get_root_expr`; no state | `MCNestedConstraints` |
| `NestedConstraints` | union-find, saved constraints and nested tasks of the RGD parser | `MCNestedConstraints` |
| `NestedConstraintsProofs` | theorems about `NestedConstraints` | - |
| `AflMutator` | the mutator and the callbacks of AFL++ | `MCAflMutator` |
| `AflMutatorProofs` | theorems about `AflMutator` | - |
| `GradientDescent` | the local search of the JIT solver, from a task to the bytes it writes | `MCGradientDescent` |
| `GradientDescentProofs` | the budget of the search, its distances and its solutions | - |
| `TaintInput` | the taint sources and the state that says what the input is, under two threads | `MCTaintInput` |
| `TaintInputProofs` | theorems about `TaintInput` | - |
| `TaintCalls` | how compiled code hands labels to functions and back | `MCTaintCalls` |
| `TaintCallsProofs` | theorems about `TaintCalls` | - |

**UnionTable.** `info`, `last`, `bucket` and `heap` are `__dfsan_label_info`,
`__dfsan_last_label`, the bucket array and the allocator. A call is `CallUnion`,
`CallGlobal` or `CallCreate`, then `Lookup`, `Alloc` (fetch-and-add and
`dfsan_check_label`), `Write` (the slot), `Entry` (allocator), `LoadHead`, `Cas`
(repeated on failure). Entries never change once published and are never freed, so
a head pointer is modelled by the list behind it. `held` is the set of labels that
calls have returned; a program can only use those. The hash is any function
(`XXHash` is a constant), so collisions are included.

**TaintShadow.** `shadow[a]` and `reg.label` are labels; `mem[a]` and `reg.is` are
functions from inputs to values: what the program would have there on each input.
`Eval` translates `Z3AstParser::serialize`. A byte has two bits in the instances, so
that all inputs can be enumerated. `ReadInput` (`read`, `pread`), `Mmap` and `Copy`
(`memcpy`, `memmove`) are the wrappers that fill memory. Operators include signed and
unsigned division, by constants other than zero. A register holds one value of one or
two bytes, and its program is any sequence of the actions that one of the `Programs`
allows: a program is a size of memory with the operators, constants and calls it uses.

**ObjectBounds.** `objs` is the program's own view of its objects, with state live,
freed, gone (a local of a function that ended) or kept (still the program's after a
`realloc` that failed). One thread, as the source assumes (`dfsan.cpp:56`).
`saved` has one slot more than the C array because the code writes one past it;
reading outside the array gives any value. `free` changes the operator in a slot;
this is the one exception to the stability of slots that `UnionTable` shows, and
bounds are off there.

**EventPipe.** The pipe is a sequence of units: a header is one, a payload one or
more. Writes of at most `PIPE_BUF` units are atomic. Events that are only a header
(branches, coverage, memory errors, file size) are the kind "cond" (`TraceCond`); a
symbolic index (`TraceGep`) has a payload, a memcmp (`TraceMemcmp`) may have one.
`pid` and `fd` are `symsan_pid` and `pipefds[0]`; the write end of the pipe, which the
launcher closes in every run, is not modelled. `driver` is chosen at the start:
"aflpp" reads headers with a timeout and gives up on dead loops, "rl" has the timeout
alone, "fgtest" reads without. A memcmp of two symbolic buffers sends no content
(`has_content`); `TwoSymbolic` names the drivers whose targets make one, because "rl"
reads content after every memcmp (section 6). `Crashes`, `MayHang` and `ForkFails` say
what the environment may do.

**RootExpr and BranchFormula.** Pure functions of the label table. `nested_cmp`,
`ast_size` and `input_deps` are what the caches of the parser hold for each label;
`Visit` is the loop of `find_roots` with its stack turned into recursion: what it
carries from one subtree to the next (labels visited, the label it came from, nodes
made) is passed along. Every simplification is there, with the value that
`set_boolvalue` really stores. A node that could not be made, in the code a function
that returns `INVALID_NODE` half-way, is `InvalidNode` and makes the whole formula
invalid. `Value` is what the program computes, the reference for `ClausesFlip`.

**NestedConstraints.** `parent`, `next`, `rank` are the vectors of `UnionFind`
(`find` compresses as it goes, and is part of `merge`); `bucket` is
`input_to_branches`; `parse_cond` makes the tasks of a branch from the state before
its own constraint is saved. `value` is the input of the run, as the truth of each
comparison. `construct_task` leaves out literals that are no comparisons. The loops of
`find` and `get_set` are the set of bytes they come to (`Reach`), which for the loop of
`find` is the path it compresses; that `get_set` comes back to where it started is part
of `ClassesAgree`. What the parser makes of a branch is given by the constants
`RootKind` (the root of its formula), `Normal` (the clauses that say that it has an
outcome) and `Outcome`, and what `scan_labels` finds out of a comparison by `Scanned`;
`MCNestedConstraints` fills them in from a label table, as `RootExpr` and `BranchFormula`
compute them. An operand that is too large is made concrete (`concretize_node`), and the
bytes of the comparison are then those of the other one. `branch_to_inputs` is assigned
when this is found out, but both places that read it (`parse_cond` and
`save_constraint`) do so after they have narrowed it, and the operands of a literal have
no comparison in them whose bytes could have been narrowed, so that `DepsOf` is a
function of the label. `root_expr_cache` is the part of the cache that
`add_constraints` looks at: a comparison that has been a branch, or was added, is not
added again. `Addable` has all the checks of `add_constraints`; no comparison of a label
table passes them (section 6), and what the code does with one that does is kept in the
action and covered by the theorems.

**AflMutator.** `phase` is where AFL++ is with its seed. `Pick` and `HandleCond` and
`TraceEnds` are the parts of `fuzz_count`, `Fuzz` and `FuzzNothing` the two outcomes
of `fuzz`, `NewEntry` is `queue_new_entry`. What a solver answers, and the flags it
leaves, is nondeterministic within what the solver's code allows (`I2SAnswers`,
`JITAnswers`, `Z3Answers`). `cut` records that AFL++ has left a seed before it asked
for every mutation, as it may at any time. Tasks from gep events go through the same
queue and are not told apart.

**GradientDescent.** A task is a sequence of comparisons of a sum of multiples of
reads with a constant, or of a memcmp. `ByteBits` and `WordBits` stand for 8 and 64,
with the overflow of both. `input`, `scratch`, `f0`, `min_distances`, `distances`
are the variables of `gd_entry`, `cal_gradient` and `descend`; `flags` holds what they
leave on the task. The steps are `Reload` (start from the seed or from an
input-to-state copy), `PartialDerivative` (one byte of the gradient, two probes),
`Repick` (a random start point), `GiveUp`, `Guess` (the first step of `descend`),
`Descend` (one later step) and `Stop`. Gradients that the
code normalises in floating point are divided exactly. Random start points, and the
part of the point that `repick_start_point` leaves uninitialised, are
nondeterministic over `StartBytes`. `Holds` is the program's own comparison.

**TaintInput.** `fds` is the kernel's and the C library's view (file, position,
stream buffer), `tainted`, `tainted_socket`, `current_stdin_offset` the wrappers'.
A call that reads is `Begin` (the wrapper asks for the position) and `End` (it reads
and labels); `fclose` has two steps as well; `open`, `fopen`, `freopen`, `close`,
`write`, `lseek`, `fseek`, `pread`, `mmap`, `recv`, `stat` and the `utmpx` calls one.
`fseek` drops the buffer of its stream, `lseek` does not; `fclose` may fail, and the
descriptor is gone all the same. Programs use interfaces in ways that the wrappers do not follow (section 6). The action
that does so sets `slip` to its name, and the behaviour ends there; the properties
are about what comes before.

**TaintCalls.** `stack` has the frames of one thread; `arg_tls` and `retval_tls` are
`__dfsan_arg_tls` and `__dfsan_retval_tls`, with sizes in labels. A call is
`CallTLS` or `CallWrapped` (labels stored), `Enter` (loaded), `Return` and
`LoadResult`; `CallNative` and `ReturnNative` are for code that is not compiled
by the pass, `Signal` and `Unwind` for handlers, exceptions and `longjmp`. A value
carries next to its label the label it ought to have, which never goes through the
thread-local variables; `Unknown` marks values about which nothing can be said, such
as the result of a custom wrapper that does not write the label. `dirty` and `lost`
mark frames that a `longjmp` or an exception has passed by.

## 3. Runs

| Run | Checks |
|---|---|
| `union_table` | Two threads; binary expressions, globals and stdin bytes; two buckets, colliding hashes; three labels to give away, then the space is full. Invariants `OperandsFirst`, `NoLostLabel`, `ReturnsItsExpression`, `FewDuplicates`; the action property `SlotsStable`; the refinement `ImplementsStore`. 396 thousand states, up to the symmetry of the threads. |
| `union_table_live` | The same threads with binary expressions only and room for two hash table entries, so that labels and heap both run out: `CallsReturn`. No symmetry, as the property is a liveness property. |
| `shadow` | Programs with two input bytes, two bytes of memory, read, mapped and copied, uninitialised locals, subtraction of 1, addition with memory, `ZExt` and `Trunc`; and programs with one byte, every simplified operator with the constants 0, 1, 2 or all ones on the side where it is simplified, arithmetic shift, signed and unsigned division by all ones, sign extension, and constants in memory: `LabelsFaithful`, for all inputs. Up to five labels; 430 thousand states. |
| `shadow_sum_shape` | Violation, see section 6. |
| `bounds` | Three objects, two frames, one call left without return, sizes 1 and 2, pointers of two bytes: `SlotOwned`, `PointersTracked`, `ChecksExact`, `NothingMissed`, `StoreAssertion`. 4 million states. |
| `pipe` | Three drivers, two runs of up to three events of every kind, a target that may hang, a fork that may fail: `InSync`, `KillsOnlyTarget`, `NothingLeft`, `AllHandled`, `RunEnds`. 31 thousand states. |
| `pipe_crash` | Violation, see section 6. |
| `nested` | Four input bytes, five comparisons over one or two bytes, one of them with an operand that is made concrete; branches on each, on a constant, on a negation and on a conjunction with an exclusive or; offsets; up to four calls and any number of restarts: `ClassesAgree`, `SavedFindable`, `SavedHold`, `NestedExact`; and `ClausesFlip`, from the label table to the clauses, for every condition of depth three over three comparisons and a memcmp. 120 thousand states. |
| `mutator` | Two seeds, two branches, three solvers, up to three tasks: `SolversInOrder`, `CountEnough`, `OnItsSeed`, `BaseFirst`, `NestedSkipped`. 2.2 million states. |
| `gradient` | Eight tasks: whole words, bytes apart, signed comparisons, constraints that share a byte, memcmp beside a comparison, gradients whose sum wraps to zero beside a contradiction: `SolutionSatisfies`, `NotOptimistic`, `WithinBudget`, and `SearchEnds`. 5 thousand states. |
| `input` | Eight programs over files, streams, forced and regular stdin, a pipe, a socket and user accounting files, two threads, an input with a line, a zero byte and a last line without end: `LabelsRight`, `NothingUnlabelled`, `CounterFollows`. 1.2 million states, up to the symmetry of the threads. |
| `calls` | A function of every kind that calls others, up to four calls, signals or exceptions and five frames, arguments and results that do not fit: `LabelsFollow`, `ContextFollows`, `FramesFollow`. 203 thousand states. |

`union_table` and `bounds` also check the type invariant of their module. Each
property has a mutant of the code (the definitions marked "Mutant") that it rejects.

**Bounds, and why they are enough.** *Union table:* two threads are enough for every
race on one bucket (a lost insertion, a duplicate, a half-written slot); three labels
allow an expression over an expression, two copies of it and one copy too many.
*Shadow:* two bytes are the shortest word with a first and a last byte; two bits per
byte are enough to tell all ones, 0 and 1 apart. *Bounds:* three objects allow an
object, its reallocation, and one that could take a slot that is in use; `NumLabels` =
8 is the smallest space in which stack and heap labels do not meet (see section 6),
and the heap runs out of labels in it. `MAX_SAVED_STACK_ENTRIES` is 4 so that depth 2
with one unwound call stays inside the array. *Pipe:* the payload sizes are 1 and
`PIPE_BUF`, the capacity is one unit more, so that a writer blocks; two runs are
needed to see what a run leaves behind. *Nested:* four bytes give classes of every
shape up to rank 2; the comparisons are labels 9 to 13 of a table that the operators
of `TaintUnion` build, the branches these and labels 14, 15 and 17, and that their bytes,
sizes, formulas and outcomes are those `RootExpr` computes is the assumption
`MCAssumption`, which TLC evaluates; `max_ast_size` = 3 makes one operand of comparison
13 concrete and branch 14 constant, and 32 nodes are the default of the code.
*Mutator:* two tasks of one branch and one of another are a nested pair and a
neighbour; the second pick may be the same seed. `MAX_LOCAL_BRANCH_COUNTER` = 0 makes
the second visit of a branch the one that is filtered. *Gradient:* a word is two bytes
of three bits, so that bytes overflow into each other and words wrap; 18 evaluations
are a start point with its gradient, a descent and a restart with the budget running
out inside each of them. *Input:* two descriptors let a number be used again while
another one is open; four bytes, asked for one or three at a time, give short reads,
ends of file, lines that end early and buffers ahead of the reader. *Calls:* three
labels of arguments hold two of the three parameters of `f`; a result just fits and
another does not; four calls are a call, a callback from it, an interruption and one
more call that could find what they left.

`CHECK_DEADLOCK FALSE` is set where the program may simply stop: programs of
`TaintShadow`, `ObjectBounds`, `TaintInput` and `TaintCalls` end, the search is done,
a driver makes no more runs, AFL++ picks no more seeds. The union table is checked for
deadlock.

**Fairness.** `UnionTable`: weak fairness of each thread inside the runtime; the
operating system runs every thread, and none of the steps blocks. Nothing is assumed
of threads outside. `EventPipe`: weak fairness of `Write` (a write that fits
completes), of the driver's loop, and of `Exit` only for targets that do not hang:
when `MayHang` is TRUE the AFL++ driver gets no help from the target, and its timeout
is what ends the run. fgtest has no timeout, so its user's target has to end.
`GradientDescent`: weak fairness of `Next`; the search is one function of one thread
that waits for nothing.

## 4. Proofs

Every theorem holds for every value of the constants that satisfies the assumptions
named here. The invariants were checked with TLC on the instances of section 3 before
they were proved. Each is proved with one lemma per action and lemmas about the
operators the actions use.

| Module | Theorem | Statement |
|---|---|---|
| `UnionTableProofs` | `Invariance` | `Spec => []Inv` |
| | `TypeCorrect` | `Spec => []TypeOK` |
| | `OperandsComeFirst` | `Spec => []OperandsFirst` |
| | `InsertionsKept` | `Spec => []NoLostLabel` |
| | `ResultsCorrect` | `Spec => []ReturnsItsExpression` |
| | `SlotsNeverChange` | `Spec => SlotsStable` |
| | `Refinement` | `Spec => ImplementsStore` |
| | `DuplicatesBounded` | finite `Threads`, `GlobalsApart`: `Spec => []FewDuplicates` |
| `EventPipeProofs` | `NothingIsLeft` | `Spec => []NothingLeft` |
| | `DriverInSync`, `OnlyTargetKilled`, `EveryEventHandled` | `Orderly`: `Spec => []InSync`, `[]KillsOnlyTarget`, `[]AllHandled` |
| `AflMutatorProofs` | `SolversTakeTurns`, `BasesComeFirst`, `EnoughMutations`, `SeedsMatch` | `Spec => []SolversInOrder`, `[]BaseFirst`, `[]CountEnough`, `[]OnItsSeed` |
| | `FlippedNotSearched` | `Spec => NestedSkipped` |
| `ObjectBoundsProofs` | `BoundsTyped`, `SlotsAreOwned`, `PointersAreTracked`, `VerdictsExact`, `NoAccessMissed`, `StoreAsserts` | `Shallow`, `Bounded`: `Spec /\ []RegionsApart =>` `[]TypeOK`, `[]SlotOwned`, `[]PointersTracked`, `[]ChecksExact`, `[]NothingMissed`, `[]StoreAssertion` |
| | `RegionsStayApart` | `Roomy`, `Shallow`, `Bounded`: `Spec => [](~dead /\ last < top)` |
| | `JudgedWithRoom` | the same: all five safety properties, of `Spec` alone |
| `TaintInputProofs` | `LabelsAreRight`, `NothingStaysUnlabelled`, `CounterIsRight` | `Spec => []LabelsRight`, `[]NothingUnlabelled`, `[]CounterFollows` |
| `TaintCallsProofs` | `LabelsAreFollowed`, `ContextIsFollowed`, `FramesAreFollowed` | `Spec => []LabelsFollow`, `[]ContextFollows`, `[]FramesFollow` |
| `NestedConstraintsProofs` | `ClassesAreAgreed`, `SavedAreFindable` | `Spec => []ClassesAgree`, `[]SavedFindable` |
| | `NestedAreExact` | `Spec => NestedExact` |
| | `SavedAreTrue` | `Conjunctive`: `Spec => []SavedHold` |
| `GradientDescentProofs` | `BudgetIsKept`, `NeverOptimistic` | `Spec => []WithinBudget`, `[]NotOptimistic` |
| | `SolutionsSatisfy` | `Spec => [](Apart(constraints) => SolutionSatisfies)` |
| | `SearchInvariant` | `Spec => []SearchInv` |

**The union table.** The only assumption is `TableAssumption`: constants have their
types, the labels of the initial input fit below `alloca_stack_top`, and
`kInitializingLabel` is above every label. The four safety properties are not
inductive. A returned label is right because its slot was filled before it was
published, which needs to know who may write a slot; that a label was not returned
twice needs to know who has taken it. `Inv` adds:

- `HeldInv`: labels the program holds exist, and so do their operands;
- `OwnInv`: a thread between the fetch-and-add and the compare-and-swap owns its
  label: nobody holds it and no other thread owns it. This is what makes `Write`
  harmless;
- `KeyInv`: the operands of what a thread works on are held, hence smaller than a
  label taken later; once written, the slot holds the thread's key until it is
  published;
- `BucketInv`: only held labels are in the hash table, so a lookup cannot find a
  slot that is not filled;
- `IdleInv`: a thread outside has its answer.

`OperandsFirst` follows from `KeyInv` at the moment of publication. `NoLostLabel` is
kept by `Cas` because a successful compare-and-swap puts the new entry before exactly
the list that is there.

`Refinement` uses `Inv` at both ends of a step. A lookup that hits and a
compare-and-swap that succeeds are the steps of `LabelStore` that answer; all steps
between are stutters, because a slot is nobody's until it is published.

`DuplicatesBounded` counts: the copies of an expression in the table and the threads
that have looked for it in vain and are about to add it are together at most the
threads (`CountInv`). This holds because a copy in the table is found, so that no
thread starts to add one; which needs that equal expressions have equal hashes and are
in the same bucket (`HashInv`). The hash of a bounds entry depends on whether its
address is that of a global, so `GlobalsApart` keeps the two kinds apart.

**The event stream.** `NothingIsLeft` needs a small invariant of the launcher alone
and holds for crashing targets too. The others hold for an `Orderly` environment: the
target does not die inside an event, a payload fits into one atomic write, and "rl" is
not sent a memcmp without content. Section 6 has what happens otherwise, and the run
`pipe_crash` shows it. `FlowInv` describes the stream: what was handled, what the
driver holds, what is in the pipe and what the target has still to write are, in this
order, the events of the run; it says for each position of the driver where in an
event the front of the pipe is.

**The mutator.** `OrderInv`: the queue holds the tasks nobody has tried, oldest first,
and every task that was tried is older; the current task is the youngest tried and has
met the solvers up to the index. `ProgressInv`: unless AFL++ left a seed early, every
task is done with, in the queue or the current one, and the mutations still to be asked
for are at least those the queue and the current task may need. Without the second part
`CountEnough` cannot be shown to survive a `Fuzz`. The assumption is that `Solvers`
is a sequence of the three solvers, in any order and number.

**Bounds.** The code takes for granted that calls fit into the array of saved tops
(`Shallow`) and that labels of the stack stay above those of the table
(`RegionsApart`), which `__taint_trace_alloca` does not check. `Bounded` says that
there is a largest object. `Inv` has: labels of heap objects are below `last`, labels
of locals above the top and above every saved top that a return may restore while they
exist; labels of objects that exist differ; the slot of each is what the object is; a
pointer in memory has its label whole or in pieces, and a label split once has all its
pieces. The middle one is what unwound calls need: a return restores a top that is too
low rather than too high. `RegionsStayApart` replaces the assumption on the run by one
on the constants, `MaxObjects * (WordBytes + 1) < NumLabels`: an object takes a label,
and a heap object one more for each byte of a pointer to it, once. Its invariant counts
both kinds. The bound is for the worst case; the `bounds` run is with fewer labels,
where the heap may run out of them.

**The taint sources.** Assumptions: `InputAssumption` (types), `NoneAssumption` (None
is no file and no call) and `SocketAssumption` (a program with sockets has no files
next to them, because the model does not tell the kernel's errors for the one on the
other). All else, the number of descriptors and threads, the input and what programs
do, is arbitrary. `slip` ends a behaviour, so the invariant is about states in which
nothing has slipped: what the wrappers take for the input is the input or stdin, and
they know every descriptor of it, or it is about to be forgotten by an `fclose`
(`KnownPart`); the counter is where stdin is (`CountPart`); a call that reads has its
descriptor for itself, and the offset and the answer it got before are still right
(`CallPart`); the same for the user accounting file and the connection (`UtmpPart`,
`SocketPart`). `LabelsRight` and `NothingUnlabelled` follow in the step that delivers
bytes; they need lemmas on how far a call reads and how many labels it takes.

**Calls.** `CallsAssumption` gives the functions their types and says that names are
unique, that main is instrumented, and that a signal handler is. Functions, sizes of
arguments, results and thread-local arrays, and the number of calls are arbitrary. The
invariant says of the stack that a frame waits for the one above it or was interrupted
by it (`OrderPart`); that external code and functions that have not entered are as they
were called, and a wrapper has the parameters of its function (`FramePart`); that every
compiled function knows the context it was called in, below the first one that an
exception left dirty (`ContextPart`); and that what the frames hold, and what the last
one is about to load from the thread-local arrays, has its label (`LabelPart`). The last
part is about stores that are still to be loaded, without which `LabelsFollow` is not
inductive. The offsets of arguments and the names on the stack are recursive functions;
that a solution of each equation exists, and what it returns, follows from a least
counterexample, with the well-founded order of the naturals in place of induction.

**Nested constraints.** `NestedAssumption` gives the constants their types; the size of
the input, the program's branches and their normal forms are arbitrary. The invariant
is that the state is one of `States`: ranks grow from a byte to its parent (`Forest`),
the circular list of a byte is its class (`WellFormed`), the classes are those that the
merged sets make (`Agree`), and the bucket of a constraint is in the class of all its
bytes (`Kindred`). The ranks are what the code never reads for correctness and the proof
cannot do without: they bound every path, so that a root exists. Path compression keeps
every root (`CompressedFacts`), linking roots joins two classes (`LinkFacts`), swapping
the successors of two roots makes one circle of two (`SplicedTogether`) and leaves the
others alone (`SplicedApart`); together they are `MergeFacts`. The loops over the bytes
of a literal, the literals and the clauses are recursive functions; `Iterates` shows
that they exist and `Climbs` what they keep. `NestedAreExact` has no hypothesis on the
branches: the buckets searched are those of the class of the last byte of each
comparison, because `get_set` empties the set the bytes are collected in, and by
`Agree` and `Kindred` these hold exactly the saved constraints that are connected to
one of these bytes. It does not say that a constraint connected to another byte of the
comparison is there; the code leaves it out (section 6). `SavedAreTrue` has the hypothesis that
what is kept of a branch holds whenever the branch goes that way (`Conjunctive`). The
code does not ensure it (section 6); the branches of the run `nested` satisfy it, which
`MCAssumption` has TLC evaluate.

**The search.** `SearchAssumption` says that bytes and words have a size and that a task
has one constraint or more, each well formed (`IsTask`). Tasks, sizes, budget and start
points are arbitrary. `SearchInv` has four parts:

- `Budget`: a search that goes on has not used up its evaluations. The gradient probes
  a byte several times; that it stops at the first probe over the budget is a fact
  about the least probe that ends (`DirectionCounts`);
- `Shape`: points have a word at every offset of the task, distances and gradients one
  entry for each constraint and byte, and `descend` runs on a gradient that is not zero;
- `Close`: the recorded distances are no better than those of the best point, and while
  bytes are moved one by one the same holds of the point that is tried. Without the
  second half a step that evaluates the constraints of one byte only is not inductive.
  A lucky probe moves a byte of the best point and leaves its distances; it is kept
  because the relational constraints on that byte have distance zero and the others do
  not read it (`MovedByte`);
- `Good`: what is marked as solved is `add_results` of some point at distance zero.

`NeverOptimistic` is `Close`. `SolutionsSatisfy` goes from the words of that point to
the bytes written out: the pieces that `add_results` puts together are the reads of the
task (`PiecesAre`), a read of the bytes is the number the words add up to (`Digits`), so
that both operands are the same (`ResultsRead`), and a distance of zero means that the
comparison holds (`ZeroHolds`), saturation and wrapping included. It is about tasks that
are `Apart`: two reads are equal or have no byte in common, a read fits a word, and a
signed comparison is one of whole words. The code does not ensure this (section 6). All
tasks of the run but one are `Apart`; in the last a memcmp covers bytes that a sum reads
one by one, and that `SolutionSatisfies` holds there too is known from the run only.

The provers know no law of exponents. A power of two is the number of subsets of a set,
so that `PowerSum` follows from the bijection between the subsets of a disjoint union
and the pairs of subsets. `finalize` lists the offsets in an order; `InOrderLists` shows
that each is listed, by a bijection again. Sums, pieces and the points of `try_i2s` are
recursive functions, of which `SumExists`, `PieceExists` and `TriesExist` show that they
exist and `Climbs` what they return.

**Only model-checked**, and why:

- liveness under fairness (`CallsReturn`, `RunEnds`, `SearchEnds`) and `ENABLED`, which
  the prover does not do;
- `LabelsFaithful` of `TaintShadow` and `ClausesFlip` of `BranchFormula` and `RootExpr`:
  their recursive operators, and the bitwise ones of labels, cannot be used from a
  module with theorems. `LabelsFaithful` does not hold of every program either
  (section 6), and `ClausesFlip` is about the formulas that are enumerated;
- `SolutionSatisfies` of tasks that are not `Apart`.

## 5. Not modelled, and why

- In the compiler pass: branches, switches, vectors, the wrappers of memcmp and
  strcmp (`TaintPass.cpp:2765`), tail calls that must be (`musttail`, for which no result
  label is stored or loaded, lines 2682 and 2976), and the coverage pass. Loads, stores and arithmetic are the instructions of
  `TaintShadow`; `TaintCalls` has the calls. The compiler wrapper builds an argument
  list and keeps no state.
- In jigsaw: the arithmetic of expressions other than sums of multiples, `atoi`, and
  the compiler that turns a task into machine code. The matching of the I2S solver and
  the translation to Z3 are nondeterministic answers in `AflMutator`.
- The in-process Z3 solver, the Python bindings and the harness proxy: an older back
  end off by default, and glue.
- The RL driver but for its event loop: a server that keeps tables and answers
  requests.
- String functions, `scanf` and `printf` formatting, and the labels of returned sizes
  in the libc wrappers.
- The caches of the parsers, but for `root_expr_cache` of comparisons: `RootExpr` is a
  function of the label table.
- In the RGD parser: the mode without nested tasks (`solve_nested_` off), and
  `parse_gep`, which collects constraints and does not use them.
- `__taint_solve_bounds` and symbolic sizes.
- Floating point, vectors, division by zero, and labels of structures.
- Several writers on the pipe: the source assumes one (`fastgen.cpp:479`).

Most of the repository's C++ is not its own: `runtime/sanitizer_common`,
`runtime/interception`, the concurrent queue in `solvers/wheels` and other vendored
files are about four fifths of its lines. They are the platform the components run on
and are not modelled; of the source files the map names it covers a little over a third.

## 6. Disagreements met while modelling

Two are shown by a run that TLC refutes, and described in `PROJECT.json`:

- `shadow_sum_shape`: `__taint_union_load` recognises consecutive input bytes by
  field `op1` of the later labels, also when these are not input bytes.
- `pipe_crash`: after a payload that did not arrive the driver reads on, and the
  timeout of that read kills process -1.

The models show others when a bound or a guard that keeps them out is lifted; the
hazards say which:

- more nested calls than `MAX_SAVED_STACK_ENTRIES` restore wrong tops
  (`dfsan.cpp:540`; a larger depth refutes `StoreAssertion`);
- `get_set` empties the set it is given (`union_find.h:76`), and `parse_cond` calls it
  for one byte of a comparison after the other, so that only the class of the last byte
  is searched, although "for each input byte used in the var, we collect additional
  constraints" (`rgd-parser.cpp:1378`). After a branch on byte 0, a branch on the word of
  bytes 0 and 1 gets no nested task; `NestedExact` with all bytes in place of
  `LastBytes` is refuted by it;
- `add_constraints` of the RGD parser never saves anything: it wants a comparison whose
  count of nested comparisons is 0 (`rgd-parser.cpp:1687`), and `scan_labels` counts the
  comparison itself (line 1143), so that the constraints on offsets are always left out
  (`Addable`; the count is a `uint8_t` and would have to wrap);
- a constant byte before the input byte of offset 1 is loaded as input
  (`dfsan.cpp:423`; `shadow` without uninitialised locals);
- a loaded word of stdin that is stored again gets labels counted from the first
  one, which need not be those of its bytes (`dfsan.cpp:526`; `is_stdin` = TRUE);
- a load whose first byte is a constant other than 0 loses it (`dfsan.cpp:458`;
  constants stored in `shadow`);
- `__taint_trace_alloca` does not compare the top with the last label
  (`dfsan.cpp:555`; `NumLabels` = 7 refutes `PointersTracked`);
- the assertion of `__taint_union_store` fails for a copied pointer to a dead local
  (`dfsan.cpp:497`; without `MayCopy`);
- a buffer kept after a failed `realloc` is reported as freed
  (`dfsan_custom.cpp:2038`; state "kept");
- a memcmp content longer than `PIPE_BUF` may be read in part, and the launcher then
  waits for a target that waits for room (`launch.c:359`; larger `MemcmpSizes`);
- the descriptor closed by `symsan_terminate`, and both after a failed fork, are
  remembered and closed again by the next run (`launch.c:380`; in `fd`);
- the RL driver reads content after every memcmp (`rl/main.cpp:428`; "rl" in
  `TwoSymbolic` refutes `InSync`);
- all literals of a disjunction are saved (`rgd-parser.cpp:1442`; a disjunction in
  `Conds` refutes `SavedHold`);
- a comparison that a condition uses twice has an empty node, which is read as the
  constant false, the second time (`rgd-parser.cpp:604`; a repeated comparison in
  `Depth3` refutes `ClausesFlip`);
- `set_boolvalue` stores the opposite of the value it is given (`ast.h:212`), so a
  condition with a constant part is simplified the wrong way (`BoolNode`);
- an exclusive or of two comparisons has no normal form when it is to be false and is
  a literal without a constraint when it is to be true (`rgd-parser.cpp:893`, `:1246`;
  branch 17);
- an entry found by another stage of AFL++ is credited to the last task, and tasks
  left over from an abandoned seed are solved on the next one
  (`aflpp/symsan.cpp:650`, `:565`; `OtherEntry` and `cut`).

In the search (`solvers/jigsaw/gd.cc`), where `GradientDescent` follows the code:

- a probe that happens to solve the task moves the byte, but the solution is not
  recorded (lines 257 and 285);
- reads of different lengths that overlap need not be evaluated as the bytes written
  out are; there are such tasks for which `SolutionSatisfies` fails, the run has none of
  them, and `SolutionsSatisfy` is about tasks that are `Apart`;
- comparisons of operands narrower than a word are made on zero-extended words, also
  the signed ones, so that they are only right for whole words;
- `repick_start_point` uses parts of a point that were not initialised (line 541), the
  gradient of the last random start is not used, and a step that is doubled often
  enough wraps to zero; the search ends all the same (`SearchEnds`).

In the taint sources (`dfsan_custom.cpp`, `dfsan.cpp`), most of them values of `slip`
in `TaintInput`:

- the descriptor of a named file is statically 0, so that stdin counts as the file
  until it is opened, and `if (fd)` in `open` does not follow the file to descriptor 0
  and forgets it when a later `open` fails;
- the descriptor is one: a second `open` of the file takes the taint from the first,
  `freopen` keeps it for the new file, `dup` is not followed;
- an anonymous `mmap` (descriptor -1) is labelled after the input was closed;
- `fclose` forgets the descriptor after another thread may have got its number, and
  does not forget it when it fails (`dfsan_custom.cpp:1716`); two threads that read one descriptor get each other's offsets;
- `write` of what is already there closes the descriptor for the tracking;
- `gets` labels the terminator, `fgets` counts with `strlen` and stops at a zero byte,
  `fread` counts whole items only, `getc` delivers label 0, and `getline` at
  the end of the file, where it returns -1, clears the label of the byte before its
  buffer (`dfsan_custom.cpp:1826`; `BeforeTheBuffer`);
- `lseek` under a stream that has buffered moves the position `ftell` counts from, and
  the buffer keeps its bytes;
- on a pipe, `read` beside a stream that has buffered is labelled from the counter;
- `stat` of the file sets `is_utmp`; `recv` with `MSG_PEEK` advances the offset;
  `taint_close_socket` is never called.

In calls (`TaintPass.cpp`), marked `Unknown`, `slip` or `lost` in `TaintCalls`:

- a variadic function that is not instrumented and whose address is taken gets no
  wrapper, and its caller loads a stale result label (lines 1482 to 1488);
- callbacks from native code and signal handlers load the argument labels of some
  other call, and a handler between a store and its load overwrites them;
- a custom wrapper that returns without writing its label leaves the previous one;
- exceptions caught higher up, and `longjmp`, leave context and stack frames as they
  were, the context until the function that caught returns.

Met while reading and not in a model: null-pointer and double-free reports are dropped
by the default case of a switch (`fastgen.cpp:502`); the true case of a switch
statement is kept in a static variable (`fastgen.cpp:255`); `__taint_solve_bounds`
passes a concrete size where a label is meant (`dfsan.cpp:734`).

## 7. Plan

Done: the union table with its proofs first, because everything else rests on it;
then the meaning of labels, bounds, the event stream, formulas, normal forms and
nested constraints, and the mutator; then the taint sources, calls, the search of
jigsaw and the third driver.

The proofs cover the union table with its refinement, the event stream, the mutator,
the bounds, the taint sources, calls, nested constraints and the search.

Next, in this order:

1. The caches of both parsers over the labels of a run (`serialize`, `scan_labels`,
   `restart`), with exceptions half-way: the caches agree, and what is cached is what
   a fresh parse would give.
2. `__taint_solve_bounds`, symbolic sizes and indices, and the checks of `solve_ub`.
3. The rest of the back end: the switch buffer, `execv` failing in the child, coverage
   history; and the composition of `AflMutator` with `EventPipe`.
