----------------------------- MODULE AflMutator -----------------------------
(***************************************************************************)
(* SymSan as a custom mutator of AFL++ (driver/aflpp/symsan.cpp).  AFL++   *)
(* picks a seed and asks how many mutations there are (fuzz_count), which  *)
(* traces the seed once and turns branches into tasks; it then asks for    *)
(* that many mutations (fuzz), each one attempt of one solver at one task; *)
(* when a mutation makes a new queue entry it says so (queue_new_entry).   *)
(*                                                                         *)
(* Tasks go through the solvers in turn, oldest task first.  A nested task *)
(* knows the task it extends (base).                                       *)
(***************************************************************************)
EXTENDS Integers, Sequences, SequencesExt, Functions, FiniteSets

CONSTANTS
    Seeds,
    NoSeed,             \* no seed: NULL
    Branches,
    Solvers,            \* the solvers, in their order
    MAX_LOCAL_BRANCH_COUNTER,
    MaxConds,           \* bound on the branches of a trace
    MaxTasks,           \* bound on the tasks there ever are
    MaxPicks            \* bound on the seeds AFL++ picks

ASSUME MutatorAssumption ==
    /\ NoSeed \notin Seeds
    /\ Solvers \in Seq({"I2S", "JIT", "Z3"})
    /\ Len(Solvers) > 0 /\ Solvers[1] = "I2S"
    /\ {MAX_LOCAL_BRANCH_COUNTER, MaxConds, MaxTasks, MaxPicks} \subseteq Nat

VARIABLES
    covered,    \* cov_mgr: the directions each branch was seen to take
    counter,    \* local_counter
    fuzzed,     \* fuzzed_inputs
    entry,      \* cur_queue_entry
    tasks,      \* every task there has been
    queue,      \* task_mgr
    cur,        \* cur_task, or 0
    index,      \* cur_solver_index, from 0
    state,      \* cur_mutation_state
    phase,      \* what AFL++ is doing with its seed
    seed,       \* the seed it works on
    left,       \* mutations it still asks for
    conds,      \* branches of the trace so far
    picks,      \* seeds picked so far
    cut         \* AFL++ has left a seed before it asked for every mutation

mutator == <<covered, counter, fuzzed, entry, tasks, queue, cur, index, state>>
afl == <<phase, seed, left, conds, picks, cut>>
vars == <<covered, counter, fuzzed, entry, tasks, queue, cur, index, state,
          phase, seed, left, conds, picks, cut>>

\* tried: the solvers that had a go.  onSeed, unsat and hit are only for the
\* properties: the buffers tried were those of its seed; a solver found it
\* unsatisfiable; a new entry was put down to it.
Task(s, b, base) ==
    [seed |-> s, branch |-> b, base |-> base, skip_next |-> FALSE, solved |-> FALSE,
     tried |-> <<>>, onSeed |-> TRUE, unsat |-> FALSE, hit |-> FALSE]

Init ==
    /\ covered = [b \in Branches |-> {}]
    /\ counter = [b \in Branches |-> 0]
    /\ fuzzed = {}
    /\ entry = NoSeed
    /\ tasks = <<>>
    /\ queue = <<>>
    /\ cur = 0
    /\ index = -1
    /\ state = "INVALID"
    /\ phase = "idle"
    /\ seed = NoSeed
    /\ left = 0
    /\ conds = 0
    /\ picks = 0
    /\ cut = FALSE

-----------------------------------------------------------------------------
(* afl_custom_fuzz_count *)

\* AFL++ picks seed s.  One that was traced before has no mutations; neither has
\* one whose trace cannot be started, which then counts as traced.
Pick(s) ==
    /\ phase = "idle"
    /\ picks < MaxPicks
    /\ picks' = picks + 1
    /\ seed' = s
    /\ left' = 0
    /\ conds' = 0
    /\ IF s \in fuzzed
       THEN phase' = "other" /\ UNCHANGED <<counter, fuzzed, entry>>
       ELSE /\ fuzzed' = fuzzed \cup {s}
            /\ entry' = s
            /\ \/ phase' = "trace" /\ counter' = [b \in Branches |-> 0]
               \/ phase' = "other" /\ UNCHANGED counter
    /\ UNCHANGED <<covered, tasks, queue, cur, index, state, cut>>

\* The tasks the parser makes of a branch: none, one, or one and a nested one.
Parsed(b, n) ==
    LET t == Len(tasks) + 1
    IN  SubSeq(<<Task(seed, b, 0), Task(seed, b, t)>>, 1, n)

\* handle_cond: branch b takes direction d.
HandleCond(b, d, n) ==
    /\ phase = "trace"
    /\ conds < MaxConds
    /\ conds' = conds + 1
    /\ IF counter[b] > MAX_LOCAL_BRANCH_COUNTER
       THEN n = 0 /\ UNCHANGED <<covered, counter, tasks, queue>>
       ELSE /\ counter' = [counter EXCEPT ![b] = @ + 1]
            /\ covered' = [covered EXCEPT ![b] = @ \cup {d}]
            /\ (~d) \in covered[b] => n = 0
            /\ Len(tasks) + n <= MaxTasks
            /\ tasks' = tasks \o Parsed(b, n)
            /\ queue' = queue \o [i \in 1 .. n |-> Len(tasks) + i]
    /\ UNCHANGED <<fuzzed, entry, cur, index, state, phase, seed, left, picks, cut>>

\* Mutant: one mutation for a task.
CountTasks == Len(queue)

\* "to be conservative, we return the maximum number of possible mutations"
Count == Len(queue) * Len(Solvers)

TraceEnds ==
    /\ phase = "trace"
    /\ cur' = 0
    /\ left' = Count
    /\ phase' = "stage"
    /\ UNCHANGED <<covered, counter, fuzzed, entry, tasks, queue, index, state,
                   seed, conds, picks, cut>>

-----------------------------------------------------------------------------
(* afl_custom_fuzz *)

\* Which task and which solver: go is what the call starts from.  A task is left
\* when its mutation was validated, given up (cur = 0) or has met every solver.
At(q, t, i, st) == [queue |-> q, cur |-> t, index |-> i, state |-> st]

\* Mutant: the newest task first.
NextTaskNewest(st, i) ==
    IF queue = <<>> THEN At(<<>>, 0, i, "INVALID") ELSE At(Front(queue), Last(queue), 0, st)

\* get_next_task; i is the index when there is none.
NextTask(st, i) ==
    IF queue = <<>> THEN At(<<>>, 0, i, "INVALID") ELSE At(Tail(queue), Head(queue), 0, st)

\* Mutant: the next solver is not tried after one that failed.
StartsSame ==
    IF cur = 0 \/ state = "VALIDATED" THEN NextTask("INVALID", index)
    ELSE At(queue, cur, index, state)

Starts ==
    IF cur = 0 \/ state = "VALIDATED" THEN NextTask("INVALID", index)
    ELSE IF state = "IN_VALIDATION" /\ index + 1 >= Len(Solvers)
    THEN NextTask(state, index + 1)
    ELSE At(queue, cur, IF state = "IN_VALIDATION" THEN index + 1 ELSE index, state)

\* What a solver may answer for task t, with the flags it leaves.
Answer(ret, skip_next, solved) == [ret |-> ret, skip_next |-> skip_next, solved |-> solved]

\* I2S: matches inputs with operands; it keeps no record.
I2SAnswers(t) == {Answer(r, t.skip_next, t.solved) : r \in {"SAT", "TIMEOUT"}}

\* The other solvers first look whether the base of a nested task is done with.
Base(t) == IF t.base = 0 THEN Task(t.seed, t.branch, 0) ELSE tasks[t.base]
Skipped(t) == {Answer(IF Base(t).solved THEN "SAT" ELSE "UNSAT", TRUE, t.solved)}
Failed(t) == Answer("ERROR", t.skip_next, t.solved)

JITAnswers(t) ==
    IF Base(t).skip_next THEN Skipped(t)
    ELSE {Answer("SAT", t.skip_next, TRUE), Answer("TIMEOUT", t.skip_next, FALSE), Failed(t)}

Z3Answers(t) ==
    IF Base(t).skip_next THEN Skipped(t)
    ELSE {Answer("SAT", t.skip_next, TRUE), Failed(t)}
           \cup {Answer(r, t.skip_next, t.solved) : r \in {"UNSAT", "TIMEOUT"}}

Answers(s, t) ==
    CASE s = "I2S" -> I2SAnswers(t)
      [] s = "JIT" -> JITAnswers(t)
      [] s = "Z3"  -> Z3Answers(t)

\* The call finds no task.
FuzzNothing ==
    /\ phase = "stage"
    /\ left > 0
    /\ Starts.cur = 0
    /\ left' = left - 1
    /\ queue' = Starts.queue
    /\ cur' = 0
    /\ index' = Starts.index
    /\ state' = Starts.state
    /\ UNCHANGED <<covered, counter, fuzzed, entry, tasks, phase, seed, conds, picks, cut>>

\* Task t after an attempt of the solver with index i.
Attempted(t, i, ans) ==
    [t EXCEPT !.skip_next = ans.skip_next \/ ans.ret = "UNSAT",
              !.solved = ans.solved,
              !.unsat = @ \/ ans.ret = "UNSAT",
              !.tried = Append(@, i),
              !.onSeed = @ /\ t.seed = seed]

\* The call has a task and a solver.  AFL++ runs the output, if there is one; it
\* leaves the stage when it gets no buffer.
Fuzz(ans) ==
    LET go == Starts
        t == go.cur
    IN  /\ phase = "stage"
        /\ left > 0
        /\ t # 0
        /\ ans \in Answers(Solvers[go.index + 1], tasks[t])
        /\ left' = left - 1
        /\ queue' = go.queue
        /\ index' = go.index
        /\ cur' = IF ans.ret = "UNSAT" THEN 0 ELSE t
        /\ state' = IF ans.ret \in {"SAT", "TIMEOUT"} THEN "IN_VALIDATION" ELSE go.state
        /\ tasks' = [tasks EXCEPT ![t] = Attempted(tasks[t], go.index, ans)]
        /\ phase' = CASE ans.ret = "SAT" -> "run" [] ans.ret = "ERROR" -> "other"
                      [] OTHER -> "stage"
        /\ cut' = (cut \/ ans.ret = "ERROR")
        /\ UNCHANGED <<covered, counter, fuzzed, entry, seed, conds, picks>>

-----------------------------------------------------------------------------
(* afl_custom_queue_new_entry, and AFL++. *)

\* Mutant: a task that was solved is not marked.
NewEntryUnmarked ==
    IF entry = seed /\ state = "IN_VALIDATION"
    THEN /\ state' = "VALIDATED"
         /\ tasks' = IF cur = 0 THEN tasks ELSE [tasks EXCEPT ![cur].hit = TRUE]
    ELSE UNCHANGED <<state, tasks>>

\* A new entry was made from the seed.
NewEntry ==
    IF entry = seed /\ state = "IN_VALIDATION"
    THEN /\ state' = "VALIDATED"
         /\ tasks' = IF cur = 0 THEN tasks
                     ELSE [tasks EXCEPT ![cur].skip_next = TRUE, ![cur].hit = TRUE]
    ELSE UNCHANGED <<state, tasks>>

\* AFL++ runs a mutation, which makes a new entry or not.
Runs ==
    /\ phase = "run"
    /\ NewEntry \/ UNCHANGED <<state, tasks>>
    /\ phase' = "stage"
    /\ UNCHANGED <<covered, counter, fuzzed, entry, queue, cur, index, seed, left, conds,
                   picks, cut>>

\* The stage is over: all mutations were asked for, or AFL++ goes on to another seed.
StageEnds ==
    /\ phase = "stage"
    /\ phase' = "other"
    /\ cut' = (cut \/ left > 0)
    /\ UNCHANGED <<mutator, seed, left, conds, picks>>

\* A later stage (havoc, say) makes a new entry of the same seed.
OtherEntry ==
    /\ phase = "other"
    /\ NewEntry
    /\ UNCHANGED <<covered, counter, fuzzed, entry, queue, cur, index, afl>>

Leaves ==
    /\ phase = "other"
    /\ phase' = "idle"
    /\ UNCHANGED <<mutator, seed, left, conds, picks, cut>>

Rets == {"SAT", "UNSAT", "TIMEOUT", "ERROR"}

Next ==
    \/ \E s \in Seeds : Pick(s)
    \/ \E b \in Branches, d \in BOOLEAN, n \in 0 .. 2 : HandleCond(b, d, n)
    \/ TraceEnds
    \/ FuzzNothing
    \/ \E r \in Rets, skip, solved \in BOOLEAN : Fuzz(Answer(r, skip, solved))
    \/ Runs
    \/ StageEnds
    \/ OtherEntry
    \/ Leaves

Spec == Init /\ [][Next]_vars

-----------------------------------------------------------------------------
(* Properties. *)

Tasks == 1 .. Len(tasks)

\* Every task meets the solvers one after another, from the first, none of them
\* twice and none left out.
SolversInOrder ==
    \A t \in Tasks : tasks[t].tried = [i \in 1 .. Len(tasks[t].tried) |-> i - 1]

\* The number of mutations announced is enough: as long as AFL++ asks for all of
\* them, every task is solved, found unsatisfiable or tried by every solver.
CountEnough ==
    phase = "other" /\ ~cut =>
        \A t \in Tasks : \/ tasks[t].hit \/ tasks[t].unsat
                         \/ Len(tasks[t].tried) = Len(Solvers)

\* A task is solved on the seed whose trace it came from, as long as AFL++ leaves no
\* seed early: what is then left in the queue is tried on the buffer of the next.
OnItsSeed == ~cut => \A t \in Tasks : tasks[t].onSeed

\* A nested task is tried only when the task it extends is done with, so that the
\* solvers find the flags of that task final.
BaseFirst ==
    \A t \in Tasks : tasks[t].tried # <<>> /\ tasks[t].base # 0 =>
        /\ tasks[t].base \notin Range(queue)
        /\ tasks[t].base # cur

\* A nested task whose base was flipped by its mutation is not searched again: the
\* solvers that look at the base (JIT, Z3) never make a solution of their own.
NestedSkipped ==
    [][\A t \in Tasks :
         /\ tasks[t].base # 0
         /\ tasks[tasks[t].base].hit
         => tasks'[t].solved = tasks[t].solved]_vars
=============================================================================
