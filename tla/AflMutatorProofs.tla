-------------------------- MODULE AflMutatorProofs --------------------------
(***************************************************************************)
(* Proofs about AflMutator for any seeds, branches, solvers and traces.    *)
(***************************************************************************)
EXTENDS AflMutator, SequenceTheorems, TLAPS

N == Len(Solvers)

TaskType ==
    [seed : Seeds \cup {NoSeed}, branch : Branches, base : Nat, skip_next : BOOLEAN,
     solved : BOOLEAN, tried : Seq(Int), onSeed : BOOLEAN, unsat : BOOLEAN, hit : BOOLEAN]

\* AFL++ is asking for mutations.
Staged == phase \in {"stage", "run"}

TypeInv ==
    /\ tasks \in Seq(TaskType)
    /\ queue \in Seq(Nat)
    /\ \A i \in 1 .. Len(queue) : queue[i] \in Tasks
    /\ cur \in Tasks \cup {0}
    /\ index \in Int
    /\ state \in {"INVALID", "IN_VALIDATION", "VALIDATED"}
    /\ phase \in {"idle", "trace", "stage", "run", "other"}
    /\ seed \in Seeds \cup {NoSeed}
    /\ left \in Nat
    /\ cut \in BOOLEAN

\* The queue holds the tasks nobody has tried, oldest first, all of them younger than the
\* tasks that were tried.
QueueInv ==
    /\ \A i, j \in 1 .. Len(queue) : i < j => queue[i] < queue[j]
    /\ \A i \in 1 .. Len(queue) : tasks[queue[i]].tried = <<>>
    /\ \A t \in Tasks : tasks[t].tried # <<>> \/ t = cur =>
          \A i \in 1 .. Len(queue) : t < queue[i]

\* The current task is the youngest that was tried, and has met the solvers up to index.
CurInv ==
    /\ cur # 0 => \A t \in Tasks : tasks[t].tried # <<>> => t <= cur
    /\ cur # 0 /\ Staged =>
          /\ index \in 0 .. N - 1
          /\ Len(tasks[cur].tried) = index + 1
          /\ state \in {"IN_VALIDATION", "VALIDATED"}
          /\ state = "VALIDATED" => tasks[cur].hit

\* A nested task is younger than the task it extends; one that was hit is marked.
TaskInv ==
    \A t \in Tasks : /\ tasks[t].base < t
                     /\ tasks[t].hit => tasks[t].skip_next

OrderInv == TypeInv /\ QueueInv /\ CurInv /\ TaskInv /\ SolversInOrder

\* No more solver will have a go at a task.
Done(t) == tasks[t].hit \/ tasks[t].unsat \/ Len(tasks[t].tried) = N

\* The attempts the current task may still need.
Rest == IF cur = 0 \/ state = "VALIDATED" THEN 0 ELSE N - (index + 1)

\* Unless AFL++ has left a seed early: every task that is not done with is waiting, it is
\* of the seed at hand, and the mutations still to be asked for are enough.
ProgressInv ==
    ~cut =>
        /\ \A t \in Tasks : \/ Done(t)
                            \/ \E i \in 1 .. Len(queue) : queue[i] = t
                            \/ Staged /\ t = cur
        /\ phase \in {"idle", "other"} => queue = <<>>
        /\ \A i \in 1 .. Len(queue) : tasks[queue[i]].seed = seed
        /\ Staged => /\ left >= Len(queue) * N + Rest
                     /\ cur # 0 => tasks[cur].seed = seed
        /\ \A t \in Tasks : tasks[t].onSeed

Inv == OrderInv /\ ProgressInv

LEMMA SolversType == N \in Nat /\ N > 0 /\ \A i \in 1 .. N : Solvers[i] \in {"I2S", "JIT", "Z3"}
BY MutatorAssumption DEF N

LEMMA InitInv == Init => Inv
<1> SUFFICES ASSUME Init PROVE Inv
  OBVIOUS
<1>1. Tasks = {} /\ 1 .. Len(queue) = {} /\ cur = 0 /\ ~Staged
  BY DEF Init, Tasks, Staged
<1>2. TypeInv
  <2>1. tasks \in Seq(TaskType) /\ queue \in Seq(Nat)
    BY DEF Init
  <2>2. \A i \in 1 .. Len(queue) : queue[i] \in Tasks
    BY <1>1, Zenon
  <2>0. cur = 0 /\ index = -1 /\ left = 0 /\ cut = FALSE
    BY Zenon DEF Init
  <2>5. index \in Int /\ left \in Nat
    BY <2>0
  <2>6. cur \in Tasks \cup {0} /\ cut \in BOOLEAN
    BY <2>0, Zenon
  <2>4. /\ state \in {"INVALID", "IN_VALIDATION", "VALIDATED"}
        /\ phase \in {"idle", "trace", "stage", "run", "other"}
        /\ seed \in Seeds \cup {NoSeed}
    BY DEF Init
  <2> QED
    BY <2>1, <2>2, <2>4, <2>5, <2>6, Zenon DEF TypeInv
<1>3. QueueInv /\ CurInv /\ TaskInv /\ SolversInOrder
  BY <1>1, Zenon DEF QueueInv, CurInv, TaskInv, SolversInOrder
<1>4. ProgressInv
  BY <1>1 DEF Init, ProgressInv
<1> QED
  BY <1>2, <1>3, <1>4 DEF Inv, OrderInv
-----------------------------------------------------------------------------
(* Steps that leave the queue, the current task and the attempts alone. *)

\* Tasks keep what the order and the progress of attempts depend on; they may be marked.
Marked ==
    /\ tasks' \in Seq(TaskType)
    /\ Len(tasks') = Len(tasks)
    /\ \A t \in Tasks :
          /\ tasks'[t].tried = tasks[t].tried
          /\ tasks'[t].base = tasks[t].base
          /\ tasks'[t].seed = tasks[t].seed
          /\ tasks'[t].unsat = tasks[t].unsat
          /\ tasks'[t].onSeed = tasks[t].onSeed
          /\ tasks'[t].solved = tasks[t].solved
          /\ tasks[t].hit => tasks'[t].hit
          /\ tasks'[t].hit => tasks'[t].skip_next

LEMMA MarkedOrder ==
    ASSUME OrderInv, Marked, UNCHANGED <<queue, cur, index>>, Staged' => Staged,
           state' \in {"INVALID", "IN_VALIDATION", "VALIDATED"},
           cur # 0 /\ Staged' => /\ state' \in {"IN_VALIDATION", "VALIDATED"}
                                 /\ state' = "VALIDATED" => tasks'[cur].hit,
           phase' \in {"idle", "trace", "stage", "run", "other"},
           seed' \in Seeds \cup {NoSeed}, left' \in Nat, cut' \in BOOLEAN
    PROVE  OrderInv'
<1>1. Tasks' = Tasks
  BY DEF Tasks, Marked
<1>2. TypeInv'
  BY <1>1 DEF OrderInv, TypeInv, Marked
<1>3. QueueInv'
  BY <1>1 DEF OrderInv, QueueInv, TypeInv, Marked
<1>4. CurInv'
  <2>1. cur # 0 => cur \in Tasks
    BY DEF OrderInv, TypeInv
  <2> QED
    BY <1>1, <2>1 DEF OrderInv, CurInv, Marked
<1>5. TaskInv' /\ SolversInOrder'
  BY <1>1 DEF OrderInv, TaskInv, SolversInOrder, Marked
<1> QED
  BY <1>2, <1>3, <1>4, <1>5 DEF OrderInv

LEMMA SameMarked ==
    ASSUME OrderInv, tasks' = tasks
    PROVE  Marked
BY DEF OrderInv, TypeInv, TaskInv, Marked

\* A new entry marks the current task.
LEMMA NewEntryMarks ==
    ASSUME OrderInv, NewEntry, cur' = cur
    PROVE  /\ Marked
           /\ state' \in {"INVALID", "IN_VALIDATION", "VALIDATED"}
           /\ cur # 0 /\ Staged => /\ state' \in {"IN_VALIDATION", "VALIDATED"}
                                   /\ state' = "VALIDATED" => tasks'[cur].hit
<1>1. CASE UNCHANGED <<state, tasks>>
  BY <1>1, SameMarked DEF OrderInv, TypeInv, CurInv
<1>2. CASE state' = "VALIDATED" /\ cur = 0 /\ tasks' = tasks
  BY <1>2, SameMarked
<1>3. CASE /\ state' = "VALIDATED" /\ cur # 0
           /\ tasks' = [tasks EXCEPT ![cur].skip_next = TRUE, ![cur].hit = TRUE]
  <2>1. cur \in Tasks /\ tasks \in Seq(TaskType) /\ tasks[cur] \in TaskType
    BY <1>3 DEF OrderInv, TypeInv, Tasks
  <2>2. tasks' = [tasks EXCEPT ![cur] = [tasks[cur] EXCEPT !.skip_next = TRUE, !.hit = TRUE]]
    BY <1>3, <2>1 DEF Tasks
  <2> DEFINE m == [tasks[cur] EXCEPT !.skip_next = TRUE, !.hit = TRUE]
  <2>3. /\ m \in TaskType /\ m.skip_next /\ m.hit /\ m.tried = tasks[cur].tried
        /\ m.base = tasks[cur].base /\ m.seed = tasks[cur].seed
        /\ m.unsat = tasks[cur].unsat /\ m.onSeed = tasks[cur].onSeed
        /\ m.solved = tasks[cur].solved
    BY <2>1 DEF TaskType
  <2> HIDE DEF m
  <2>4. /\ tasks' \in Seq(TaskType) /\ Len(tasks') = Len(tasks)
        /\ \A t \in Tasks : tasks'[t] = IF t = cur THEN m ELSE tasks[t]
    <3>1. tasks' = [tasks EXCEPT ![cur] = m]
      BY <2>2 DEF m
    <3> QED
      BY <2>1, <2>3, <3>1, ExceptSeq DEF Tasks
  <2>5. tasks'[cur] = m
    BY <2>1, <2>4
  <2>6. \A t \in Tasks : t # cur => tasks'[t] = tasks[t] /\ (tasks[t].hit => tasks[t].skip_next)
    BY <2>4 DEF OrderInv, TaskInv
  <2>7. Marked
    BY <2>3, <2>4, <2>5, <2>6 DEF Marked
  <2> QED
    BY <1>3, <2>3, <2>5, <2>7
<1> QED
  BY <1>1, <1>2, <1>3 DEF NewEntry

LEMMA MarkedProgress ==
    ASSUME OrderInv, ProgressInv, Marked, UNCHANGED <<queue, cur, index, seed, left, cut>>,
           Staged' = Staged, phase' \in {"idle", "other"} => phase \in {"idle", "other"},
           state' = state \/ state' = "VALIDATED"
    PROVE  ProgressInv'
<1> SUFFICES ASSUME ~cut
             PROVE  ProgressInv'
  BY DEF ProgressInv
<1>1. Tasks' = Tasks
  BY DEF Tasks, Marked
<1>2. \A t \in Tasks : Done(t) => Done(t)'
  BY DEF Done, Marked
<1>3. \A t \in Tasks' : \/ Done(t)'
                        \/ \E i \in 1 .. Len(queue') : queue'[i] = t
                        \/ Staged' /\ t = cur'
  BY <1>1, <1>2 DEF ProgressInv
<1>4. phase' \in {"idle", "other"} => queue' = <<>>
  BY DEF ProgressInv
<1>5. \A i \in 1 .. Len(queue') : tasks'[queue'[i]].seed = seed'
  BY DEF ProgressInv, Marked, OrderInv, TypeInv
<1>6. Staged => Rest' \in Int /\ Rest' <= Rest /\ Rest \in Int
  BY SolversType DEF Rest, OrderInv, TypeInv, CurInv
<1>7. Staged' => left' >= Len(queue') * N + Rest'
  <2>1. Len(queue) * N \in Int
    BY SolversType DEF OrderInv, TypeInv
  <2> QED
    BY <1>6, <2>1 DEF ProgressInv, OrderInv, TypeInv
<1>8. Staged' /\ cur' # 0 => tasks'[cur'].seed = seed'
  BY DEF ProgressInv, Marked, OrderInv, TypeInv
<1>9. \A t \in Tasks' : tasks'[t].onSeed
  BY <1>1 DEF ProgressInv, Marked
<1> QED
  BY <1>3, <1>4, <1>5, <1>7, <1>8, <1>9 DEF ProgressInv
-----------------------------------------------------------------------------
(* afl_custom_fuzz_count. *)

LEMMA PickInv ==
    ASSUME Inv, NEW s \in Seeds, Pick(s)
    PROVE  Inv'
<1>1. /\ phase = "idle" /\ seed' = s /\ left' = 0 /\ phase' \in {"other", "trace"}
      /\ UNCHANGED <<covered, tasks, queue, cur, index, state, cut>>
  BY DEF Pick
<1>2. Marked
  BY <1>1, SameMarked DEF Inv
<1>3. ~Staged /\ ~Staged'
  BY <1>1 DEF Staged
<1>4. OrderInv'
  BY <1>1, <1>2, <1>3, MarkedOrder DEF Inv, OrderInv, TypeInv
<1>5. ProgressInv'
  <2> SUFFICES ASSUME ~cut
               PROVE  ProgressInv'
    BY <1>1 DEF ProgressInv
  <2>1. queue = <<>> /\ Tasks' = Tasks
    BY <1>1 DEF Inv, ProgressInv, Tasks
  <2>2. 1 .. Len(queue) = {}
    BY <2>1
  <2>3. \A t \in Tasks : Done(t) /\ tasks[t].onSeed
    BY <1>3, <2>2 DEF Inv, ProgressInv
  <2>4. \A t \in Tasks : Done(t)' = Done(t)
    BY <1>1 DEF Done
  <2> QED
    BY <1>1, <1>3, <2>1, <2>2, <2>3, <2>4 DEF ProgressInv
<1> QED
  BY <1>4, <1>5 DEF Inv

LEMMA TraceEndsInv ==
    ASSUME Inv, TraceEnds
    PROVE  Inv'
<1>1. /\ phase = "trace" /\ cur' = 0 /\ left' = Len(queue) * N /\ phase' = "stage"
      /\ UNCHANGED <<tasks, queue, index, state, seed, cut>>
  BY DEF TraceEnds, Count, N
<1>2. Tasks' = Tasks /\ ~Staged /\ Staged'
  BY <1>1 DEF Tasks, Staged
<1>3. Len(queue) \in Nat /\ Len(queue) * N \in Nat
  BY SolversType DEF Inv, OrderInv, TypeInv
<1>4. TypeInv'
  BY <1>1, <1>2, <1>3 DEF Inv, OrderInv, TypeInv
<1>5. QueueInv' /\ CurInv' /\ TaskInv' /\ SolversInOrder'
  <2>1. QueueInv'
    BY <1>1, <1>2 DEF Inv, OrderInv, QueueInv, Tasks
  <2>2. CurInv'
    BY <1>1 DEF CurInv
  <2>3. TaskInv' /\ SolversInOrder'
    BY <1>1, <1>2 DEF Inv, OrderInv, TaskInv, SolversInOrder
  <2> QED
    BY <2>1, <2>2, <2>3
<1>6. ProgressInv'
  <2> SUFFICES ASSUME ~cut
               PROVE  ProgressInv'
    BY <1>1 DEF ProgressInv
  <2>1. \A t \in Tasks : Done(t)' = Done(t)
    BY <1>1 DEF Done
  <2>2. Rest' = 0
    BY <1>1 DEF Rest
  <2>3. left' >= Len(queue') * N + Rest'
    BY <1>1, <1>3, <2>2
  <2>4. \A t \in Tasks' : Done(t)' \/ \E i \in 1 .. Len(queue') : queue'[i] = t
    BY <1>1, <1>2, <2>1 DEF Inv, ProgressInv
  <2>5. \A i \in 1 .. Len(queue') : tasks'[queue'[i]].seed = seed'
    BY <1>1 DEF Inv, ProgressInv
  <2>6. \A t \in Tasks' : tasks'[t].onSeed
    BY <1>1, <1>2 DEF Inv, ProgressInv
  <2> QED
    BY <1>1, <2>3, <2>4, <2>5, <2>6 DEF ProgressInv
<1> QED
  BY <1>4, <1>5, <1>6 DEF Inv, OrderInv

\* The tasks that are made of a branch go to the end of the queue.
LEMMA HandleCondTasks ==
    ASSUME OrderInv, NEW b \in Branches, NEW d \in BOOLEAN, NEW n \in 0 .. 2,
           HandleCond(b, d, n)
    PROVE  /\ tasks' \in Seq(TaskType) /\ Len(tasks') = Len(tasks) + n
           /\ \A t \in Tasks : tasks'[t] = tasks[t]
           /\ \A t \in Len(tasks) + 1 .. Len(tasks) + n :
                 /\ tasks'[t].base < t /\ tasks'[t].tried = <<>> /\ ~tasks'[t].hit
                 /\ tasks'[t].seed = seed /\ tasks'[t].onSeed
           /\ queue' \in Seq(Nat) /\ Len(queue') = Len(queue) + n
           /\ \A i \in 1 .. Len(queue) : queue'[i] = queue[i]
           /\ \A i \in Len(queue) + 1 .. Len(queue) + n :
                 queue'[i] = Len(tasks) + (i - Len(queue))
<1>1. tasks \in Seq(TaskType) /\ queue \in Seq(Nat) /\ Len(tasks) \in Nat /\ Len(queue) \in Nat
      /\ seed \in Seeds \cup {NoSeed}
  BY DEF OrderInv, TypeInv
<1>2. CASE UNCHANGED <<tasks, queue>> /\ n = 0
  <2>1. /\ Len(tasks) + 1 .. Len(tasks) + n = {} /\ Len(tasks) + n = Len(tasks)
        /\ Len(queue) + 1 .. Len(queue) + n = {} /\ Len(queue) + n = Len(queue)
    BY <1>1, <1>2
  <2> QED
    BY <1>1, <1>2, <2>1
<1>3. CASE /\ tasks' = tasks \o Parsed(b, n)
           /\ queue' = queue \o [i \in 1 .. n |-> Len(tasks) + i]
  <2> DEFINE x == Task(seed, b, 0)
             y == Task(seed, b, Len(tasks) + 1)
             p == Parsed(b, n)
             q == [i \in 1 .. n |-> Len(tasks) + i]
  <2>1. /\ x \in TaskType /\ x.base = 0 /\ x.tried = <<>> /\ ~x.hit /\ x.seed = seed /\ x.onSeed
        /\ y \in TaskType /\ y.base = Len(tasks) + 1 /\ y.tried = <<>> /\ ~y.hit
        /\ y.seed = seed /\ y.onSeed
    BY <1>1 DEF Task, TaskType
  <2>2. p = SubSeq(<<x, y>>, 1, n)
    BY DEF Parsed
  <2> HIDE DEF x, y
  <2>3. p \in Seq(TaskType) /\ Len(p) = n /\ \A i \in 1 .. n : p[i] = <<x, y>>[i]
    <3> DEFINE xy == <<x, y>>
    <3>1. xy \in Seq(TaskType) /\ Len(xy) = 2
      BY <2>1
    <3> HIDE DEF xy
    <3>2. /\ SubSeq(xy, 1, n) \in Seq(TaskType)
          /\ Len(SubSeq(xy, 1, n)) = n
          /\ \A i \in 1 .. n : SubSeq(xy, 1, n)[i] = xy[i]
      <4>1. \A i \in 1 .. n : xy[i] \in TaskType
        <5>1. \A i \in 1 .. n : i \in 1 .. Len(xy)
          BY <3>1
        <5> QED
          BY <3>1, <5>1, ElementOfSeq
      <4>2. n \in Int /\ 1 \in Int
        OBVIOUS
      <4>3. /\ SubSeq(xy, 1, n) \in Seq(TaskType)
            /\ Len(SubSeq(xy, 1, n)) = IF 1 <= n THEN n - 1 + 1 ELSE 0
            /\ \A i \in 1 .. n - 1 + 1 : SubSeq(xy, 1, n)[i] = xy[1 + i - 1]
        BY <4>1, <4>2, SubSeqProperties
      <4>4. (IF 1 <= n THEN n - 1 + 1 ELSE 0) = n /\ n - 1 + 1 = n
        OBVIOUS
      <4>5. \A i \in 1 .. n : 1 + i - 1 = i
        OBVIOUS
      <4> QED
        BY <4>3, <4>4, <4>5, Zenon
    <3> QED
      BY <2>2, <3>2 DEF xy
  <2> HIDE DEF p
  <2>4. q \in Seq(Nat) /\ Len(q) = n /\ \A i \in 1 .. n : q[i] = Len(tasks) + i
    BY <1>1
  <2> HIDE DEF q
  <2>5. /\ tasks' \in Seq(TaskType) /\ Len(tasks') = Len(tasks) + n
        /\ \A t \in 1 .. Len(tasks) + n :
              tasks'[t] = IF t <= Len(tasks) THEN tasks[t] ELSE p[t - Len(tasks)]
    BY <1>1, <1>3, <2>3, ConcatProperties DEF p
  <2>6. /\ queue' \in Seq(Nat) /\ Len(queue') = Len(queue) + n
        /\ \A i \in 1 .. Len(queue) + n :
              queue'[i] = IF i <= Len(queue) THEN queue[i] ELSE q[i - Len(queue)]
    BY <1>1, <1>3, <2>4, ConcatProperties DEF q
  <2>7. ASSUME NEW t \in Tasks
        PROVE  tasks'[t] = tasks[t]
    <3>1. t \in 1 .. Len(tasks) + n /\ t <= Len(tasks)
      BY <1>1 DEF Tasks
    <3> QED
      BY <2>5, <3>1, Zenon
  <2>8. ASSUME NEW t \in Len(tasks) + 1 .. Len(tasks) + n
        PROVE  /\ tasks'[t].base < t /\ tasks'[t].tried = <<>> /\ ~tasks'[t].hit
               /\ tasks'[t].seed = seed /\ tasks'[t].onSeed
    <3>1. /\ t \in 1 .. Len(tasks) + n /\ ~(t <= Len(tasks)) /\ t - Len(tasks) \in 1 .. n
          /\ t - Len(tasks) \in {1, 2}
      BY <1>1
    <3>2. tasks'[t] = p[t - Len(tasks)]
      BY <2>5, <3>1, Zenon
    <3>3. tasks'[t] = <<x, y>>[t - Len(tasks)]
      BY <2>3, <3>1, <3>2, Zenon
    <3>4. CASE t - Len(tasks) = 1
      <4>1. tasks'[t] = x
        BY <3>3, <3>4
      <4>2. 0 < t
        BY <1>1
      <4> QED
        BY <2>1, <4>1, <4>2
    <3>5. CASE t - Len(tasks) = 2
      <4>1. tasks'[t] = y
        BY <3>3, <3>5
      <4>2. Len(tasks) + 1 < t
        BY <1>1, <3>5
      <4> QED
        BY <2>1, <4>1, <4>2
    <3> QED
      BY <3>1, <3>4, <3>5
  <2>9. ASSUME NEW i \in 1 .. Len(queue)
        PROVE  queue'[i] = queue[i]
    <3>1. i \in 1 .. Len(queue) + n /\ i <= Len(queue)
      BY <1>1
    <3> QED
      BY <2>6, <3>1, Zenon
  <2>10. ASSUME NEW i \in Len(queue) + 1 .. Len(queue) + n
         PROVE  queue'[i] = Len(tasks) + (i - Len(queue))
    <3>1. i \in 1 .. Len(queue) + n /\ ~(i <= Len(queue)) /\ i - Len(queue) \in 1 .. n
      BY <1>1
    <3>2. queue'[i] = q[i - Len(queue)]
      BY <2>6, <3>1, Zenon
    <3> QED
      BY <2>4, <3>1, <3>2, Zenon
  <2> QED
    BY <2>5, <2>6, <2>7, <2>8, <2>9, <2>10
<1> QED
  BY <1>2, <1>3 DEF HandleCond
LEMMA HandleCondInv ==
    ASSUME Inv, NEW b \in Branches, NEW d \in BOOLEAN, NEW n \in 0 .. 2,
           HandleCond(b, d, n)
    PROVE  Inv'
<1>0. OrderInv
  BY DEF Inv
<1>1. /\ phase = "trace"
      /\ UNCHANGED <<cur, index, state, phase, seed, left, cut>>
  BY DEF HandleCond
<1>2. /\ tasks' \in Seq(TaskType) /\ Len(tasks') = Len(tasks) + n
      /\ \A t \in Tasks : tasks'[t] = tasks[t]
      /\ \A t \in Len(tasks) + 1 .. Len(tasks) + n :
            /\ tasks'[t].base < t /\ tasks'[t].tried = <<>> /\ ~tasks'[t].hit
            /\ tasks'[t].seed = seed /\ tasks'[t].onSeed
      /\ queue' \in Seq(Nat) /\ Len(queue') = Len(queue) + n
      /\ \A i \in 1 .. Len(queue) : queue'[i] = queue[i]
      /\ \A i \in Len(queue) + 1 .. Len(queue) + n :
            queue'[i] = Len(tasks) + (i - Len(queue))
  BY <1>0, HandleCondTasks
<1>3. Len(tasks) \in Nat /\ Len(queue) \in Nat
  BY DEF Inv, OrderInv, TypeInv
<1>4. Len(tasks') = Len(tasks) + n /\ Len(queue') = Len(queue) + n
  BY <1>2
<1> DEFINE New == Len(tasks) + 1 .. Len(tasks) + n
<1>5. /\ Tasks \cup New = Tasks' /\ Tasks \cap New = {}
      /\ \A t \in Tasks, u \in New : t < u
  BY <1>3, <1>4 DEF Tasks
<1>6. ~Staged /\ ~Staged'
  BY <1>1 DEF Staged
<1>7. ASSUME NEW i \in 1 .. Len(queue')
      PROVE  \/ i \in 1 .. Len(queue) /\ queue'[i] = queue[i] /\ queue[i] \in Tasks
             \/ /\ i \in Len(queue) + 1 .. Len(queue) + n
                /\ queue'[i] = Len(tasks) + (i - Len(queue)) /\ queue'[i] \in New
  <2>1. CASE i \in 1 .. Len(queue)
    BY <1>2, <2>1 DEF Inv, OrderInv, TypeInv
  <2>2. CASE i \in Len(queue) + 1 .. Len(queue) + n
    <3>1. queue'[i] = Len(tasks) + (i - Len(queue))
      BY <1>2, <2>2
    <3>2. Len(tasks) + (i - Len(queue)) \in New
      BY <1>3, <2>2
    <3> QED
      BY <2>2, <3>1, <3>2
  <2> QED
    BY <1>3, <1>4, <2>1, <2>2
<1> HIDE DEF New
<1>8. ASSUME NEW t \in Tasks'
      PROVE  \/ t \in Tasks /\ tasks'[t] = tasks[t]
             \/ /\ t \in New
                /\ tasks'[t].base < t /\ tasks'[t].tried = <<>> /\ ~tasks'[t].hit
                /\ tasks'[t].seed = seed /\ tasks'[t].onSeed
  BY <1>2, <1>5 DEF New
<1>9. TypeInv'
  <2>1. \A i \in 1 .. Len(queue') : queue'[i] \in Tasks'
    BY <1>5, <1>7
  <2>2. cur' \in Tasks' \cup {0}
    BY <1>1, <1>5 DEF Inv, OrderInv, TypeInv
  <2> QED
    BY <1>1, <1>2, <2>1, <2>2 DEF Inv, OrderInv, TypeInv
<1>10. QueueInv'
  <2>1. ASSUME NEW i \in 1 .. Len(queue'), NEW j \in 1 .. Len(queue'), i < j
        PROVE  queue'[i] < queue'[j]
    <3>1. CASE j \in 1 .. Len(queue)
      <4>1. i \in 1 .. Len(queue)
        BY <1>3, <1>4, <2>1, <3>1
      <4>2. queue[i] < queue[j]
        BY <2>1, <3>1, <4>1 DEF Inv, OrderInv, QueueInv
      <4> QED
        BY <1>2, <3>1, <4>1, <4>2
    <3>2. CASE j \notin 1 .. Len(queue) /\ i \in 1 .. Len(queue)
      <4>1. queue'[j] \in New
        BY <1>7, <3>2
      <4>2. queue'[i] \in Tasks
        BY <1>2, <3>2 DEF Inv, OrderInv, TypeInv
      <4> QED
        BY <1>5, <4>1, <4>2
    <3>3. CASE j \notin 1 .. Len(queue) /\ i \notin 1 .. Len(queue)
      <4>1. /\ queue'[i] = Len(tasks) + (i - Len(queue))
            /\ queue'[j] = Len(tasks) + (j - Len(queue))
        BY <1>7, <3>3
      <4>2. Len(tasks) + (i - Len(queue)) < Len(tasks) + (j - Len(queue))
        BY <1>3, <1>4, <2>1
      <4> QED
        BY <4>1, <4>2
    <3> QED
      BY <3>1, <3>2, <3>3
  <2>2. ASSUME NEW i \in 1 .. Len(queue')
        PROVE  tasks'[queue'[i]].tried = <<>>
    <3>1. CASE i \in 1 .. Len(queue) /\ queue'[i] = queue[i] /\ queue[i] \in Tasks
      <4>1. tasks'[queue[i]] = tasks[queue[i]]
        BY <1>2, <3>1
      <4> QED
        BY <3>1, <4>1 DEF Inv, OrderInv, QueueInv
    <3>2. CASE queue'[i] \in New
      BY <1>2, <3>2 DEF New
    <3> QED
      BY <1>7, <3>1, <3>2
  <2>3. ASSUME NEW t \in Tasks', tasks'[t].tried # <<>> \/ t = cur',
               NEW i \in 1 .. Len(queue')
        PROVE  t < queue'[i]
    <3>1. t \in Tasks /\ tasks'[t] = tasks[t]
      <4>1. t # 0
        BY DEF Tasks
      <4>2. t = cur' => t \in Tasks
        BY <1>0, <1>1, <4>1 DEF OrderInv, TypeInv
      <4>3. tasks'[t].tried # <<>> => t \in Tasks
        BY <1>8
      <4>4. t \in Tasks
        BY <2>3, <4>2, <4>3
      <4> QED
        BY <1>2, <4>4
    <3>2. CASE i \in 1 .. Len(queue) /\ queue'[i] = queue[i]
      BY <1>1, <2>3, <3>1, <3>2 DEF Inv, OrderInv, QueueInv
    <3>3. CASE queue'[i] \in New
      BY <1>5, <3>1, <3>3
    <3> QED
      BY <1>7, <3>2, <3>3
  <2> QED
    BY <2>1, <2>2, <2>3 DEF QueueInv
<1>11. CurInv'
  BY <1>1, <1>6, <1>8 DEF Inv, OrderInv, CurInv
<1>12. TaskInv'
  BY <1>8 DEF Inv, OrderInv, TaskInv
<1>13. SolversInOrder'
  <2>1. ASSUME NEW t \in Tasks', tasks'[t].tried = <<>>
        PROVE  tasks'[t].tried = [i \in 1 .. Len(tasks'[t].tried) |-> i - 1]
    <3>1. <<>> = [i \in 1 .. Len(<<>>) |-> i - 1]
      OBVIOUS
    <3> QED
      BY <2>1, <3>1
  <2> QED
    BY <1>8, <2>1 DEF Inv, OrderInv, SolversInOrder
<1>14. ProgressInv'
  <2> SUFFICES ASSUME ~cut
               PROVE  ProgressInv'
    BY <1>1 DEF ProgressInv
  <2>1. ASSUME NEW t \in Tasks'
        PROVE  Done(t)' \/ \E i \in 1 .. Len(queue') : queue'[i] = t
    <3>1. CASE t \in Tasks /\ tasks'[t] = tasks[t]
      <4>1. Done(t)' = Done(t)
        BY <3>1 DEF Done
      <4>2. CASE \E i \in 1 .. Len(queue) : queue[i] = t
        <5>1. PICK i \in 1 .. Len(queue) : queue[i] = t
          BY <4>2
        <5>2. i \in 1 .. Len(queue') /\ queue'[i] = t
          <6>1. i \in 1 .. Len(queue')
            BY <1>3, <1>4
          <6> QED
            BY <1>2, <5>1, <6>1
        <5> QED
          BY <5>2
      <4> QED
        BY <1>6, <3>1, <4>1, <4>2 DEF Inv, ProgressInv
    <3>2. CASE t \in New
      <4> DEFINE i == Len(queue) + (t - Len(tasks))
      <4>1. /\ i \in 1 .. Len(queue') /\ i \in Len(queue) + 1 .. Len(queue) + n
            /\ Len(tasks) + (i - Len(queue)) = t
        BY <1>3, <1>4, <3>2 DEF New
      <4> HIDE DEF i
      <4>2. queue'[i] = Len(tasks) + (i - Len(queue))
        BY <1>2, <4>1, Zenon
      <4> QED
        BY <4>1, <4>2, Zenon
    <3> QED
      BY <1>8, <3>1, <3>2
  <2>2. ASSUME NEW i \in 1 .. Len(queue')
        PROVE  tasks'[queue'[i]].seed = seed'
    <3>1. CASE i \in 1 .. Len(queue) /\ queue'[i] = queue[i] /\ queue[i] \in Tasks
      <4>1. tasks'[queue[i]] = tasks[queue[i]]
        BY <1>2, <3>1
      <4> QED
        BY <1>1, <3>1, <4>1 DEF Inv, ProgressInv
    <3>2. CASE queue'[i] \in New
      BY <1>1, <1>2, <3>2 DEF New
    <3> QED
      BY <1>7, <3>1, <3>2
  <2>3. \A t \in Tasks' : tasks'[t].onSeed
    BY <1>8 DEF Inv, ProgressInv
  <2> QED
    BY <1>1, <1>6, <2>1, <2>2, <2>3 DEF ProgressInv
<1> QED
  BY <1>9, <1>10, <1>11, <1>12, <1>13, <1>14 DEF Inv, OrderInv

-----------------------------------------------------------------------------
(* afl_custom_fuzz. *)

\* The current task is left: there is none, or it is done with.
Leaving == cur = 0 \/ state = "VALIDATED" \/ index + 1 >= N

LEMMA StartsCases ==
    ASSUME OrderInv, Staged
    PROVE  \/ /\ Leaving /\ queue = <<>> /\ \E i \in Int : Starts = At(<<>>, 0, i, "INVALID")
           \/ /\ Leaving /\ queue # <<>>
              /\ \E st \in {"INVALID", "IN_VALIDATION"} :
                    Starts = At(Tail(queue), Head(queue), 0, st)
           \/ /\ ~Leaving
              /\ cur # 0 /\ state = "IN_VALIDATION" /\ index + 1 < N
              /\ Starts = At(queue, cur, index + 1, "IN_VALIDATION")
<1>1. index \in Int /\ index + 1 \in Int /\ N \in Nat
  BY SolversType DEF OrderInv, TypeInv
<1>2. cur # 0 => state \in {"IN_VALIDATION", "VALIDATED"}
  BY DEF OrderInv, CurInv
<1>3. CASE cur = 0 \/ state = "VALIDATED"
  <2>1. Starts = NextTask("INVALID", index)
    BY <1>3 DEF Starts
  <2> QED
    BY <1>1, <1>3, <2>1 DEF NextTask, Leaving
<1>4. CASE cur # 0 /\ state = "IN_VALIDATION" /\ index + 1 >= N
  <2>1. Starts = NextTask("IN_VALIDATION", index + 1)
    BY <1>4 DEF Starts, N
  <2> QED
    BY <1>1, <1>4, <2>1 DEF NextTask, Leaving
<1>5. CASE cur # 0 /\ state = "IN_VALIDATION" /\ ~(index + 1 >= N)
  <2>1. Starts = At(queue, cur, index + 1, "IN_VALIDATION")
    BY <1>5 DEF Starts, N
  <2> QED
    BY <1>1, <1>5, <2>1 DEF Leaving
<1> QED
  BY <1>2, <1>3, <1>4, <1>5

\* A task that is left is done with.
LEMMA LeftDone ==
    ASSUME OrderInv, Staged, Leaving, cur # 0
    PROVE  Done(cur)
<1>1. index \in 0 .. N - 1 /\ Len(tasks[cur].tried) = index + 1
      /\ (state = "VALIDATED" => tasks[cur].hit)
  BY DEF OrderInv, CurInv
<1>2. state # "VALIDATED" => index + 1 = N
  BY <1>1, SolversType DEF Leaving
<1> QED
  BY <1>1, <1>2 DEF Done

LEMMA FuzzNothingInv ==
    ASSUME Inv, FuzzNothing
    PROVE  Inv'
<1>1. /\ phase = "stage" /\ left > 0 /\ Starts.cur = 0 /\ left' = left - 1
      /\ queue' = Starts.queue /\ cur' = 0 /\ index' = Starts.index /\ state' = Starts.state
      /\ UNCHANGED <<tasks, phase, seed, cut>>
  BY DEF FuzzNothing
<1>2. Staged /\ Staged' /\ OrderInv /\ Tasks' = Tasks
  BY <1>1 DEF Staged, Inv, Tasks
<1>3. Leaving /\ queue = <<>> /\ \E i \in Int : Starts = At(<<>>, 0, i, "INVALID")
  <2>1. \A q, t, i, st : At(q, t, i, st).cur = t
    BY DEF At
  <2>2. CASE queue # <<>> /\ \E st : Starts = At(Tail(queue), Head(queue), 0, st)
    <3>1. Head(queue) = queue[1] /\ 1 \in 1 .. Len(queue)
      BY <1>2, <2>2 DEF OrderInv, TypeInv
    <3>2. Head(queue) \in Tasks
      BY <1>2, <3>1 DEF OrderInv, TypeInv
    <3>3. Head(queue) # 0
      BY <3>2 DEF Tasks
    <3> QED
      BY <1>1, <2>1, <2>2, <3>3
  <2>3. CASE cur # 0 /\ Starts = At(queue, cur, index + 1, "IN_VALIDATION")
    BY <1>1, <2>1, <2>3
  <2> QED
    BY <1>2, <2>2, <2>3, StartsCases
<1>4. queue' = <<>> /\ index' \in Int /\ state' = "INVALID"
  BY <1>1, <1>3 DEF At
<1>5. left' \in Nat
  BY <1>1, <1>2 DEF OrderInv, TypeInv
<1>6. 1 .. Len(queue') = {}
  BY <1>4
<1>7. OrderInv'
  <2>1. TypeInv'
    BY <1>1, <1>2, <1>4, <1>5, <1>6 DEF OrderInv, TypeInv
  <2>2. QueueInv' /\ CurInv'
    BY <1>1, <1>6, Zenon DEF QueueInv, CurInv
  <2>3. TaskInv' /\ SolversInOrder'
    BY <1>1, <1>2 DEF OrderInv, TaskInv, SolversInOrder
  <2> QED
    BY <2>1, <2>2, <2>3 DEF OrderInv
<1>8. ProgressInv'
  <2> SUFFICES ASSUME ~cut
               PROVE  ProgressInv'
    BY <1>1 DEF ProgressInv
  <2>1. ASSUME NEW t \in Tasks
        PROVE  Done(t)
    <3>1. 1 .. Len(queue) = {}
      BY <1>3
    <3>2. Done(t) \/ t = cur
      BY <3>1 DEF Inv, ProgressInv
    <3>3. t # 0
      BY DEF Tasks
    <3> QED
      BY <1>2, <1>3, <3>2, <3>3, LeftDone
  <2>2. \A t \in Tasks : Done(t)' = Done(t)
    BY <1>1 DEF Done
  <2>3. Len(queue') * N + Rest' = 0
    BY <1>1, <1>4, SolversType DEF Rest
  <2>4. \A t \in Tasks' : tasks'[t].onSeed
    BY <1>1, <1>2 DEF Inv, ProgressInv
  <2> QED
    BY <1>1, <1>2, <1>5, <1>6, <2>1, <2>2, <2>3, <2>4 DEF ProgressInv
<1> QED
  BY <1>7, <1>8 DEF Inv

\* What an attempt does to its task.
Tried(t, i, ans) ==
    /\ tasks' \in Seq(TaskType) /\ Len(tasks') = Len(tasks)
    /\ \A u \in Tasks : u # t => tasks'[u] = tasks[u]
    /\ tasks'[t].tried = Append(tasks[t].tried, i)
    /\ tasks'[t].base = tasks[t].base
    /\ tasks'[t].seed = tasks[t].seed
    /\ tasks'[t].hit = tasks[t].hit
    /\ tasks[t].skip_next => tasks'[t].skip_next
    /\ tasks[t].unsat \/ ans.ret = "UNSAT" => tasks'[t].unsat
    /\ tasks[t].onSeed /\ tasks[t].seed = seed => tasks'[t].onSeed
    /\ tasks'[t].solved = ans.solved

\* No solver takes back that a task is to be skipped.
LEMMA SkipKept ==
    ASSUME NEW s \in {"I2S", "JIT", "Z3"}, NEW t, NEW ans \in Answers(s, t), t.skip_next
    PROVE  ans.skip_next
BY DEF Answers, I2SAnswers, JITAnswers, Z3Answers, Skipped, Failed, Answer

LEMMA AttemptTasks ==
    ASSUME OrderInv, NEW t \in Tasks, NEW i \in 0 .. N - 1, NEW r \in Rets,
           NEW skip \in BOOLEAN, NEW slv \in BOOLEAN,
           Answer(r, skip, slv) \in Answers(Solvers[i + 1], tasks[t]),
           tasks' = [tasks EXCEPT ![t] = Attempted(tasks[t], i, Answer(r, skip, slv))]
    PROVE  Tried(t, i, Answer(r, skip, slv))
<1> DEFINE k == tasks[t]
           m == Attempted(k, i, Answer(r, skip, slv))
<1>1. k \in TaskType /\ tasks \in Seq(TaskType) /\ t \in 1 .. Len(tasks)
  BY DEF OrderInv, TypeInv, Tasks
<1>2. tasks' = [tasks EXCEPT ![t] = m]
  OBVIOUS
<1>3. k.skip_next => skip
  <2>1. i + 1 \in 1 .. N
    BY SolversType
  <2>2. Solvers[i + 1] \in {"I2S", "JIT", "Z3"}
    BY <2>1, SolversType
  <2>3. k.skip_next => Answer(r, skip, slv).skip_next
    BY <2>2, SkipKept
  <2> QED
    BY <2>3 DEF Answer
<1> HIDE DEF k
<1>4. /\ m \in TaskType
      /\ m.tried = Append(k.tried, i)
      /\ m.base = k.base /\ m.seed = k.seed /\ m.hit = k.hit /\ m.solved = slv
      /\ m.skip_next = (skip \/ r = "UNSAT")
      /\ m.unsat = (k.unsat \/ r = "UNSAT")
      /\ m.onSeed = (k.onSeed /\ k.seed = seed)
  <2>1. Append(k.tried, i) \in Seq(Int)
    BY <1>1, SolversType DEF TaskType
  <2>2. (skip \/ r = "UNSAT") \in BOOLEAN /\ (k.unsat \/ r = "UNSAT") \in BOOLEAN
        /\ (k.onSeed /\ k.seed = seed) \in BOOLEAN
    OBVIOUS
  <2> QED
    BY <1>1, <2>1, <2>2 DEF TaskType, Attempted, Answer
<1> HIDE DEF m
<1>5. /\ tasks' \in Seq(TaskType) /\ Len(tasks') = Len(tasks)
      /\ \A u \in Tasks : tasks'[u] = IF u = t THEN m ELSE tasks[u]
  BY <1>1, <1>2, <1>4, ExceptSeq DEF Tasks
<1>6. tasks'[t] = m
  BY <1>5
<1>7. Answer(r, skip, slv).ret = r /\ Answer(r, skip, slv).solved = slv
  BY DEF Answer
<1> QED
  BY <1>3, <1>4, <1>5, <1>6, <1>7 DEF Tried, k
\* An attempt at task t, with the solver of index i, by a call that leaves the queue
\* without its first k tasks.
Attempt(t, i, k, st, ans) ==
    /\ Tried(t, i, ans)
    /\ Len(queue') = Len(queue) - k
    /\ \A j \in 1 .. Len(queue') : queue'[j] = queue[j + k]
    /\ queue' \in Seq(Nat)
    /\ cur' = IF ans.ret = "UNSAT" THEN 0 ELSE t
    /\ index' = i
    /\ state' = IF ans.ret \in {"SAT", "TIMEOUT"} THEN "IN_VALIDATION" ELSE st
    /\ phase' = CASE ans.ret = "SAT" -> "run" [] ans.ret = "ERROR" -> "other"
                  [] OTHER -> "stage"
    /\ left' = left - 1
    /\ cut' = (cut \/ ans.ret = "ERROR")
    /\ seed' = seed

\* Task t is next: it is younger than all that were tried and older than the queue.
IsNext(t, i) ==
    /\ \A j \in 1 .. Len(queue') : t < queue'[j]
    /\ \A u \in Tasks : tasks[u].tried # <<>> => u <= t
    /\ Len(tasks[t].tried) = i

LEMMA AttemptOrder ==
    ASSUME OrderInv, left > 0, NEW t \in Tasks, NEW i \in 0 .. N - 1, NEW k \in {0, 1},
           NEW st \in {"INVALID", "IN_VALIDATION"}, NEW ans, ans.ret \in Rets,
           Attempt(t, i, k, st, ans), IsNext(t, i)
    PROVE  OrderInv'
<1>1. Tasks' = Tasks
  BY DEF Tasks, Attempt, Tried
<1>2. Len(queue) \in Nat /\ Len(queue') \in Nat /\ Len(queue') = Len(queue) - k
  BY DEF OrderInv, TypeInv, Attempt
<1>3. ASSUME NEW j \in 1 .. Len(queue')
      PROVE  j + k \in 1 .. Len(queue) /\ queue'[j] = queue[j + k]
  BY <1>2 DEF Attempt
<1>4. t # 0 /\ N \in Nat
  BY SolversType DEF Tasks
<1>5. TypeInv'
  <2>1. \A j \in 1 .. Len(queue') : queue'[j] \in Tasks
    BY <1>3 DEF OrderInv, TypeInv
  <2>2. phase' \in {"stage", "run", "other"}
    BY DEF Attempt
  <2>3. left' \in Nat /\ index' \in Int
    BY <1>4 DEF Attempt, OrderInv, TypeInv
  <2>4. cur' \in Tasks \cup {0} /\ state' \in {"INVALID", "IN_VALIDATION"} /\ cut' \in BOOLEAN
    BY DEF Attempt
  <2>5. tasks' \in Seq(TaskType) /\ queue' \in Seq(Nat) /\ seed' \in Seeds \cup {NoSeed}
    BY DEF Attempt, Tried, OrderInv, TypeInv
  <2> QED
    BY <1>1, <2>1, <2>2, <2>3, <2>4, <2>5 DEF TypeInv
<1>6. /\ \A u \in Tasks : u # t => tasks'[u] = tasks[u]
      /\ tasks'[t].tried = Append(tasks[t].tried, i)
      /\ tasks'[t].base = tasks[t].base /\ tasks'[t].hit = tasks[t].hit
      /\ tasks[t].skip_next => tasks'[t].skip_next
  BY DEF Attempt, Tried
<1>7. QueueInv'
  <2>1. ASSUME NEW j \in 1 .. Len(queue'), NEW l \in 1 .. Len(queue'), j < l
        PROVE  queue'[j] < queue'[l]
    <3>1. j + k < l + k
      BY <1>2, <2>1
    <3>2. queue[j + k] < queue[l + k]
      BY <1>3, <3>1 DEF OrderInv, QueueInv
    <3> QED
      BY <1>3, <3>2
  <2>2. ASSUME NEW j \in 1 .. Len(queue')
        PROVE  tasks'[queue'[j]].tried = <<>>
    <3>1. queue'[j] \in Tasks /\ tasks[queue'[j]].tried = <<>>
      BY <1>3 DEF OrderInv, QueueInv, TypeInv
    <3>2. queue'[j] # t
      BY DEF IsNext, Tasks
    <3> QED
      BY <1>6, <3>1, <3>2
  <2>3. ASSUME NEW u \in Tasks, tasks'[u].tried # <<>> \/ u = cur',
               NEW j \in 1 .. Len(queue')
        PROVE  u < queue'[j]
    <3>1. CASE u = t
      BY <3>1 DEF IsNext
    <3>2. CASE u # t
      <4>1. u # 0 /\ u # cur'
        BY <3>2 DEF Attempt, Tasks
      <4>2. tasks[u].tried # <<>>
        BY <1>6, <2>3, <3>2, <4>1
      <4> QED
        BY <1>3, <4>2 DEF OrderInv, QueueInv
    <3> QED
      BY <3>1, <3>2
  <2> QED
    BY <1>1, <2>1, <2>2, <2>3 DEF QueueInv
<1>8. Len(tasks'[t].tried) = i + 1
      /\ tasks'[t].tried = [n \in 1 .. Len(tasks'[t].tried) |-> n - 1]
  <2>1. tasks[t].tried \in Seq(Int) /\ Len(tasks[t].tried) = i /\ i \in Nat
    <3>1. tasks[t] \in TaskType
      BY DEF OrderInv, TypeInv, Tasks
    <3> QED
      BY <1>4, <3>1 DEF TaskType, IsNext
  <2>2. tasks[t].tried = [n \in 1 .. i |-> n - 1]
    BY <2>1 DEF OrderInv, SolversInOrder
  <2> DEFINE s == tasks[t].tried
  <2> HIDE DEF s
  <2>3. /\ Append(s, i) \in Seq(Int) /\ Len(Append(s, i)) = i + 1
        /\ \A n \in 1 .. i : Append(s, i)[n] = s[n]
        /\ Append(s, i)[i + 1] = i
    BY <2>1, AppendProperties DEF s
  <2>4. ASSUME NEW n \in 1 .. i + 1
        PROVE  Append(s, i)[n] = n - 1
    <3>1. CASE n = i + 1
      BY <2>1, <2>3, <3>1
    <3>2. CASE n \in 1 .. i
      BY <2>2, <2>3, <3>2 DEF s
    <3>3. i \in Nat
      BY <2>1
    <3>4. n = i + 1 \/ n \in 1 .. i
      BY <3>3
    <3> QED
      BY <3>1, <3>2, <3>4
  <2>5. Append(s, i) = [n \in 1 .. i + 1 |-> n - 1]
    <3>1. Append(s, i) \in [1 .. i + 1 -> Int]
      <4>1. Append(s, i) \in Seq(Int) /\ Len(Append(s, i)) = i + 1
        BY <2>3
      <4>2. Append(s, i) \in [1 .. Len(Append(s, i)) -> Int]
        BY <4>1, LenProperties
      <4> QED
        BY <4>1, <4>2
    <3> QED
      BY <2>4, <3>1
  <2> QED
    BY <1>6, <2>3, <2>5 DEF s
<1>9. CurInv'
  <2>1. ASSUME cur' # 0
        PROVE  cur' = t /\ \A u \in Tasks : tasks'[u].tried # <<>> => u <= cur'
    <3>1. cur' = t
      BY <2>1 DEF Attempt
    <3>2. \A u \in Tasks : u # t /\ tasks'[u].tried # <<>> => u <= t
      BY <1>6 DEF IsNext
    <3>3. t <= t
      BY DEF Tasks
    <3> QED
      BY <3>1, <3>2, <3>3
  <2>2. ASSUME cur' # 0, Staged'
        PROVE  index' = i /\ state' = "IN_VALIDATION"
    BY <2>2 DEF Attempt, Staged, Rets
  <2> QED
    BY <1>1, <1>8, <2>1, <2>2 DEF CurInv
<1>10. TaskInv'
  BY <1>1, <1>6 DEF OrderInv, TaskInv
<1>11. SolversInOrder'
  BY <1>1, <1>6, <1>8 DEF OrderInv, SolversInOrder
<1> QED
  BY <1>5, <1>7, <1>9, <1>10, <1>11 DEF OrderInv

LEMMA AttemptProgress ==
    ASSUME OrderInv, ProgressInv, ~cut, left > 0, NEW t \in Tasks, NEW i \in 0 .. N - 1,
           NEW k \in {0, 1}, NEW st, NEW ans, ans.ret \in Rets,
           Attempt(t, i, k, st, ans), IsNext(t, i),
           \A u \in Tasks : u # t => Done(u) \/ \E j \in 1 .. Len(queue') : queue'[j] = u,
           tasks[t].seed = seed,
           left - 1 >= Len(queue') * N + (N - (i + 1))
    PROVE  ProgressInv'
<1>0. SUFFICES ASSUME ~cut'
               PROVE  ProgressInv'
  BY DEF ProgressInv
<1>1. Tasks' = Tasks /\ ans.ret # "ERROR"
  BY <1>0 DEF Tasks, Attempt, Tried
<1>2. Staged' /\ phase' \notin {"idle", "other"}
  BY <1>1 DEF Attempt, Staged, Rets
<1>3. /\ \A u \in Tasks : u # t => tasks'[u] = tasks[u]
      /\ tasks'[t].seed = tasks[t].seed
      /\ ans.ret = "UNSAT" => tasks'[t].unsat
      /\ tasks[t].onSeed => tasks'[t].onSeed
  BY DEF Attempt, Tried
<1>4. ASSUME NEW u \in Tasks
      PROVE  Done(u)' \/ (\E j \in 1 .. Len(queue') : queue'[j] = u) \/ u = cur'
  <2>1. CASE u = t
    <3>1. CASE ans.ret = "UNSAT"
      BY <1>3, <2>1, <3>1 DEF Done
    <3>2. CASE ans.ret # "UNSAT"
      BY <2>1, <3>2 DEF Attempt
    <3> QED
      BY <3>1, <3>2
  <2>2. CASE u # t
    <3>1. Done(u)' = Done(u)
      BY <1>3, <2>2 DEF Done
    <3> QED
      BY <2>2, <3>1
  <2> QED
    BY <2>1, <2>2
<1>5. ASSUME NEW j \in 1 .. Len(queue')
      PROVE  tasks'[queue'[j]].seed = seed'
  <2>0. Len(queue) \in Nat /\ Len(queue') \in Nat /\ Len(queue') = Len(queue) - k
    BY DEF OrderInv, TypeInv, Attempt
  <2>1. j + k \in 1 .. Len(queue)
    BY <2>0
  <2>2. queue'[j] = queue[j + k] /\ queue[j + k] \in Tasks /\ tasks[queue[j + k]].seed = seed
    BY <2>1 DEF Attempt, OrderInv, TypeInv, ProgressInv
  <2>3. queue'[j] # t
    BY DEF IsNext, Tasks
  <2> QED
    BY <1>3, <2>2, <2>3 DEF Attempt
<1>6. left' >= Len(queue') * N + Rest'
  <2>1. index' = i /\ left' = left - 1
    BY DEF Attempt
  <2>2. Rest' <= N - (i + 1) /\ Rest' \in Int /\ N - (i + 1) \in Int
    BY <2>1, SolversType DEF Rest
  <2>3. Len(queue') \in Nat /\ N \in Nat /\ left \in Nat
    BY SolversType DEF Attempt, OrderInv, TypeInv
  <2>4. Len(queue') * N \in Int
    BY <2>3
  <2> QED
    BY <2>1, <2>2, <2>3, <2>4
<1>7. cur' # 0 => tasks'[cur'].seed = seed'
  BY <1>3 DEF Attempt
<1>8. \A u \in Tasks : tasks'[u].onSeed
  BY <1>3 DEF ProgressInv
<1> QED
  BY <1>1, <1>2, <1>4, <1>5, <1>6, <1>7, <1>8 DEF ProgressInv
LEMMA FuzzInv ==
    ASSUME Inv, NEW r \in Rets, NEW skip \in BOOLEAN, NEW slv \in BOOLEAN,
           Fuzz(Answer(r, skip, slv))
    PROVE  Inv'
<1> DEFINE ans == Answer(r, skip, slv)
           go == Starts
           t == go.cur
<1>1. /\ phase = "stage" /\ left > 0 /\ t # 0
      /\ ans \in Answers(Solvers[go.index + 1], tasks[t])
      /\ left' = left - 1 /\ queue' = go.queue /\ index' = go.index
      /\ cur' = IF ans.ret = "UNSAT" THEN 0 ELSE t
      /\ state' = IF ans.ret \in {"SAT", "TIMEOUT"} THEN "IN_VALIDATION" ELSE go.state
      /\ tasks' = [tasks EXCEPT ![t] = Attempted(tasks[t], go.index, ans)]
      /\ phase' = CASE ans.ret = "SAT" -> "run" [] ans.ret = "ERROR" -> "other"
                    [] OTHER -> "stage"
      /\ cut' = (cut \/ ans.ret = "ERROR")
      /\ seed' = seed
  BY DEF Fuzz
<1>2. ans.ret = r /\ ans.ret \in Rets
  BY DEF Answer
<1>3. Staged /\ OrderInv /\ ProgressInv /\ left \in Nat /\ N \in Nat /\ N > 0
      /\ queue \in Seq(Nat) /\ Len(queue) \in Nat
  BY <1>1, SolversType DEF Staged, Inv, OrderInv, TypeInv
\* What is left to show, in each case of Starts.
<1>4. ASSUME NEW i \in 0 .. N - 1, NEW k \in {0, 1}, NEW st \in {"INVALID", "IN_VALIDATION"},
             t \in Tasks, go.index = i, go.state = st,
             Len(queue') = Len(queue) - k, queue' \in Seq(Nat),
             \A j \in 1 .. Len(queue') : queue'[j] = queue[j + k],
             IsNext(t, i),
             ~cut => /\ \A u \in Tasks : u # t => \/ Done(u)
                                                  \/ \E j \in 1 .. Len(queue') : queue'[j] = u
                     /\ tasks[t].seed = seed
                     /\ left - 1 >= Len(queue') * N + (N - (i + 1))
      PROVE  Inv'
  <2>1. Tried(t, i, ans)
    BY <1>1, <1>3, <1>4, AttemptTasks
  <2> HIDE DEF go, t, ans
  <2>2. Attempt(t, i, k, st, ans)
    BY <1>1, <1>4, <2>1 DEF Attempt
  <2>3. OrderInv'
    BY <1>1, <1>2, <1>3, <1>4, <2>2, AttemptOrder
  <2>4. ASSUME cut
        PROVE  ProgressInv'
    BY <1>1, <2>4 DEF ProgressInv
  <2>5. ASSUME ~cut
        PROVE  ProgressInv'
    BY <1>1, <1>2, <1>3, <1>4, <2>2, <2>5, AttemptProgress
  <2> QED
    BY <2>3, <2>4, <2>5 DEF Inv
<1>5. ASSUME Leaving, queue # <<>>, NEW st \in {"INVALID", "IN_VALIDATION"},
             Starts = At(Tail(queue), Head(queue), 0, st)
      PROVE  Inv'
  <2>1. go.index = 0 /\ go.state = st /\ t = Head(queue) /\ go.queue = Tail(queue)
    BY <1>5 DEF At
  <2>2. /\ Head(queue) = queue[1] /\ Len(queue) # 0
        /\ Tail(queue) \in Seq(Nat) /\ Len(Tail(queue)) = Len(queue) - 1
        /\ \A j \in 1 .. Len(Tail(queue)) : Tail(queue)[j] = queue[j + 1]
    <3>1. Len(queue) # 0 /\ Head(queue) = queue[1]
      BY <1>3, <1>5
    <3> QED
      BY <1>3, <1>5, <3>1, HeadTailProperties
  <2>3. queue' = Tail(queue)
    BY <1>1, <2>1
  <2> HIDE DEF go, t
  <2>4. 1 \in 1 .. Len(queue) /\ Len(queue) - 1 \in Nat
    BY <1>3, <2>2
  <2>5. t = queue[1] /\ t \in Tasks /\ tasks[t].tried = <<>>
    BY <1>3, <2>1, <2>2, <2>4 DEF OrderInv, TypeInv, QueueInv
  <2>6. Len(queue') = Len(queue) - 1
    BY <2>2, <2>3
  <2>7. IsNext(t, 0)
    <3>1. ASSUME NEW j \in 1 .. Len(queue')
          PROVE  t < queue'[j]
      <4>1. j + 1 \in 1 .. Len(queue) /\ 1 < j + 1
        BY <1>3, <2>6
      <4>2. queue[1] < queue[j + 1]
        BY <1>3, <2>4, <4>1 DEF OrderInv, QueueInv
      <4> QED
        BY <2>2, <2>3, <2>5, <4>2
    <3>2. ASSUME NEW u \in Tasks, tasks[u].tried # <<>>
          PROVE  u <= t
      <4>1. u < queue[1]
        BY <1>3, <2>4, <3>2 DEF OrderInv, QueueInv
      <4> QED
        BY <2>5, <4>1 DEF Tasks
    <3>3. Len(tasks[t].tried) = 0
      BY <2>5
    <3> QED
      BY <3>1, <3>2, <3>3 DEF IsNext
  <2>8. ASSUME ~cut, NEW u \in Tasks, u # t
        PROVE  Done(u) \/ \E j \in 1 .. Len(queue') : queue'[j] = u
    <3>1. CASE \E j \in 1 .. Len(queue) : queue[j] = u
      <4>1. PICK j \in 1 .. Len(queue) : queue[j] = u
        BY <3>1
      <4>2. j # 1
        BY <2>5, <2>8, <4>1
      <4>3. j - 1 \in 1 .. Len(queue') /\ (j - 1) + 1 = j
        BY <1>3, <2>6, <4>2
      <4>4. queue'[j - 1] = queue[(j - 1) + 1]
        BY <2>2, <2>3, <4>3, Zenon
      <4> QED
        BY <4>1, <4>3, <4>4, Zenon
    <3>2. CASE u = cur
      <4>1. cur # 0
        BY <3>2 DEF Tasks
      <4> QED
        BY <1>3, <1>5, <3>2, <4>1, LeftDone
    <3> QED
      BY <1>3, <2>8, <3>1, <3>2 DEF ProgressInv
  <2>9. ~cut => tasks[t].seed = seed
    BY <1>3, <2>4, <2>5 DEF ProgressInv
  <2>10. ASSUME ~cut
         PROVE  left - 1 >= Len(queue') * N + (N - (0 + 1))
    <3>1. left >= Len(queue) * N + Rest
      BY <1>3, <2>10 DEF ProgressInv
    <3>2. Rest \in Nat
      BY <1>3 DEF Rest, OrderInv, CurInv, TypeInv
    <3>3. \A L, M \in Nat : L # 0 => (L - 1) * M = L * M - M /\ L * M \in Nat
      OBVIOUS
    <3>4. Len(queue') * N = Len(queue) * N - N /\ Len(queue) * N \in Nat
      BY <1>3, <2>2, <2>6, <3>3
    <3> QED
      BY <1>3, <3>1, <3>2, <3>4
  <2>11. 0 \in 0 .. N - 1
    BY <1>3
  <2>12. /\ \A j \in 1 .. Len(queue') : queue'[j] = queue[j + 1]
         /\ queue' \in Seq(Nat)
    BY <2>2, <2>3
  <2> QED
    BY <1>4, <1>5, <2>1, <2>5, <2>6, <2>7, <2>8, <2>9, <2>10, <2>11, <2>12
<1>6. ASSUME ~Leaving, cur # 0, state = "IN_VALIDATION", index + 1 < N,
             Starts = At(queue, cur, index + 1, "IN_VALIDATION")
      PROVE  Inv'
  <2>1. /\ go.index = index + 1 /\ go.state = "IN_VALIDATION" /\ t = cur /\ go.queue = queue
    BY <1>6 DEF At
  <2>2. queue' = queue
    BY <1>1, <2>1
  <2> HIDE DEF go, t
  <2>3. t \in Tasks /\ index \in 0 .. N - 1 /\ Len(tasks[t].tried) = index + 1
    BY <1>3, <1>6, <2>1 DEF OrderInv, TypeInv, CurInv
  <2>4. index + 1 \in 0 .. N - 1
    BY <1>3, <1>6, <2>3
  <2>5. IsNext(t, index + 1)
    BY <1>3, <1>6, <2>1, <2>2, <2>3 DEF IsNext, OrderInv, QueueInv, CurInv
  <2>6. \A u \in Tasks : ~cut /\ u # t => Done(u) \/ \E j \in 1 .. Len(queue') : queue'[j] = u
    BY <1>3, <2>1, <2>2 DEF ProgressInv
  <2>7. ~cut => tasks[t].seed = seed
    BY <1>3, <1>6, <2>1 DEF ProgressInv
  <2>8. ASSUME ~cut
        PROVE  left - 1 >= Len(queue') * N + (N - ((index + 1) + 1))
    <3>1. left >= Len(queue) * N + Rest
      BY <1>3, <2>8 DEF ProgressInv
    <3>2. Rest = N - (index + 1)
      BY <1>6 DEF Rest
    <3>3. Len(queue) * N \in Int
      BY <1>3
    <3> QED
      BY <1>3, <2>2, <2>3, <3>1, <3>2, <3>3
  <2>9. /\ Len(queue') = Len(queue) - 0 /\ queue' \in Seq(Nat)
        /\ \A j \in 1 .. Len(queue') : queue'[j] = queue[j + 0]
    BY <1>3, <2>2
  <2> QED
    BY <1>4, <2>1, <2>3, <2>4, <2>5, <2>6, <2>7, <2>8, <2>9
<1>7. ~\E i \in Int : Starts = At(<<>>, 0, i, "INVALID")
  BY <1>1 DEF At
<1> QED
  BY <1>3, <1>5, <1>6, <1>7, StartsCases

-----------------------------------------------------------------------------
(* The other steps, and the theorems. *)

LEMMA StageEndsInv ==
    ASSUME Inv, StageEnds
    PROVE  Inv'
<1>1. /\ phase = "stage" /\ phase' = "other" /\ cut' = (cut \/ left > 0)
      /\ UNCHANGED <<tasks, queue, cur, index, state, seed, left>>
  BY DEF StageEnds, mutator
<1>2. Staged /\ ~Staged' /\ OrderInv /\ Marked
  BY <1>1, SameMarked DEF Staged, Inv
<1>3. OrderInv'
  BY <1>1, <1>2, MarkedOrder DEF OrderInv, TypeInv
<1>4. ASSUME ~cut'
      PROVE  ProgressInv'
  <2>0. ~cut /\ ~(left > 0) /\ left \in Nat
    BY <1>1, <1>2, <1>4, Zenon DEF OrderInv, TypeInv
  <2>1. ~cut /\ left = 0
    BY <2>0
  <2>2. 0 >= Len(queue) * N + Rest
    BY <1>2, <2>1 DEF Inv, ProgressInv
  <2>3. Len(queue) \in Nat /\ N \in Nat /\ N > 0 /\ Rest \in Nat
    BY <1>2, SolversType DEF OrderInv, TypeInv, CurInv, Rest
  <2>4. Len(queue) = 0 /\ Rest = 0
    <3>1. \A L, M \in Nat : M > 0 /\ L # 0 => L * M > 0
      OBVIOUS
    <3>2. \A L, M \in Nat : L * M \in Nat
      OBVIOUS
    <3>3. Len(queue) * N \in Nat /\ (Len(queue) # 0 => Len(queue) * N > 0)
      BY <2>3, <3>1, <3>2
    <3> QED
      BY <2>2, <2>3, <3>3
  <2>5. queue = <<>> /\ 1 .. Len(queue) = {}
    BY <1>2, <2>4 DEF OrderInv, TypeInv
  <2>6. Leaving
    BY <1>2, <2>3, <2>4 DEF Rest, Leaving, OrderInv, TypeInv
  <2>7. ASSUME NEW u \in Tasks
        PROVE  Done(u)
    <3>1. u # 0
      BY DEF Tasks
    <3>2. Done(u) \/ u = cur
      BY <2>1, <2>5 DEF Inv, ProgressInv
    <3> QED
      BY <1>2, <2>6, <3>1, <3>2, LeftDone
  <2>8. Tasks' = Tasks /\ \A u \in Tasks : Done(u)' = Done(u)
    BY <1>1 DEF Tasks, Done
  <2>9. \A u \in Tasks' : tasks'[u].onSeed
    BY <1>1, <2>1, <2>8 DEF Inv, ProgressInv
  <2> QED
    BY <1>1, <1>2, <2>5, <2>7, <2>8, <2>9 DEF ProgressInv
<1>5. ProgressInv'
  BY <1>4 DEF ProgressInv
<1> QED
  BY <1>3, <1>5 DEF Inv

LEMMA StepInv == Inv /\ [Next]_vars => Inv'
<1> SUFFICES ASSUME Inv, [Next]_vars
             PROVE  Inv'
  OBVIOUS
<1>0. OrderInv /\ ProgressInv /\ TypeInv
  BY DEF Inv, OrderInv
<1>1. CASE Runs
  <2>1. /\ phase = "run" /\ phase' = "stage" /\ Staged /\ Staged'
        /\ NewEntry \/ UNCHANGED <<state, tasks>>
        /\ UNCHANGED <<queue, cur, index, seed, left, cut>>
    BY <1>1 DEF Runs, Staged
  <2>2. /\ Marked
        /\ state' \in {"INVALID", "IN_VALIDATION", "VALIDATED"}
        /\ cur # 0 => /\ state' \in {"IN_VALIDATION", "VALIDATED"}
                      /\ state' = "VALIDATED" => tasks'[cur].hit
    <3>1. CASE NewEntry
      BY <1>0, <2>1, <3>1, NewEntryMarks
    <3>2. CASE UNCHANGED <<state, tasks>>
      BY <1>0, <2>1, <3>2, SameMarked DEF OrderInv, TypeInv, CurInv
    <3> QED
      BY <2>1, <3>1, <3>2
  <2>3. state' = state \/ state' = "VALIDATED"
    BY <2>1 DEF NewEntry
  <2>4. OrderInv'
    BY <1>0, <2>1, <2>2, MarkedOrder DEF TypeInv
  <2>5. ProgressInv'
    BY <1>0, <2>1, <2>2, <2>3, MarkedProgress
  <2> QED
    BY <2>4, <2>5 DEF Inv
<1>2. CASE OtherEntry
  <2>1. /\ phase = "other" /\ phase' = "other" /\ ~Staged /\ ~Staged' /\ NewEntry
        /\ UNCHANGED <<queue, cur, index, seed, left, cut>>
    BY <1>2 DEF OtherEntry, Staged, afl
  <2>2. Marked /\ state' \in {"INVALID", "IN_VALIDATION", "VALIDATED"}
    BY <1>0, <2>1, NewEntryMarks
  <2>3. state' = state \/ state' = "VALIDATED"
    BY <2>1 DEF NewEntry
  <2>4. OrderInv'
    BY <1>0, <2>1, <2>2, MarkedOrder DEF TypeInv
  <2>5. Staged' = Staged /\ (phase' \in {"idle", "other"} => phase \in {"idle", "other"})
    BY <2>1, Zenon DEF Staged
  <2>6. ProgressInv'
    BY <1>0, <2>1, <2>2, <2>3, <2>5, MarkedProgress
  <2> QED
    BY <2>4, <2>6 DEF Inv
<1>3. CASE Leaves \/ UNCHANGED vars
  <2>1. UNCHANGED <<tasks, state, queue, cur, index, seed, left, cut>>
    BY <1>3 DEF Leaves, vars, mutator
  <2>2. /\ phase' \in {"idle", "trace", "stage", "run", "other"}
        /\ phase' = phase \/ (phase = "other" /\ phase' = "idle")
    BY <1>0, <1>3 DEF Leaves, vars, TypeInv
  <2>3. Staged' = Staged /\ (phase' \in {"idle", "other"} => phase \in {"idle", "other"})
    <3>1. CASE phase' = phase
      BY <3>1, Zenon DEF Staged
    <3>2. CASE phase = "other" /\ phase' = "idle"
      <4>1. (phase \in {"stage", "run"}) = FALSE /\ (phase' \in {"stage", "run"}) = FALSE
        BY <3>2
      <4> QED
        BY <3>2, <4>1, Zenon DEF Staged
    <3> QED
      BY <2>2, <3>1, <3>2
  <2>4. Marked
    BY <1>0, <2>1, SameMarked
  <2>5. /\ state' \in {"INVALID", "IN_VALIDATION", "VALIDATED"}
        /\ cur # 0 /\ Staged' => /\ state' \in {"IN_VALIDATION", "VALIDATED"}
                                 /\ state' = "VALIDATED" => tasks'[cur].hit
    BY <1>0, <2>1, <2>3 DEF OrderInv, TypeInv, CurInv
  <2>6. seed' \in Seeds \cup {NoSeed} /\ left' \in Nat /\ cut' \in BOOLEAN
    BY <1>0, <2>1, Zenon DEF TypeInv
  <2>7. OrderInv'
    <3>1. Staged' => Staged
      BY <2>3, Zenon
    <3>2. UNCHANGED <<queue, cur, index>>
      BY <2>1
    <3> QED
      BY <1>0, <2>2, <2>4, <2>5, <2>6, <3>1, <3>2, MarkedOrder, Zenon
  <2>8. ProgressInv'
    BY <1>0, <2>1, <2>3, <2>4, MarkedProgress
  <2> QED
    BY <2>7, <2>8 DEF Inv
<1> QED
  BY <1>1, <1>2, <1>3, PickInv, HandleCondInv, TraceEndsInv, FuzzNothingInv, FuzzInv,
     StageEndsInv DEF Next

\* Every task meets the solvers one after another, from the first, none of them twice
\* and none left out (cur_solver_index in afl_custom_fuzz).
THEOREM SolversTakeTurns == Spec => []SolversInOrder
<1>1. Inv => SolversInOrder
  BY DEF Inv, OrderInv
<1> QED
  BY <1>1, InitInv, StepInv, PTL DEF Spec

\* A nested task is tried only when the task it extends is done with.
THEOREM BasesComeFirst == Spec => []BaseFirst
<1>1. ASSUME Inv
      PROVE  BaseFirst
  <2> SUFFICES ASSUME NEW t \in Tasks, tasks[t].tried # <<>>, tasks[t].base # 0
               PROVE  tasks[t].base \notin Range(queue) /\ tasks[t].base # cur
    BY DEF BaseFirst
  <2>0. tasks[t] \in TaskType
    BY <1>1 DEF Inv, OrderInv, TypeInv, Tasks
  <2>1. tasks[t].base < t /\ tasks[t].base \in Nat
    BY <1>1, <2>0 DEF Inv, OrderInv, TaskInv, TaskType
  <2>2. \A i \in 1 .. Len(queue) : t < queue[i] /\ queue[i] \in Nat
    BY <1>1 DEF Inv, OrderInv, QueueInv, TypeInv
  <2>3. cur # 0 => t <= cur
    BY <1>1 DEF Inv, OrderInv, CurInv
  <2>4. Range(queue) = {queue[i] : i \in 1 .. Len(queue)}
    BY <1>1 DEF Range, Inv, OrderInv, TypeInv
  <2>5. tasks[t].base \notin Range(queue)
    BY <2>1, <2>2, <2>4 DEF Tasks
  <2>6. tasks[t].base # cur
    BY <1>1, <2>1, <2>3 DEF Tasks, Inv, OrderInv, TypeInv
  <2> QED
    BY <2>5, <2>6
<1> QED
  BY <1>1, InitInv, StepInv, PTL DEF Spec

\* The number of mutations that fuzz_count announces is enough: when AFL++ asks for all of
\* them, every task is solved, found unsatisfiable or tried by every solver.
THEOREM EnoughMutations == Spec => []CountEnough
<1>1. Inv => CountEnough
  <2> SUFFICES ASSUME Inv, phase = "other", ~cut, NEW t \in Tasks
               PROVE  Done(t)
    BY DEF CountEnough, Done, N
  <2>1. queue = <<>> /\ ~Staged
    BY DEF Inv, ProgressInv, Staged
  <2>2. 1 .. Len(queue) = {}
    BY <2>1
  <2> QED
    BY <2>1, <2>2 DEF Inv, ProgressInv
<1> QED
  BY <1>1, InitInv, StepInv, PTL DEF Spec

\* As long as AFL++ leaves no seed early, a task is tried on the buffer of its own seed.
THEOREM SeedsMatch == Spec => []OnItsSeed
<1>1. Inv => OnItsSeed
  BY DEF Inv, ProgressInv, OnItsSeed
<1> QED
  BY <1>1, InitInv, StepInv, PTL DEF Spec

-----------------------------------------------------------------------------
(* A nested task whose base was flipped. *)

\* A call that has a task has one of the solvers for it.
LEMMA StartsInside ==
    ASSUME OrderInv, Staged, Starts.cur # 0
    PROVE  Starts.cur \in Tasks /\ Starts.index \in 0 .. N - 1
<1>1. CASE /\ Leaving /\ queue = <<>> /\ \E i \in Int : Starts = At(<<>>, 0, i, "INVALID")
  BY <1>1 DEF At
<1>2. CASE /\ Leaving /\ queue # <<>>
           /\ \E st \in {"INVALID", "IN_VALIDATION"} :
                 Starts = At(Tail(queue), Head(queue), 0, st)
  <2>1. Starts.cur = Head(queue) /\ Starts.index = 0
    BY <1>2 DEF At
  <2>2. queue \in Seq(Nat) /\ Len(queue) \in Nat
    BY DEF OrderInv, TypeInv
  <2>3. Len(queue) # 0 /\ Head(queue) = queue[1]
    BY <1>2, <2>2
  <2>4. 1 \in 1 .. Len(queue)
    BY <2>2, <2>3
  <2>5. queue[1] \in Tasks
    BY <2>4 DEF OrderInv, TypeInv
  <2> QED
    BY <2>1, <2>3, <2>5, SolversType
<1>3. CASE /\ ~Leaving
           /\ cur # 0 /\ state = "IN_VALIDATION" /\ index + 1 < N
           /\ Starts = At(queue, cur, index + 1, "IN_VALIDATION")
  <2>1. Starts.cur = cur /\ Starts.index = index + 1
    BY <1>3 DEF At
  <2>2. cur \in Tasks /\ index \in 0 .. N - 1
    BY <1>3 DEF OrderInv, TypeInv, CurInv
  <2> QED
    BY <1>3, <2>1, <2>2, SolversType
<1> QED
  BY <1>1, <1>2, <1>3, StartsCases, Zenon

\* A solver that finds the base marked leaves the task as it is; the one that does not
\* look never records a solution.
LEMMA SkippedKept ==
    ASSUME NEW s \in {"I2S", "JIT", "Z3"}, NEW t, NEW ans \in Answers(s, t), Base(t).skip_next
    PROVE  ans.solved = t.solved
<1>1. ans \in I2SAnswers(t) \/ ans \in Skipped(t)
  BY DEF Answers, JITAnswers, Z3Answers
<1> QED
  BY <1>1 DEF I2SAnswers, Skipped, Answer

\* A nested task whose base was flipped by its mutation (hit) is not searched again: no
\* step makes a solution of its own for it.  The base is marked skip_next by
\* afl_custom_queue_new_entry, nothing takes the mark back, and the solvers look at it.
THEOREM FlippedNotSearched == Spec => NestedSkipped
<1>1. ASSUME Inv, [Next]_vars, NEW t \in Tasks, tasks[t].base # 0, tasks[tasks[t].base].hit
      PROVE  tasks'[t].solved = tasks[t].solved
  <2>0. OrderInv
    BY <1>1 DEF Inv
  <2>1. Base(tasks[t]).skip_next
    <3>1. tasks[t] \in TaskType
      BY <2>0 DEF OrderInv, TypeInv, Tasks
    <3>2. tasks[t].base \in Nat /\ tasks[t].base < t
      BY <2>0, <3>1 DEF OrderInv, TaskInv, TaskType
    <3>3. tasks[t].base \in Tasks
      BY <1>1, <2>0, <3>2 DEF Tasks, OrderInv, TypeInv
    <3> QED
      BY <1>1, <2>0, <3>3 DEF OrderInv, TaskInv, Base
  <2>3. ASSUME NEW b \in Branches, NEW d \in BOOLEAN, NEW n \in 0 .. 2, HandleCond(b, d, n)
        PROVE  tasks'[t].solved = tasks[t].solved
    <3>1. tasks'[t] = tasks[t]
      BY <2>0, <2>3, HandleCondTasks
    <3> QED
      BY <3>1
  <2>4. ASSUME NEW r \in Rets, NEW skip \in BOOLEAN, NEW slv \in BOOLEAN,
               Fuzz(Answer(r, skip, slv))
        PROVE  tasks'[t].solved = tasks[t].solved
    <3> DEFINE u == Starts.cur
               i == Starts.index
    <3>1. /\ Staged /\ u # 0
          /\ Answer(r, skip, slv) \in Answers(Solvers[i + 1], tasks[u])
          /\ tasks' = [tasks EXCEPT ![u] = Attempted(tasks[u], i, Answer(r, skip, slv))]
      BY <2>4 DEF Fuzz, Staged
    <3>2. u \in Tasks /\ i \in 0 .. N - 1
      BY <2>0, <3>1, StartsInside
    <3> HIDE DEF u, i
    <3>3. Tried(u, i, Answer(r, skip, slv))
      BY <2>0, <3>1, <3>2, AttemptTasks
    <3>4. CASE u # t
      BY <3>3, <3>4 DEF Tried
    <3>5. CASE u = t
      <4>1. i + 1 \in 1 .. N
        BY <3>2, SolversType
      <4>2. Solvers[i + 1] \in {"I2S", "JIT", "Z3"}
        BY <4>1, SolversType
      <4>3. Answer(r, skip, slv).solved = tasks[t].solved
        BY <2>1, <3>1, <3>5, <4>2, SkippedKept
      <4> QED
        BY <3>3, <3>5, <4>3 DEF Tried
    <3> QED
      BY <3>4, <3>5
  <2>5. CASE Runs \/ OtherEntry
    <3>1. (NewEntry \/ tasks' = tasks) /\ cur' = cur
      BY <2>5 DEF Runs, OtherEntry
    <3>2. Marked
      BY <2>0, <3>1, NewEntryMarks, SameMarked
    <3> QED
      BY <3>2 DEF Marked
  <2>6. CASE (\E s \in Seeds : Pick(s)) \/ TraceEnds \/ FuzzNothing \/ StageEnds \/ Leaves
             \/ UNCHANGED vars
    <3>1. tasks' = tasks
      BY <2>6 DEF Pick, TraceEnds, FuzzNothing, StageEnds, Leaves, mutator, vars
    <3> QED
      BY <3>1
  <2> QED
    BY <1>1, <2>3, <2>4, <2>5, <2>6 DEF Next
<1>2. Inv /\ [Next]_vars =>
        [\A t \in Tasks : /\ tasks[t].base # 0
                          /\ tasks[tasks[t].base].hit
                          => tasks'[t].solved = tasks[t].solved]_vars
  BY <1>1
<1> QED
  BY <1>2, InitInv, StepInv, PTL DEF Spec, NestedSkipped
=============================================================================
