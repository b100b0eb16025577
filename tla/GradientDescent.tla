--------------------------- MODULE GradientDescent --------------------------
(***************************************************************************)
(* The local search of the JIT solver (jigsaw): a task is a conjunction of *)
(* comparisons over input bytes, and the search looks for bytes that make  *)
(* the sum of their distances zero.                                        *)
(*                                                                         *)
(* Input bytes are widened to machine words (WordBits) and may overflow    *)
(* the byte during the search; a read of several bytes adds them, shifted. *)
(* The left operand of a comparison is a sum of multiples of reads, the    *)
(* right one a constant.  The random start points are nondeterministic.    *)
(***************************************************************************)
EXTENDS Integers, Sequences, FiniteSets, FiniteSetsExt, SequencesExt, Functions

CONSTANTS
    ByteBits,                       \* bits in a byte: 8
    WordBits,                       \* bits in a word: 64
    MAX_EXEC_TIMES,                 \* evaluations of a task
    MAX_NUM_MINIMAL_OPTIMA_ROUND,   \* random start points
    Tasks,                          \* sequences of constraints, see Relational
    StartBytes                      \* bound: the bytes of seeds and random points

\* A comparison of op1 with a constant.  A term <<k, at, len>> is k times the len
\* bytes of input at offset at; op1 has bits bits.
Relational(comp, terms, bits, op2) ==
    [comp |-> comp, terms |-> terms, bits |-> bits, op2 |-> op2]

\* memcmp of the input at offset at with a constant, a sequence of bytes.
MemcmpOf(comp, at, content) == [comp |-> comp, at |-> at, content |-> content]

MemcmpKinds == {"Memcmp", "MemcmpN"}
SignedKinds == {"Slt", "Sle", "Sgt", "Sge"}
RelationalKinds == {"Equal", "Distinct", "Ult", "Ule", "Ugt", "Uge"} \cup SignedKinds

\* The constant has the width of op1, which is at most a word.
IsRelational(c) ==
    /\ c.comp \in RelationalKinds
    /\ c = Relational(c.comp, c.terms, c.bits, c.op2)
    /\ c.terms \in Seq(Nat \X Nat \X (Nat \ {0})) /\ c.terms # <<>>
    /\ c.bits \in 1 .. WordBits
    /\ c.op2 \in 0 .. 2^c.bits - 1

IsMemcmp(c) ==
    /\ c.comp \in MemcmpKinds
    /\ c = MemcmpOf(c.comp, c.at, c.content)
    /\ c.at \in Nat
    /\ c.content \in Seq(0 .. 2^ByteBits - 1) /\ c.content # <<>>

\* SearchTask: one constraint or more.
IsTask(cs) ==
    /\ Len(cs) \in Nat \ {0}
    /\ cs = [i \in 1 .. Len(cs) |-> cs[i]]
    /\ \A i \in DOMAIN cs : IsRelational(cs[i]) \/ IsMemcmp(cs[i])

ASSUME SearchAssumption ==
    /\ ByteBits \in Nat \ {0}
    /\ WordBits \in Nat \ {0}
    /\ WordBits % ByteBits = 0
    /\ MAX_EXEC_TIMES \in Nat
    /\ StartBytes \subseteq 0 .. 2^ByteBits - 1
    /\ MAX_NUM_MINIMAL_OPTIMA_ROUND \in Nat
    /\ \A cs \in Tasks : IsTask(cs)

VARIABLES
    task,       \* the SearchTask after finalize
    seed,       \* the bytes of the run, by offset
    pc,
    input,      \* input in gd_entry, input_min elsewhere: the best point
    scratch,    \* scratch_input: the point that is tried
    f0,         \* distance of the best point: f0 in gd_entry, f_last in descend
    min_distances,
    distances,
    grad,       \* by index: the sign and the size of the gradient
    index,      \* index in cal_gradient, deltaIdx in descend
    rounds,     \* g_i
    step,
    doDelta,
    flags       \* attempts, stopped, solved and solution of the task

vars == <<task, seed, pc, input, scratch, f0, min_distances, distances, grad,
          index, rounds, step, doDelta, flags>>

MaxWord == 2^WordBits - 1
Wrap(v) == v % 2^WordBits
WordBytes == WordBits \div ByteBits

\* A word as a signed number of bits bits.
AsSigned(bits, v) == IF v < 2^(bits - 1) THEN v ELSE v - 2^bits

-----------------------------------------------------------------------------
(* SearchTask::finalize. *)

\* The reads of a constraint, and its offsets (local_map).
Reads(c) == IF c.comp \in MemcmpKinds THEN {<<c.at, Len(c.content)>>}
            ELSE {<<t[2], t[3]>> : t \in Range(c.terms)}

Offsets(c) == UNION {r[1] .. r[1] + r[2] - 1 : r \in Reads(c)}

\* The first constraint with an offset.
FirstWith(cs, o) == Min({i \in DOMAIN cs : o \in Offsets(cs[i])})

\* The shape of an offset, from the first constraint with it: the length of the
\* read that starts there, and 0 inside a read.
ShapeOf(cs, o) ==
    LET lens == {r[2] : r \in {q \in Reads(cs[FirstWith(cs, o)]) : q[1] = o}}
    IN  IF lens = {} THEN 0 ELSE Max(lens)

\* The reads that add_results puts together, from low to high offsets: a byte
\* without a shape that no read before it covers is left out.
Pieces(cs, all) ==
    LET upto[n \in 0 .. Max(all) + 1] ==
            IF n = 0 THEN [end |-> 0, reads |-> {}]
            ELSE LET before == upto[n - 1]
                     len == ShapeOf(cs, n - 1)
                 IN  IF n - 1 \notin all \/ n - 1 < before.end \/ len = 0 THEN before
                     ELSE [end |-> n - 1 + len, reads |-> before.reads \cup {<<n - 1, len>>}]
    IN  upto[Max(all) + 1].reads

\* The members of a finite set in the order R, a set of pairs.
InOrder(S, R) ==
    [k \in 1 .. Cardinality(S) |-> CHOOSE o \in S : Cardinality({p \in S : <<p, o>> \in R}) = k - 1]

Ascending(S) == InOrder(S, {p \in S \X S : p[1] < p[2]})

\* i2s_candidates: the maximal pieces of consecutive offsets, in order.
Candidates(c) ==
    LET starts == Ascending({o \in Offsets(c) : o - 1 \notin Offsets(c)})
        end(o) == Min({p \in o .. Max(Offsets(c)) : p + 1 \notin Offsets(c)})
    IN  [k \in DOMAIN starts |-> <<starts[k], end(starts[k]) - starts[k] + 1>>]

\* inputs: the offset of each index of the input array, constraint by constraint and
\* each in the order of offsets; cmap: the constraints on an offset, without memcmp.
finalize(cs) ==
    LET all == UNION {Offsets(cs[i]) : i \in DOMAIN cs}
        before == {p \in all \X all :
                     \/ FirstWith(cs, p[1]) < FirstWith(cs, p[2])
                     \/ FirstWith(cs, p[1]) = FirstWith(cs, p[2]) /\ p[1] < p[2]}
        relational(i) == cs[i].comp \notin MemcmpKinds
    IN  [constraints |-> cs,
         offsets |-> all,
         inputs |-> InOrder(all, before),
         cmap |-> [o \in all |-> {i \in DOMAIN cs : o \in Offsets(cs[i]) /\ relational(i)}],
         pieces |-> Pieces(cs, all),
         locals |-> [i \in DOMAIN cs |-> Ascending(Offsets(cs[i]))],
         i2s_candidates |-> [i \in DOMAIN cs |-> Candidates(cs[i])]]

FinalTasks == {finalize(cs) : cs \in Tasks}

constraints == task.constraints

\* The sum of f[1], ..., f[n].
SumTo(n, f) ==
    LET sum[i \in 0 .. n] == IF i = 0 THEN 0 ELSE sum[i - 1] + f[i]
    IN  sum[n]

-----------------------------------------------------------------------------
(* The compiled comparison and its distance. *)

\* A read of len bytes at an offset: words, shifted and added.
Read(v, at, len) ==
    SumTo(len, [j \in 1 .. len |-> v[at + j - 1] * 2^(ByteBits * (j - 1))]) % 2^(ByteBits * len)

\* The operands that the compiled function stores, zero-extended.
Op1(c, v) ==
    IF c.comp \in MemcmpKinds
    THEN LET n == Len(c.content)
         IN  IF Read(v, c.at, n) = Read([j \in 0 .. n - 1 |-> c.content[j + 1]], 0, n)
             THEN 1 ELSE 0
    ELSE SumTo(Len(c.terms), [i \in DOMAIN c.terms |->
                                c.terms[i][1] * Read(v, c.terms[i][2], c.terms[i][3])]) % 2^c.bits

sat_inc(a, b) == Min({a + b, MaxWord})

get_distance(comp, a, b) ==
    LET sa == AsSigned(WordBits, a)
        sb == AsSigned(WordBits, b)
    IN  CASE comp = "Equal"    -> IF a >= b THEN a - b ELSE b - a
          [] comp = "Distinct" -> IF a = b THEN 1 ELSE 0
          [] comp = "Ult"      -> IF a < b THEN 0 ELSE sat_inc(a - b, 1)
          [] comp = "Ule"      -> IF a <= b THEN 0 ELSE a - b
          [] comp = "Ugt"      -> IF a > b THEN 0 ELSE sat_inc(b - a, 1)
          [] comp = "Uge"      -> IF a >= b THEN 0 ELSE b - a
          [] comp = "Slt"      -> IF sa < sb THEN 0 ELSE sat_inc(Wrap(a - b), 1)
          [] comp = "Sle"      -> IF sa <= sb THEN 0 ELSE Wrap(a - b)
          [] comp = "Sgt"      -> IF sa > sb THEN 0 ELSE sat_inc(Wrap(b - a), 1)
          [] comp = "Sge"      -> IF sa >= sb THEN 0 ELSE Wrap(b - a)
          [] comp = "Memcmp"   -> 1 - a
          [] comp = "MemcmpN"  -> a

Op2(c) == IF c.comp \in MemcmpKinds THEN 0 ELSE c.op2

DistanceOf(c, v) == get_distance(c.comp, Op1(c, v), Op2(c))

\* The sum of distances, saturating.
Total(ds) == Min({SumTo(Len(ds), ds), MaxWord})

\* What distance() and single_distance() leave in a vector of distances.
AllDistances(v) == [i \in DOMAIN constraints |-> DistanceOf(constraints[i], v)]

SingleDistances(v, o, ds) ==
    [i \in DOMAIN constraints |-> IF i \in task.cmap[o] THEN DistanceOf(constraints[i], v) ELSE ds[i]]

\* What single_distance() returns.
SingleTotal(v, o) ==
    Total([i \in DOMAIN constraints |->
            IF i \in task.cmap[o] THEN DistanceOf(constraints[i], v) ELSE 0])

\* Mutant: every byte of the solution is cut off by itself.
add_resultsCut(v) == [o \in task.offsets |-> v[o] % 2^ByteBits]

\* The bytes of a point: what overflows one byte of a read is carried into the next.
add_results(v) ==
    LET bytes(r) == r[1] .. r[1] + r[2] - 1
        whole(o) == CHOOSE r \in task.pieces : o \in bytes(r)
    IN  [o \in UNION {bytes(r) : r \in task.pieces} |->
            IF whole(o)[2] <= WordBytes
            THEN (Read(v, whole(o)[1], whole(o)[2]) \div 2^(ByteBits * (o - whole(o)[1]))) % 2^ByteBits
            ELSE v[o] % 2^ByteBits]

\* All constraints have distance zero at a point.
Met(v) == \A i \in DOMAIN constraints : DistanceOf(constraints[i], v) = 0

\* Mutant: the evaluation is not counted.
EvaluatedUncounted(s, v) ==
    [attempts |-> s.attempts, stopped |-> s.stopped \/ Met(v), solved |-> s.solved \/ Met(v),
     solution |-> IF Met(v) THEN add_results(v) ELSE s.solution]

\* Mutant: the number of evaluations is not limited.
EvaluatedUnlimited(s, v) ==
    [attempts |-> s.attempts + 1, stopped |-> s.stopped \/ Met(v), solved |-> s.solved \/ Met(v),
     solution |-> IF Met(v) THEN add_results(v) ELSE s.solution]

\* distance(): what it does to the task.
Evaluated(s, v) ==
    LET n == s.attempts + 1
    IN  [attempts |-> n,
         stopped  |-> s.stopped \/ Met(v) \/ n > MAX_EXEC_TIMES,
         solved   |-> (s.solved \/ Met(v)) /\ n <= MAX_EXEC_TIMES,
         solution |-> IF Met(v) THEN add_results(v) ELSE s.solution]

\* Counting n evaluations outside distance().
Counted(s, n) ==
    [s EXCEPT !.attempts = @ + n, !.stopped = @ \/ s.attempts + n > MAX_EXEC_TIMES]

\* descend() has found a solution.
Solved(s, v) == [s EXCEPT !.stopped = TRUE, !.solved = TRUE, !.solution = add_results(v)]

-----------------------------------------------------------------------------
(* try_i2s: a constraint that is not satisfied and compares input bytes, taken
   as they are, with a value is satisfied by putting the value there. *)

get_i2s_value(comp, v, rhs) ==
    CASE comp \in {"Equal", "Ule", "Uge", "Sle", "Sge"} -> v
      [] comp \in {"Distinct", "Ugt", "Sgt"} -> Wrap(IF rhs THEN v - 1 ELSE v + 1)
      [] comp \in {"Ult", "Slt"}             -> Wrap(IF rhs THEN v + 1 ELSE v - 1)

\* Byte j of a word.
ByteAt(v, j) == (v \div 2^(ByteBits * j)) % 2^ByteBits

\* The low n bytes of a word in the reverse order.
Reversed(v, n) == SumTo(n, [j \in 1 .. n |-> ByteAt(v, n - j) * 2^(ByteBits * (j - 1))])

\* try_new_i2s_value: all bytes of the constraint, in order, are taken from value.
Fits(k, value) ==
    LET offs == task.locals[k]
        at == [o \in Range(offs) |-> ByteAt(value, (CHOOSE j \in DOMAIN offs : offs[j] = o) - 1)]
    IN  DistanceOf(constraints[k], at) = 0

\* A point with the bytes of value at the offsets of a candidate.
Put(v, cand, value) ==
    [o \in DOMAIN v |-> IF o \in cand[1] .. cand[1] + cand[2] - 1
                        THEN ByteAt(value, o - cand[1]) ELSE v[o]]

\* The bytes of the candidates up to number j, or-ed: the word is not cleared from
\* one candidate to the next.
Gathered(k, v, j) ==
    LET parts == task.i2s_candidates[k]
        bits == {x \in (1 .. j) \X (0 .. WordBits - 1) :
                   LET part == parts[x[1]]
                   IN  /\ part[2] <= WordBytes
                       /\ x[2] < ByteBits * part[2]
                       /\ (v[part[1] + x[2] \div ByteBits] \div 2^(x[2] % ByteBits)) % 2 = 1}
    IN  MapThenSumSet(LAMBDA b : 2^b, {x[2] : x \in bits})

\* The points a relational constraint may make of point w, seen from the best point
\* v: pairs of a point and whether it was updated.  The word that holds the bytes in
\* reverse order is not initialised, so it may be equal to either operand, or to none.
I2SPoints(k, v, w) ==
    LET c == constraints[k]
        cands == task.i2s_candidates[k]
        a == Op1(c, v)
        b == Op2(c)
        to2 == get_i2s_value(c.comp, b, TRUE)
        to1 == get_i2s_value(c.comp, a, FALSE)
        straight(j) == IF Gathered(k, v, j) = a THEN {to2}
                       ELSE IF Gathered(k, v, j) = b THEN {to1} ELSE {}
        reverse(j) == {Reversed(x, cands[j][2]) : x \in {to2, to1}}
        put(j, values) == {<<Put(w[1], cands[j], x), TRUE>> : x \in {y \in values : Fits(k, y)}}
        fitting == {j \in DOMAIN cands : cands[j][2] <= WordBytes}
        taken == {j \in fitting : put(j, straight(j)) # {}}
        first == {j \in taken : \A h \in taken : j <= h}
        passed == {j \in fitting : \A h \in taken : j < h}
    IN  (UNION {put(j, straight(j)) : j \in first})
            \cup (UNION {put(j, reverse(j)) : j \in passed})
            \cup {x \in {w} : taken = {}}

\* memcmp with a constant: copy it.
CopyContent(c, v) ==
    [o \in DOMAIN v |-> IF o \in c.at .. c.at + Len(c.content) - 1 THEN c.content[o - c.at + 1] ELSE v[o]]

\* What try_i2s may try, from the best point v.
I2STries(v) ==
    LET after[k \in 0 .. Len(constraints)] ==
            IF k = 0 THEN {<<v, FALSE>>}
            ELSE IF DistanceOf(constraints[k], v) = 0 \/ constraints[k].comp = "MemcmpN" THEN after[k - 1]
            ELSE IF constraints[k].comp = "Memcmp"
            THEN {<<CopyContent(constraints[k], w[1]), TRUE>> : w \in after[k - 1]}
            ELSE UNION {I2SPoints(k, v, w) : w \in after[k - 1]}
    IN  after[Len(constraints)]

-----------------------------------------------------------------------------
(* gd_entry. *)

Init ==
    /\ task \in FinalTasks
    /\ seed \in [task.offsets -> StartBytes]
    /\ pc = "reload"
    /\ input = seed
    /\ scratch = seed
    /\ f0 = 0
    /\ min_distances = [i \in DOMAIN constraints |-> 0]
    /\ distances = min_distances
    /\ grad = [i \in DOMAIN task.inputs |-> [sign |-> FALSE, val |-> 0]]
    /\ index = 1
    /\ rounds = 0
    /\ step = 1
    /\ doDelta = FALSE
    /\ flags = [attempts |-> 0, stopped |-> FALSE, solved |-> FALSE, solution |-> <<>>]

\* A start point v is evaluated (reload_input, repick_start_point), and then try_i2s
\* tries w[1] when w[2] says that it has changed something.
StartAt(v) ==
    \E w \in I2STries(v) :
    \E s \in {Evaluated(flags, v)} :
    \E best \in {IF w[2] /\ Total(AllDistances(w[1])) < Total(AllDistances(v)) THEN w[1] ELSE v} :
        /\ flags' = IF w[2] THEN Evaluated(s, w[1]) ELSE s
        /\ input' = best
        /\ scratch' = w[1]
        /\ min_distances' = AllDistances(best)
        /\ distances' = IF w[2] THEN AllDistances(w[1]) ELSE distances
        /\ f0' = Total(AllDistances(best))

Reload ==
    /\ pc = "reload"
    /\ StartAt(seed)
    /\ pc' = IF flags'.stopped \/ f0' = MaxWord THEN "done" ELSE "gradient"
    /\ UNCHANGED <<task, seed, grad, index, rounds, step, doDelta>>

Offset(i) == task.inputs[i]

\* The point that partial_derivative probes in its i-th try: it does not go back
\* between tries, and the distance grows fourfold because both the loop and its
\* body double it.
Probe(o, up, i) ==
    LET moved == (4^(i + 1) - 1) \div 3
    IN  [input EXCEPT ![o] = Wrap(IF up THEN @ + moved ELSE @ - moved)]

\* The probes whose distance, 4^i, is less than 2^ByteBits.
Probes == {i \in 0 .. ByteBits : 2 * i < ByteBits}

\* One direction of partial_derivative: where it ends, how often it has evaluated.
Direction(o, up, attempts) ==
    LET single == [i \in Probes |-> SingleTotal(Probe(o, up, i), o)]
        f == [i \in Probes |-> Total(SingleDistances(Probe(o, up, i), o, min_distances))]
        ends(i) == \/ single[i] = 0
                   \/ attempts + i + 1 > MAX_EXEC_TIMES
                   \/ f[i] # f0
                   \/ i = Max(Probes)
        at(n) == [point |-> Probe(o, up, n), f |-> f[n], lucky |-> single[n] = 0,
                  count |-> IF single[n] = 0 THEN n ELSE n + 1]
    IN  at(CHOOSE i \in Probes : ends(i) /\ \A h \in Probes : h < i => ~ends(h))

\* The gradient from the distances on both sides.
Slope(f_plus, f_minus) ==
    IF f_minus < f0 /\ (f_plus >= f0 \/ f_minus < f_plus)
    THEN [sign |-> FALSE, val |-> f0 - f_minus]
    ELSE IF f_plus < f0
    THEN [sign |-> TRUE, val |-> f0 - f_plus]
    ELSE [sign |-> TRUE, val |-> 0]

\* partial_derivative: a direction in which the constraints on the byte are met
\* ("lucky") is left at once, with the byte moved and no gradient.
PartialDerivative ==
    /\ pc = "gradient"
    /\ ~flags.stopped
    /\ index <= Len(grad)
    /\ \E plus \in {Direction(Offset(index), TRUE, flags.attempts)} :
       \E s \in {Counted(flags, plus.count)} :
       \E minus \in {Direction(Offset(index), FALSE, s.attempts)} :
       \E t \in {Counted(s, minus.count)} :
           LET ends(d, up, u) == /\ grad' = [grad EXCEPT ![index] = [sign |-> up, val |-> 0]]
                                 /\ input' = d.point
                                 /\ flags' = u
           IN  IF plus.lucky THEN ends(plus, TRUE, s)
               ELSE IF s.stopped THEN ends(plus, FALSE, s)
               ELSE IF minus.lucky \/ t.stopped THEN ends(minus, FALSE, t)
               ELSE /\ grad' = [grad EXCEPT ![index] = Slope(plus.f, minus.f)]
                    /\ flags' = t
                    /\ UNCHANGED input
    /\ index' = index + 1
    /\ UNCHANGED <<task, seed, pc, scratch, f0, min_distances, distances, rounds, step, doDelta>>

Vals == [i \in DOMAIN grad |-> grad[i].val]
max_val == Max(Range(Vals) \cup {0})
val_sum == Wrap(SumTo(Len(grad), Vals))

\* cal_gradient is over.
GradientDone == pc = "gradient" /\ (index > Len(grad) \/ flags.stopped)

\* No gradient anywhere: a random start point.
Repick ==
    /\ GradientDone
    /\ max_val = 0
    /\ rounds <= MAX_NUM_MINIMAL_OPTIMA_ROUND
    /\ ~flags.stopped
    /\ rounds' = rounds + 1
    /\ \E v \in [task.offsets -> StartBytes] : StartAt(v)
    /\ index' = 1
    /\ UNCHANGED <<task, seed, pc, grad, step, doDelta>>

\* The search has ended, or was trapped in local optima.
GiveUp ==
    /\ GradientDone
    /\ flags.stopped \/ rounds > MAX_NUM_MINIMAL_OPTIMA_ROUND
    /\ pc' = "done"
    /\ UNCHANGED <<task, seed, input, scratch, f0, min_distances, distances, grad,
                   index, rounds, step, doDelta, flags>>

\* How far byte i moves (normalize, and the truncated product of fraction and step).
Movement(i, st) == (grad[i].val * st) \div max_val

\* The byte moved along its gradient, up or down.
Moved(v, i, st) ==
    [v EXCEPT ![Offset(i)] = Wrap(IF grad[i].sign THEN @ + Movement(i, st) ELSE @ - Movement(i, st))]

\* compute_delta_all
MovedAll(v, st) ==
    [o \in DOMAIN v |->
        LET i == CHOOSE k \in DOMAIN grad : Offset(k) = o
        IN  Moved(v, i, st)[o]]

\* descend, its first guess: a step that would reach zero if all were linear.
Guess ==
    /\ GradientDone
    /\ max_val # 0
    /\ ~flags.stopped
    /\ rounds <= MAX_NUM_MINIMAL_OPTIMA_ROUND
    /\ IF val_sum = 0
       THEN /\ distances' = min_distances
            /\ scratch' = input
            /\ UNCHANGED <<input, min_distances, f0, flags>>
       ELSE \E v \in {MovedAll(input, f0 \div val_sum)} :
            \E f_new \in {Total(AllDistances(v))} :
            \E s \in {Evaluated(flags, v)} :
                /\ distances' = AllDistances(v)
                /\ IF f_new >= f0
                   THEN /\ flags' = s
                        /\ scratch' = input
                        /\ UNCHANGED <<input, min_distances, f0>>
                   ELSE IF f_new = 0
                   THEN /\ flags' = Solved(s, v)
                        /\ scratch' = v
                        /\ f0' = 0
                        /\ UNCHANGED <<input, min_distances>>
                   ELSE /\ flags' = s
                        /\ scratch' = v
                        /\ input' = v
                        /\ f0' = f_new
                        /\ min_distances' = AllDistances(v)
    /\ pc' = "descend"
    /\ step' = 1
    /\ doDelta' = FALSE
    /\ index' = 1
    /\ UNCHANGED <<task, seed, grad, rounds>>

\* One step along all bytes or along one: the point it reaches, its distances and
\* the flags of the task after it.
Tried == IF doDelta THEN Moved(scratch, index, step) ELSE MovedAll(scratch, step)

TriedDistances(v) ==
    IF doDelta THEN SingleDistances(v, Offset(index), distances) ELSE AllDistances(v)

TriedFlags(v) == IF doDelta THEN Counted(flags, 1) ELSE Evaluated(flags, v)

\* The constraints on the byte that is moved alone are all met.
DoneWithByte(v) == doDelta /\ SingleTotal(v, Offset(index)) = 0

\* Mutant: the distances of the point before are kept with it.
AdvanceStale(v, ds) ==
    /\ ~DoneWithByte(v)
    /\ Total(ds) \in 1 .. f0
    /\ input' = v
    /\ scratch' = v
    /\ distances' = ds
    /\ f0' = Total(ds)
    /\ step' = Wrap(step * 2)
    /\ flags' = TriedFlags(v)
    /\ UNCHANGED <<pc, min_distances, index, rounds, doDelta>>

\* A step that is no worse is kept and doubled.
Advance(v, ds) ==
    /\ ~DoneWithByte(v)
    /\ Total(ds) \in 1 .. f0
    /\ input' = v
    /\ scratch' = v
    /\ distances' = ds
    /\ min_distances' = ds
    /\ f0' = Total(ds)
    /\ step' = Wrap(step * 2)
    /\ flags' = TriedFlags(v)
    /\ UNCHANGED <<pc, index, rounds, doDelta>>

\* A step that reaches distance zero ends the search.
Reach(v, ds) ==
    /\ ~DoneWithByte(v)
    /\ Total(ds) = 0
    /\ scratch' = v
    /\ distances' = ds
    /\ f0' = 0
    /\ flags' = Solved(TriedFlags(v), v)
    /\ UNCHANGED <<pc, input, min_distances, index, rounds, step, doDelta>>

\* The first byte from number i on with at least a hundredth of the gradient.
NextByte(i) == Min({k \in DOMAIN grad : k >= i /\ grad[k].val * 100 >= max_val} \cup {Len(grad) + 1})

\* A step that is worse, or that is done with its byte, is dropped, and the bytes
\* are moved one by one; after the last one descend returns.
NextDirection(v, ds) ==
    /\ DoneWithByte(v) \/ Total(ds) > f0
    /\ flags' = TriedFlags(v)
    /\ \E k \in {NextByte(IF doDelta THEN index + 1 ELSE 1)} :
           IF Len(grad) = 1 \/ k > Len(grad)
           THEN /\ pc' = "gradient"
                /\ index' = 1
                /\ rounds' = 0
                /\ scratch' = v
                /\ distances' = ds
                /\ UNCHANGED <<step, doDelta>>
           ELSE /\ index' = k
                /\ doDelta' = TRUE
                /\ scratch' = input
                /\ distances' = min_distances
                /\ step' = 1
                /\ UNCHANGED <<pc, rounds>>
    /\ UNCHANGED <<input, f0, min_distances>>

Descend ==
    /\ pc = "descend"
    /\ ~flags.stopped
    /\ \E v \in {Tried} : \E ds \in {TriedDistances(v)} :
           Advance(v, ds) \/ Reach(v, ds) \/ NextDirection(v, ds)
    /\ UNCHANGED <<task, seed, grad>>

\* descend returns because the search has stopped, and gd_entry ends.
Stop ==
    /\ pc = "descend"
    /\ flags.stopped
    /\ pc' = "done"
    /\ UNCHANGED <<task, seed, input, scratch, f0, min_distances, distances, grad,
                   index, rounds, step, doDelta, flags>>

Next ==
    \/ Reload
    \/ PartialDerivative
    \/ Repick
    \/ GiveUp
    \/ Guess
    \/ Descend
    \/ Stop

\* The search is a function of one thread that is never suspended for ever.
Spec == Init /\ [][Next]_vars /\ WF_vars(Next)

-----------------------------------------------------------------------------
(* Properties. *)

\* What the program's comparison says about input bytes.
Holds(c, bytes) ==
    LET a == Op1(c, bytes)
        b == Op2(c)
        sa == AsSigned(c.bits, a)
        sb == AsSigned(c.bits, b)
    IN  CASE c.comp = "Equal"    -> a = b
          [] c.comp = "Distinct" -> a # b
          [] c.comp = "Ult"      -> a < b
          [] c.comp = "Ule"      -> a <= b
          [] c.comp = "Ugt"      -> a > b
          [] c.comp = "Uge"      -> a >= b
          [] c.comp = "Slt"      -> sa < sb
          [] c.comp = "Sle"      -> sa <= sb
          [] c.comp = "Sgt"      -> sa > sb
          [] c.comp = "Sge"      -> sa >= sb
          [] c.comp = "Memcmp"   -> a = 1
          [] c.comp = "MemcmpN"  -> a = 0

\* The tasks whose reads add_results can put together again: two reads are the same
\* or have no byte in common, a read fits a word, and a comparison with a sign is one
\* of whole words.
AllReads(cs) == UNION {Reads(cs[i]) : i \in DOMAIN cs}
Bytes(r) == r[1] .. r[1] + r[2] - 1

Apart(cs) ==
    /\ \A r, q \in AllReads(cs) : r = q \/ Bytes(r) \cap Bytes(q) = {}
    /\ \A r \in AllReads(cs) : r[2] <= WordBytes
    /\ \A i \in DOMAIN cs : cs[i].comp \in SignedKinds => cs[i].bits = WordBits

\* The input JITSolver::solve writes out: the seed with the solution in it.
Output ==
    [o \in DOMAIN seed |-> IF o \in DOMAIN flags.solution THEN flags.solution[o] ELSE seed[o]]

\* What the solver reports as solved is: the bytes that add_results makes of words
\* that have overflowed satisfy every comparison of the task as the program
\* evaluates it, through stale distances, dropped steps and input-to-state copies.
SolutionSatisfies ==
    pc = "done" /\ flags.solved => \A i \in DOMAIN constraints : Holds(constraints[i], Output)

\* The distances the search compares with are never better than the point they are
\* about: bytes moved by a lucky probe leave stale distances behind, but a relational
\* constraint is at most as far away as recorded.
NotOptimistic ==
    pc \in {"gradient", "descend"} /\ ~flags.stopped =>
        \A i \in DOMAIN constraints :
            constraints[i].comp \notin MemcmpKinds => DistanceOf(constraints[i], input) <= min_distances[i]

\* The budget is kept: no path evaluates the task more than twice after
\* MAX_EXEC_TIMES is exceeded (a start point, and the point of try_i2s after it).
WithinBudget == flags.attempts <= MAX_EXEC_TIMES + 2

\* The search ends, whatever the random start points are and although steps of
\* equal distance are repeated and a step may wrap to zero.
SearchEnds == <>(pc = "done")
=============================================================================
