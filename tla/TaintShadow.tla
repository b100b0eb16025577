----------------------------- MODULE TaintShadow ----------------------------
(***************************************************************************)
(* What labels mean.  A program reads input bytes, moves bytes between     *)
(* memory and a register and computes with them; the runtime keeps a label *)
(* for every byte of memory (the shadow) and for the register.  Next to    *)
(* each label the model keeps what it stands for: the value the program    *)
(* would have there for every possible input.  The solvers evaluate labels *)
(* as Z3AstParser::serialize does; both must agree.                        *)
(*                                                                         *)
(* One thread.  A byte has ByteBits bits.                                  *)
(***************************************************************************)
EXTENDS TaintUnion, Sequences, Bitwise, FiniteSets, Functions

CONSTANTS
    InputLen,       \* bytes of input
    is_stdin,       \* input is truly stdin: labels are created as it is read
    Programs,       \* the kinds of programs: see ProgramAssumption
    ConcreteInput   \* the input this execution runs on

\* A program of a kind uses the bytes at addrs (0 .. k), reads the input offsets
\* in reads, stores the constants in consts, computes with <<op, constant, side>>
\* from constOps and with memory by binaryOps, and converts by conversions.  When
\* trace_bounds is set its local variables start out as uninitialised.  maxLabels
\* bounds the labels a behaviour creates.
ASSUME ProgramAssumption ==
    \A p \in Programs :
        /\ p.reads \subseteq 0 .. InputLen - 1
        /\ p.trace_bounds \in BOOLEAN
        /\ p.maxLabels \in Nat
        /\ kInitializingLabel > p.maxLabels
        /\ p.conversions \subseteq {"ZExt", "SExt", "Trunc"}
        /\ \A c \in p.constOps :
             c[1] \in {"UDiv", "SDiv", "URem", "SRem"} => c[2] # 0 /\ c[3] = "right"

ASSUME ShadowAssumption ==
    /\ InputLen \in Nat \ {0}
    /\ is_stdin \in BOOLEAN

VARIABLES
    prog,       \* the kind of the program, chosen at the start
    info,       \* __dfsan_label_info
    last,       \* __dfsan_last_label
    shadow,     \* the label of every byte
    mem,        \* what every byte is, as a function of the input
    reg,        \* a register: its label, its size in bytes, what it is
    offset      \* current_stdin_offset

vars == <<prog, info, last, shadow, mem, reg, offset>>

Addrs == prog.addrs
trace_bounds == prog.trace_bounds

Bytes == 0 .. 2^ByteBits - 1

\* All inputs.
AllInputs == [0 .. InputLen - 1 -> Bytes]

Const(v) == [in \in AllInputs |-> v]

-----------------------------------------------------------------------------
(* __taint_union, when nothing else runs: a table is a record st of the slots
   and the last label, and a call gives a table and a label. *)

LabelsWith(st, k) ==
    {l \in 1 .. st.last : st.info[l].op # RawOp /\ SameKey(st.info[l], k)}

NewLabel(st, k) ==
    [info |-> [l \in 0 .. st.last + 1 |-> IF l > st.last THEN k ELSE st.info[l]],
     last |-> st.last + 1, label |-> st.last + 1]

Found(st, l) == [info |-> st.info, last |-> st.last, label |-> l]

Union(st, l1, l2, op, size, op1, op2) ==
    LET c == [l1 |-> l1, l2 |-> l2, op |-> op, size |-> size, op1 |-> op1, op2 |-> op2]
        k == KeyOf(st.info, c)
    IN  IF Immediate(st.info, c) # NoLabel
        THEN Found(st, Immediate(st.info, c))
        ELSE IF LabelsWith(st, k) # {}
        THEN Found(st, CHOOSE l \in LabelsWith(st, k) : TRUE)
        ELSE NewLabel(st, k)

-----------------------------------------------------------------------------
(* __taint_union_load of the n labels ls[0], ..., ls[n - 1], over bytes with
   the concrete values val[0], ..., val[n - 1]. *)

\* The labels are taken for consecutive input bytes.
IsShape(st, ls, n) ==
    /\ st.info[ls[0]].op = RawOp
    /\ \A i \in 1 .. n - 1 : st.info[ls[i]].op1 = st.info[ls[0]].op1 + i

\* The labels are the pieces of a label of n bytes.
AllExtracts(st, ls, n) ==
    LET parent == st.info[ls[0]].l1
    IN  /\ \A i \in 0 .. n - 1 : /\ st.info[ls[i]].op = "Extract"
                                 /\ st.info[ls[i]].l1 = parent
                                 /\ st.info[ls[i]].op2 = i * ByteBits
        /\ st.info[parent].size = n * ByteBits

\* The slow path: concatenate what comes next at position i to the label so far.
RECURSIVE ConcatFrom(_, _, _, _, _)
ConcatFrom(st, ls, val, n, i) ==
    LET size == st.info[ls[i]].size
        const == Union(st, st.label, 0, "Concat", (i + 1) * ByteBits, 0, val[i])
        whole == Union(st, st.label, ls[i], "Concat", i * ByteBits + size, 0, 0)
        trunc == Union(st, ls[i], 0, "Trunc", (n - i) * ByteBits, 0, 0)
    IN  IF i >= n THEN st
        ELSE IF ls[i] = CONST_LABEL
        THEN ConcatFrom(const, ls, val, n, i + 1)
        ELSE IF size <= (n - i) * ByteBits
        THEN ConcatFrom(whole, ls, val, n, i + size \div ByteBits)
        ELSE Union(trunc, st.label, trunc.label, "Concat", n * ByteBits, 0, 0)

UnionLoad(st, ls, val, n) ==
    IF kInitializingLabel \in {ls[i] : i \in 0 .. n - 1}
    THEN Found(st, kInitializingLabel)
    ELSE IF ls[0] = CONST_LABEL /\ \A i \in 1 .. n - 1 : ls[i] = ls[0]
    THEN Found(st, CONST_LABEL)
    ELSE IF IsShape(st, ls, n) /\ n = 1
    THEN Found(st, ls[0])
    ELSE IF IsShape(st, ls, n)
    THEN Union(st, ls[0], n, "Load", n * ByteBits, 0, 0)
    ELSE IF AllExtracts(st, ls, n)
    THEN Found(st, st.info[ls[0]].l1)
    ELSE ConcatFrom(Found(st, ls[0]), ls, val, n, st.info[ls[0]].size \div ByteBits)

-----------------------------------------------------------------------------
(* __taint_union_store of label l to n bytes: the table, with the labels of the
   bytes in field bytes. *)

RECURSIVE Extracts(_, _, _)
Extracts(st, l, n) ==
    IF n = 0 THEN [info |-> st.info, last |-> st.last, bytes |-> <<>>]
    ELSE LET before == Extracts(st, l, n - 1)
             e == Union(before, l, 0, "Extract", ByteBits, 0, (n - 1) * ByteBits)
         IN  [info |-> e.info, last |-> e.last, bytes |-> Append(before.bytes, e.label)]

Spread(st, ls) == [info |-> st.info, last |-> st.last, bytes |-> ls]

\* Mutant: every byte is given the label of the whole value.
UnionStoreWhole(st, l, n) == Spread(st, [i \in 1 .. n |-> l])

UnionStore(st, l, n) ==
    IF l \in {kInitializingLabel, CONST_LABEL} \/ (n = 1 /\ st.info[l].size = ByteBits)
    THEN Spread(st, [i \in 1 .. n |-> l])
    ELSE IF st.info[l].op = "Load"
    THEN Spread(st, [i \in 1 .. n |-> st.info[l].l1 + i - 1])
    ELSE Extracts(st, l, n)

-----------------------------------------------------------------------------
(* What a label means to the solvers. *)

\* A value of size bits as a signed number.
Signed(size, a) == IF a < 2^(size - 1) THEN a ELSE a - 2^size

Abs(a) == IF a < 0 THEN -a ELSE a

\* Division of signed numbers goes towards zero.
Quotient(a, b) ==
    IF (a < 0) = (b < 0) THEN Abs(a) \div Abs(b) ELSE -(Abs(a) \div Abs(b))

\* The two operands with values a and b, on size bits.  Programs divide by
\* constants other than zero here.
Apply(op, size, a, b) ==
    CASE op = "Add" -> (a + b) % 2^size
      [] op = "Sub" -> (a - b) % 2^size
      [] op = "Mul" -> (a * b) % 2^size
      [] op = "And" -> a & b
      [] op = "Or"  -> a | b
      [] op = "Xor" -> a ^^ b
      [] op = "Shl" -> (a * 2^b) % 2^size
      [] op = "LShr" -> a \div 2^b
      [] op = "AShr" -> (Signed(size, a) \div 2^b) % 2^size
      [] op = "UDiv" -> a \div b
      [] op = "URem" -> a % b
      [] op = "SDiv" -> Quotient(Signed(size, a), Signed(size, b)) % 2^size
      [] op = "SRem" -> LET m == Signed(size, a)
                            n == Signed(size, b)
                        IN  (m - n * Quotient(m, n)) % 2^size

InputByte(in, o) == IF o < InputLen THEN in[o] ELSE 0

RECURSIVE InputBytes(_, _, _)
InputBytes(in, o, n) ==
    IF n = 0 THEN 0
    ELSE InputBytes(in, o, n - 1) + InputByte(in, o + n - 1) * 2^(ByteBits * (n - 1))

\* The bits of the first operand of a concatenation: a constant has what the
\* second operand leaves.
FirstWidth(st, s) ==
    IF s.l1 = CONST_LABEL THEN s.size - st.info[s.l2].size ELSE st.info[s.l1].size

\* An operand is cut or extended to the size of the operation.
Fitted(size, a) == a % 2^size

\* Z3AstParser::serialize, evaluated for one input: the values of all labels.
Eval(st, in) ==
    LET value[l \in 0 .. st.last] ==
          LET s == st.info[l]
              low == FirstWidth(st, s)
              val1 == IF s.l1 = CONST_LABEL THEN s.op1 ELSE value[s.l1]
              val2 == IF s.l2 = CONST_LABEL THEN s.op2 ELSE value[s.l2]
          IN  CASE s.op = RawOp       -> InputByte(in, s.op1)
                [] s.op = "Load"      -> InputBytes(in, st.info[s.l1].op1, s.l2)
                [] s.op = "ZExt"      -> value[s.l1]
                [] s.op = "SExt"      -> Signed(st.info[s.l1].size, value[s.l1]) % 2^s.size
                [] s.op = "Trunc"     -> value[s.l1] % 2^s.size
                [] s.op = "Extract"   -> (value[s.l1] \div 2^s.op2) % 2^s.size
                [] s.op = "Concat"    -> (val1 % 2^low) + val2 * 2^low
                [] OTHER              -> Apply(s.op, s.size, Fitted(s.size, val1), Fitted(s.size, val2))
    IN  value

-----------------------------------------------------------------------------
(* The program. *)

Table == [info |-> info, last |-> last]

\* The label of a local variable that has not been written, in memory or loaded
\* into the register.
InitialLabel == IF trace_bounds THEN kInitializingLabel ELSE CONST_LABEL

Init ==
    /\ prog \in Programs
    /\ last = IF is_stdin THEN 0 ELSE InputLen
    /\ info = [l \in 0 .. last |-> IF l = CONST_LABEL THEN ConstInfo ELSE InputInfo(l - 1)]
    /\ shadow = [a \in Addrs |-> InitialLabel]
    /\ mem = [a \in Addrs |-> Const(0)]
    /\ reg = [label |-> InitialLabel, n |-> 1, is |-> Const(0)]
    /\ offset = 0

\* The table after a call of the runtime, within the bound on labels.
Update(st) ==
    /\ st.last <= prog.maxLabels
    /\ info' = st.info
    /\ last' = st.last

\* get_label_for: the label of the byte at offset o of the input.
LabelFor(o) ==
    IF is_stdin THEN NewLabel(Table, InputInfo(o)) ELSE Found(Table, o + 1)

\* The program reads the input byte at offset o into address a.  Bytes of stdin
\* come in order.
ReadInput(a, o) ==
    /\ is_stdin => o = offset
    /\ Update(LabelFor(o))
    /\ shadow' = [shadow EXCEPT ![a] = LabelFor(o).label]
    /\ mem' = [mem EXCEPT ![a] = [in \in AllInputs |-> in[o]]]
    /\ offset' = IF is_stdin THEN offset + 1 ELSE offset
    /\ UNCHANGED reg

\* mmap of the file from offset o, over all addresses: what lies behind the end of
\* the file is uninitialised.  (stdin cannot be mapped.)
Mmap(o) ==
    LET inFile(a) == o + a < InputLen
    IN  /\ ~is_stdin
        /\ shadow' = [a \in Addrs |-> IF inFile(a) THEN LabelFor(o + a).label
                                      ELSE kInitializingLabel]
        /\ mem' = [a \in Addrs |-> IF inFile(a) THEN [in \in AllInputs |-> in[o + a]]
                                   ELSE Const(0)]
        /\ UNCHANGED <<info, last, reg, offset>>

\* memcpy and memmove of n bytes.
Copy(dest, src, n) ==
    LET from(b) == src + b - dest
        in_(b) == b \in dest .. dest + n - 1
    IN  /\ dest # src
        /\ shadow' = [b \in Addrs |-> IF in_(b) THEN shadow[from(b)] ELSE shadow[b]]
        /\ mem' = [b \in Addrs |-> IF in_(b) THEN mem[from(b)] ELSE mem[b]]
        /\ UNCHANGED <<info, last, reg, offset>>

\* The program stores a constant byte.
StoreConst(a, v) ==
    LET st == UnionStore(Table, CONST_LABEL, 1)
    IN  /\ Update(st)
        /\ shadow' = [shadow EXCEPT ![a] = st.bytes[1]]
        /\ mem' = [mem EXCEPT ![a] = Const(v)]
        /\ UNCHANGED <<reg, offset>>

\* Local variables start with the label of uninitialised memory
\* (__taint_trace_alloca when bounds are traced).
Uninitialise(a) ==
    /\ trace_bounds
    /\ shadow' = [shadow EXCEPT ![a] = kInitializingLabel]
    /\ mem' = [mem EXCEPT ![a] = Const(0)]
    /\ UNCHANGED <<info, last, reg, offset>>

\* What n bytes from address a are together: little endian.
RECURSIVE Word(_, _)
Word(a, n) ==
    IF n = 0 THEN Const(0)
    ELSE [in \in AllInputs |->
            Word(a, n - 1)[in] + mem[a + n - 1][in] * 2^(ByteBits * (n - 1))]

LoadLabel(a, n) ==
    UnionLoad(Table, [i \in 0 .. n - 1 |-> shadow[a + i]],
              [i \in 0 .. n - 1 |-> mem[a + i][ConcreteInput]], n)

\* A register of n bytes.  Values computed from uninitialised memory are not
\* followed.
Register(l, n, f) ==
    [label |-> l, n |-> n, is |-> IF l = kInitializingLabel THEN Const(0) ELSE f]

\* Load n bytes from address a.
Load(a, n) ==
    /\ Update(LoadLabel(a, n))
    /\ reg' = Register(LoadLabel(a, n).label, n, Word(a, n))
    /\ UNCHANGED <<shadow, mem, offset>>

\* Store the register at address a.
Store(a) ==
    LET st == UnionStore(Table, reg.label, reg.n)
        in_(b) == b \in a .. a + reg.n - 1
    IN  /\ Update(st)
        /\ shadow' = [b \in Addrs |-> IF in_(b) THEN st.bytes[b - a + 1] ELSE shadow[b]]
        /\ mem' = [b \in Addrs |->
                     IF in_(b)
                     THEN [in \in AllInputs |->
                             (reg.is[in] \div 2^(ByteBits * (b - a))) % 2^ByteBits]
                     ELSE mem[b]]
        /\ UNCHANGED <<reg, offset>>

\* Compute with the register and a second operand.
Compute(st, l1, l2, op, f1, f2) ==
    LET size == reg.n * ByteBits
        u == Union(st, l1, l2, op, size, f1[ConcreteInput], f2[ConcreteInput])
    IN  /\ Update(u)
        /\ reg' = Register(u.label, reg.n,
                           [in \in AllInputs |-> Apply(op, size, f1[in], f2[in])])
        /\ UNCHANGED <<shadow, mem, offset>>

\* ... with a constant on the left or on the right,
ComputeConst(op, v, side) ==
    IF side = "left"
    THEN Compute(Table, CONST_LABEL, reg.label, op, Const(v), reg.is)
    ELSE Compute(Table, reg.label, CONST_LABEL, op, reg.is, Const(v))

\* ... or with as many bytes of memory.
ComputeMem(op, a) ==
    Compute(LoadLabel(a, reg.n), reg.label, LoadLabel(a, reg.n).label, op,
            reg.is, Word(a, reg.n))

\* Convert the register to n bytes.
Converted(op, n) ==
    LET f(in) == IF op = "SExt" THEN Signed(reg.n * ByteBits, reg.is[in]) ELSE reg.is[in]
    IN  [in \in AllInputs |-> f(in) % 2^(n * ByteBits)]

Convert(op, n) ==
    LET u == Union(Table, reg.label, CONST_LABEL, op, n * ByteBits,
                   reg.is[ConcreteInput], 0)
    IN  /\ n # reg.n
        /\ op = "Trunc" <=> n < reg.n
        /\ Update(u)
        /\ reg' = Register(u.label, n, Converted(op, n))
        /\ UNCHANGED <<shadow, mem, offset>>

\* Sizes in bytes that fit at address a.
SizesAt(a) == {n \in 1 .. 2 : a + n - 1 \in Addrs}

Step ==
    \/ \E a \in Addrs, o \in prog.reads : ReadInput(a, o)
    \/ \E o \in prog.reads : Mmap(o)
    \/ \E a, b \in Addrs : \E n \in SizesAt(a) \cap SizesAt(b) : Copy(a, b, n)
    \/ \E a \in Addrs, v \in prog.consts : StoreConst(a, v)
    \/ \E a \in Addrs : Uninitialise(a)
    \/ \E a \in Addrs : \E n \in SizesAt(a) : Load(a, n)
    \/ \E a \in Addrs : reg.n \in SizesAt(a) /\ Store(a)
    \/ \E c \in prog.constOps : ComputeConst(c[1], c[2], c[3])
    \/ \E op \in prog.binaryOps, a \in Addrs : reg.n \in SizesAt(a) /\ ComputeMem(op, a)
    \/ \E n \in 1 .. 2, op \in prog.conversions : Convert(op, n)

Next == Step /\ UNCHANGED prog

Spec == Init /\ [][Next]_vars

-----------------------------------------------------------------------------
(* Properties. *)

\* A label l describes a value f of n bytes, on the inputs in S.
Describes(l, f, n, S) ==
    \/ l = kInitializingLabel
    \/ l = CONST_LABEL /\ \A in, jn \in S : f[in] = f[jn]
    \/ /\ l \in 1 .. last
       /\ info[l].size = n * ByteBits
       /\ \A in \in S : Eval(Table, in)[l] = f[in]

\* Every byte and the register carry a label that the solvers evaluate, for
\* every input, to what the program would have computed on that input: the
\* simplifications of __taint_union, the three paths of __taint_union_load and
\* the splitting of __taint_union_store lose nothing.
LabelsFaithful ==
    /\ \A a \in Addrs : Describes(shadow[a], mem[a], 1, AllInputs)
    /\ Describes(reg.label, reg.is, reg.n, AllInputs)

\* On the input of this execution, the value recomputed from a label is the
\* value the program has.
ValuesMatch ==
    /\ \A a \in Addrs : Describes(shadow[a], mem[a], 1, {ConcreteInput})
    /\ Describes(reg.label, reg.is, reg.n, {ConcreteInput})

=============================================================================
