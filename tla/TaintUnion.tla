----------------------------- MODULE TaintUnion -----------------------------
(***************************************************************************)
(* What __taint_union does before it touches the union table: which calls  *)
(* return at once, and which table entry the others ask for.               *)
(*                                                                         *)
(* A label is a number.  Label 0 is a constant; a table slot (a            *)
(* dfsan_label_info) describes how the label was computed.  An operator is *)
(* a string; the ICmp operators carry their predicate, as the code does in *)
(* the upper byte of op.                                                   *)
(***************************************************************************)
EXTENDS Integers

CONSTANTS
    ByteBits,               \* bits in a byte
    kInitializingLabel,     \* the label of uninitialised memory, -1 unsigned
    XXHash                  \* xxhash: hash of two words and an operator code

CONST_LABEL == 0

\* Not a label: "no decision yet".
NoLabel == -1

ICmpOps == {"ICmp_eq", "ICmp_neq", "ICmp_ugt", "ICmp_uge", "ICmp_ult", "ICmp_ule",
            "ICmp_sgt", "ICmp_sge", "ICmp_slt", "ICmp_sle"}

\* op = 0: raw input bytes, and the slot of the constant label.
RawOp == "raw"

ValidOps == {"Not", "Add", "Sub", "Mul", "And", "Or", "Xor", "Shl", "LShr", "AShr",
             "UDiv", "SDiv", "URem", "SRem", "Trunc", "ZExt", "SExt", "BitCast",
             "PtrToInt", "Load", "Alloca", "Free", "Extract", "Concat",
             "fmemcmp", "fsize", "fatoi"} \cup ICmpOps

is_commutative(op) == op \in {"Not", "And", "Or", "Xor", "Add", "Mul", "fmemcmp"}

\* The slot of a label that has not been written.
Blank == [l1 |-> 0, l2 |-> 0, op |-> RawOp, size |-> 0,
          op1 |-> 0, op2 |-> 0, hash |-> 0]

\* The slot dfsan_init gives to the constant label.
ConstInfo == [Blank EXCEPT !.size = ByteBits]

\* The slot dfsan_create_label gives to the input byte at an offset.
InputInfo(offset) ==
    [Blank EXCEPT !.size = ByteBits, !.op1 = offset,
                  !.hash = XXHash[offset, 0, <<RawOp, ByteBits>>]]

\* The key comparison of the hash table: everything but the hash.
SameKey(a, b) ==
    /\ a.l1 = b.l1
    /\ a.l2 = b.l2
    /\ a.op = b.op
    /\ a.size = b.size
    /\ a.op1 = b.op1
    /\ a.op2 = b.op2

-----------------------------------------------------------------------------

\* Commutative operators keep their smaller label first.
Ordered(c) ==
    IF c.l1 > c.l2 /\ is_commutative(c.op)
    THEN [c EXCEPT !.l1 = c.l2, !.l2 = c.l1, !.op1 = c.op2, !.op2 = c.op1]
    ELSE c

\* The concrete value of a symbolic operand is dropped, except by the
\* operators that use all four fields.
KeepsConcretes(op) == op \in {"Alloca", "fatoi", "fmemcmp"} \cup ICmpOps

Concretes(c) ==
    IF KeepsConcretes(c.op) THEN c
    ELSE [c EXCEPT !.op1 = IF c.l1 > CONST_LABEL THEN 0 ELSE c.op1,
                   !.op2 = IF c.l2 > CONST_LABEL THEN 0 ELSE c.op2]

\* A bounds label among the operands; the second operand of a Load is a count.
HasPointer(info, c) ==
    \/ info[c.l1].op = "Alloca"
    \/ c.op # "Load" /\ info[c.l2].op = "Alloca"

\* The simplifications taken from qsym, on an ordered call whose concretes
\* have been dropped: the label that stands for the result, or NoLabel.
Simplified(info, c) ==
    LET zero1 == c.l1 = CONST_LABEL /\ c.op1 = 0
        ones1 == ~zero1 /\ c.l1 = CONST_LABEL /\ c.op1 = 2^c.size - 1
        zero2 == c.l2 = CONST_LABEL /\ c.op2 = 0
    IN  IF zero1 /\ c.op \in {"And", "Mul", "Shl"}                 THEN CONST_LABEL
        ELSE IF zero1 /\ c.op \in {"Or", "Xor", "Add"}             THEN c.l2
        ELSE IF ones1 /\ c.op = "And"                              THEN c.l2
        ELSE IF ones1 /\ c.op = "Or"                               THEN CONST_LABEL
        ELSE IF zero2 /\ c.op \in {"Sub", "Shl", "LShr", "AShr"}   THEN c.l1
        ELSE IF /\ c.op = "Trunc"
                /\ info[c.l1].op \in {"ZExt", "SExt"}
                /\ info[info[c.l1].l1].size = c.size               THEN info[c.l1].l1
        ELSE IF c.op = "Xor" /\ c.l1 = c.l2                        THEN CONST_LABEL
        ELSE NoLabel

\* The label a call returns without consulting the table, or NoLabel.
Immediate(info, call) ==
    LET c == Ordered(call)
    IN  IF c.op \notin ValidOps                                    THEN CONST_LABEL
        ELSE IF c.l1 = CONST_LABEL /\ c.l2 = CONST_LABEL
                /\ c.op \notin {"fsize", "Alloca"}                 THEN CONST_LABEL
        ELSE IF kInitializingLabel \in {c.l1, c.l2}                THEN kInitializingLabel
        ELSE IF HasPointer(info, c) /\ c.op = "BitCast"            THEN c.l1
        ELSE IF HasPointer(info, c) /\ c.op # "Extract"            THEN CONST_LABEL
        ELSE Simplified(info, Concretes(c))

\* Xor of a bit with constant one is recorded as Not.
Canonical(c) ==
    IF c.op = "Xor" /\ c.size = 1 /\ c.l1 = CONST_LABEL /\ c.op1 = 1
    THEN [c EXCEPT !.op = "Not"]
    ELSE c

\* The entry the call looks up, and adds when it is not there.
KeyOf(info, call) ==
    LET c == Canonical(Concretes(Ordered(call)))
        h(l) == IF l = CONST_LABEL THEN 0 ELSE info[l].hash
    IN  [l1 |-> c.l1, l2 |-> c.l2, op |-> c.op, size |-> c.size,
         op1 |-> c.op1, op2 |-> c.op2,
         hash |-> XXHash[h(c.l1), h(c.l2), <<c.op, c.size>>]]

\* The number of the Alloca operator.  __taint_trace_global hashes it where a
\* union hashes its operand size.
AllocaCode == 31

\* The entry of a global object, looked up by __taint_trace_global.
GlobalKey(addr, size) ==
    [Blank EXCEPT !.op = "Alloca", !.size = 64, !.op1 = addr,
                  !.op2 = addr + size, !.hash = XXHash[addr, 0, <<RawOp, AllocaCode>>]]
=============================================================================
