------------------------ MODULE MCNestedConstraints -------------------------
(* The instances of NestedConstraints that TLC checks, over the labels of a small
   program, and the formulas RootExpr makes of its branches. *)
EXTENDS NestedConstraints, RootExpr

MCXXHash == [h \in (0 .. 3) \X {0, 1, 2} \X ((ValidOps \cup {RawOp}) \X {1, 2, 8, 16}) |-> 0]

Call(op, l1, l2, size, op1, op2) ==
    [op |-> op, l1 |-> l1, l2 |-> l2, size |-> size, op1 |-> op1, op2 |-> op2]

\* The table and the label after __taint_union.
Unite(t, c) ==
    LET key == KeyOf(t, c)
        same == {l \in DOMAIN t \ {CONST_LABEL} : SameKey(t[l], key)}
        new == Cardinality(DOMAIN t)
    IN  IF Immediate(t, c) # NoLabel THEN [t |-> t, l |-> Immediate(t, c)]
        ELSE IF same # {} THEN [t |-> t, l |-> Min(same)]
        ELSE [t |-> [l \in 0 .. new |-> IF l = new THEN key ELSE t[l]], l |-> new]

UniteAll(t, calls_made) == FoldLeft(LAMBDA u, c : Unite(u, c).t, t, calls_made)

\* Input bytes 0 to 3; words of bytes 0, 1 and 2, 3; bytes 1 and 3; something large
\* of these.  Then five comparisons, the last one of the large word and byte 2.
BaseTable ==
    UniteAll([l \in 0 .. 4 |-> IF l = 0 THEN ConstInfo ELSE InputInfo(l - 1)],
          << Call("Load", 1, 2, 16, 0, 0), Call("Load", 3, 2, 16, 0, 0),
             Call("Concat", 2, 4, 16, 0, 0), Call("Add", 7, 0, 16, 0, 1),
             Call("ICmp_eq", 1, 0, 8, 5, 7), Call("ICmp_neq", 5, 0, 16, 5, 9),
             Call("ICmp_eq", 0, 6, 16, 3, 4), Call("fmemcmp", 7, 0, 2, 3, 4),
             Call("ICmp_sle", 8, 3, 16, 5, 4) >>)

Compared == 9 .. 13

\* Branches on one comparison, on one that is constant when its large operand is made
\* concrete, on a negated one, and on a conjunction with an exclusive or, which has no
\* constraint of its own.
BranchTable ==
    UniteAll(BaseTable,
          << Call("ICmp_ugt", 8, 0, 16, 3, 4), Call("Xor", 11, 0, 1, 0, 1),
             Call("Xor", 10, 9, 1, 0, 0), Call("And", 11, 16, 1, 0, 0) >>)

MCConds == Compared \cup {14, 15, 17}

MCKindOf == [l \in Compared |-> CASE l \in {9, 11} -> "Equal" [] l = 10 -> "Distinct"
                                  [] l = 12 -> "Memcmp"     [] l = 13 -> "Sle"]

Cmp(l) == Leaf(MCKindOf[l], l)

\* Their formulas.
MCFormula(b) ==
    CASE b \in Compared -> Cmp(b)
      [] b = 14 -> BoolNode(FALSE)
      [] b = 15 -> Inner("LNot", <<Cmp(11)>>)
      [] b = 17 -> Inner("LAnd", <<Cmp(11), Inner("Xor", <<Cmp(9), Cmp(10)>>)>>)

MCRootKind == [b \in MCConds |-> MCFormula(b).kind]
MCNormal == [b \in MCConds |-> [r \in BOOLEAN |-> Clauses(MCFormula(b), r)]]
MCOutcome == [b \in MCConds |-> [v \in [Compared -> BOOLEAN] |-> b # 14 /\ Holds(MCFormula(b), v)]]

\* What scan_labels finds out of a comparison.
Scan(l) ==
    LET i == BaseTable[l]
    IN  [left |-> input_deps(BaseTable)[i.l1], right |-> input_deps(BaseTable)[i.l2],
         constant1 |-> i.l1 = CONST_LABEL,
         large |-> {k \in {1, 2} : ast_size(BaseTable)[<<i.l1, i.l2>>[k]] > max_ast_size},
         nested_cmp |-> nested_cmp(BaseTable)[l]]

MCScanned == [l \in Compared |->
    [left |-> CASE l = 9 -> {0} [] l = 10 -> {0, 1} [] l = 13 -> {1, 3} [] OTHER -> {},
     right |-> CASE l = 11 -> {2, 3} [] l = 12 -> {1, 3} [] l = 13 -> {2} [] OTHER -> {},
     constant1 |-> l \in {11, 12}, large |-> {k \in {1} : l = 13}, nested_cmp |-> 1]]

Not(r) == Unite(r.t, Call("Xor", r.l, 0, 1, 0, 1))

\* These are the ones of the table: every kind of branch is there, and every way to find
\* the bytes of a comparison.
ASSUME MCAssumption ==
    /\ \A b \in MCConds : MCFormula(b) = get_root_expr(BranchTable, b)
    /\ \A b \in MCConds \ {14}, v \in [Compared -> BOOLEAN] :
           Holds(MCFormula(b), v) <=> Value(BranchTable, b, v) = 1
    /\ \A l \in Compared : MCScanned[l] = Scan(l)
    /\ {MCRootKind[b] : b \in MCConds \ Compared} = {"Bool", "LNot", "LAnd"}
    /\ {DepsOf(l) : l \in Compared} = {{0}, {0, 1}, {2, 3}, {1, 3}, {2}}
    /\ Conjunctive

-----------------------------------------------------------------------------
(* Conditions the program computes from its comparisons, each used once: bits that
   are negated, compared with a constant on either side, extended and compared, and
   joined; memcmp compared with 0. *)

Truth(l) == [op |-> "truth", l |-> l]
Negated(x) == [op |-> "not", x |-> x]
ComparedTo(x, op, const, size, side) ==
    [op |-> "cmp", x |-> x, icmp |-> op, const |-> const, size |-> size, side |-> side]
Joined(op, x, y) == [op |-> op, x |-> x, y |-> y]

RECURSIVE Uses(_)
Uses(c) == CASE c.op = "truth" -> {c.l}
             [] c.op \in {"not", "cmp"} -> Uses(c.x)
             [] OTHER -> Uses(c.x) \cup Uses(c.y)

\* The program computes condition c on an input with comparisons v.
RECURSIVE Computed(_, _, _)
Computed(t, c, v) ==
    LET r == Computed(t, c.x, v)
        s == Computed(r.t, c.y, v)
        z == IF c.size = 1 \/ r.t[r.l].op = "fmemcmp" THEN r
             ELSE Unite(r.t, Call("ZExt", r.l, 0, c.size, 0, 0))
        concrete == Value(z.t, z.l, v)
    IN  CASE c.op = "truth" -> [t |-> t, l |-> c.l]
          [] c.op = "not" -> Not(r)
          [] c.op = "cmp" -> Unite(z.t, IF c.side = "left"
                                        THEN Call(c.icmp, 0, z.l, c.size, c.const, concrete)
                                        ELSE Call(c.icmp, z.l, 0, c.size, concrete, c.const))
          [] OTHER -> Unite(s.t, Call(c.op, r.l, s.l, 1, 0, 0))

Bits == {Truth(l) : l \in {9, 10, 13}}
Memcmps == {ComparedTo(Truth(12), "ICmp_eq", 0, 16, "right"),
            ComparedTo(Truth(12), "ICmp_neq", 0, 16, "left")}

AnyComparison(x) == {ComparedTo(x, op, const, size, side) :
    op \in {"ICmp_eq", "ICmp_neq"}, const \in {0, 1}, size \in {1, 16}, side \in {"left", "right"}}

Joins(S, T) == UNION {{Joined("And", p[1], p[2]), Joined("Or", p[1], p[2])} :
                        p \in {p \in S \X T : Uses(p[1]) \cap Uses(p[2]) = {}}}

Depth1 == Bits \cup Memcmps \cup {Negated(x) : x \in Bits}
            \cup {ComparedTo(x, "ICmp_eq", 0, 16, "right") : x \in Bits}
Depth2 == UNION {AnyComparison(x) : x \in Bits} \cup Depth1 \cup Joins(Depth1, Depth1)
Depth3 == Depth2 \cup {Negated(x) : x \in Depth2}
            \cup {ComparedTo(x, "ICmp_neq", 1, 16, "left") : x \in Depth2}
            \cup Joins(Depth2, Bits \cup Memcmps)

\* From the labels of a branch to what the solvers are asked: whatever condition the
\* program computes from comparisons that it uses once, and whatever the outcome r,
\* the parser makes a formula of it, and its clauses say exactly that the branch goes
\* the other way.  An input satisfies one of them if and only if it flips the branch,
\* through extended booleans, comparisons of booleans, negations, De Morgan's laws and
\* the inverted sense of memcmp (find_roots, to_nnf, to_dnf).  The inputs are those
\* that a run can start with; no condition uses comparison 11.
ClausesFlip ==
    calls = 0 /\ value[11] => \A c \in Depth3 :
        LET b == Computed(BaseTable, c, value)
            f == get_root_expr(b.t, b.l)
        IN  /\ f.kind \notin {"Invalid", "Bool"}
            /\ \A r \in BOOLEAN :
                 (\E k \in 1 .. Len(Clauses(f, ~r)) : ClauseHolds(Clauses(f, ~r)[k], KindOf, value))
                   <=> (Value(b.t, b.l, value) = 1) # r
=============================================================================
