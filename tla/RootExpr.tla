------------------------------ MODULE RootExpr ------------------------------
(***************************************************************************)
(* From the label of a branch to its boolean formula: get_root_expr of the *)
(* RGD parser, with the caches that scan_labels fills and the traversal of *)
(* find_roots.  The table t of labels is the one of TaintUnion; label 0 is *)
(* the constant.  A comparison whose operands hold no other comparison is  *)
(* a leaf of the formula, with its label.                                  *)
(***************************************************************************)
EXTENDS TaintUnion, BranchFormula, FiniteSets

CONSTANTS
    WordBits,       \* bits of the concrete operands in a slot (uint64_t)
    InputBytes,     \* bytes of the input that was given to restart
    max_ast_size,   \* larger operands of a comparison are made concrete
    NodeCapacity    \* nodes the root of a formula has room for

ASSUME RootAssumption ==
    /\ WordBits \in Nat \ {0}
    /\ {InputBytes, max_ast_size, NodeCapacity} \subseteq Nat

IsICmp(op) == op \in ICmpOps
IsComparison(op) == IsICmp(op) \/ op = "fmemcmp"

\* OP_MAP, on the comparisons.
KindOfOp(op) ==
    CASE op = "ICmp_eq"  -> "Equal" [] op = "ICmp_neq" -> "Distinct"
      [] op = "ICmp_ugt" -> "Ugt"   [] op = "ICmp_uge" -> "Uge"
      [] op = "ICmp_ult" -> "Ult"   [] op = "ICmp_ule" -> "Ule"
      [] op = "ICmp_sgt" -> "Sgt"   [] op = "ICmp_sge" -> "Sge"
      [] op = "ICmp_slt" -> "Slt"   [] op = "ICmp_sle" -> "Sle"

eval_icmp(op, a, b) ==
    LET signed(x) == IF x >= 2^(WordBits - 1) THEN x - 2^WordBits ELSE x
    IN  CASE op = "ICmp_eq"  -> a = b  [] op = "ICmp_neq" -> a # b
          [] op = "ICmp_ugt" -> a > b  [] op = "ICmp_uge" -> a >= b
          [] op = "ICmp_ult" -> a < b  [] op = "ICmp_ule" -> a <= b
          [] op = "ICmp_sgt" -> signed(a) > signed(b)
          [] op = "ICmp_sge" -> signed(a) >= signed(b)
          [] op = "ICmp_slt" -> signed(a) < signed(b)
          [] op = "ICmp_sle" -> signed(a) <= signed(b)

-----------------------------------------------------------------------------
(* scan_labels: what the caches hold for every label of the table. *)

IsRead(i) == i.op \in {RawOp, "Load"}

\* The first input byte of a Read, and how many it has.
FirstByte(t, i) == IF i.op = "Load" THEN t[i.l1].op1 ELSE i.op1
ByteCount(i) == IF i.op = "Load" THEN i.l2 ELSE 1

\* Labels up to l that the scan accepts: operands are labels, bytes are of the input.
ScanOK(t, l) ==
    \A k \in 1 .. l :
        /\ {t[k].l1, t[k].l2} \subseteq DOMAIN t
        /\ IsRead(t[k]) => FirstByte(t, t[k]) + ByteCount(t[k]) <= InputBytes

nested_cmp(t) ==
    LET n[l \in DOMAIN t] ==
            IF l = CONST_LABEL \/ IsRead(t[l]) THEN 0
            ELSE (n[t[l].l1] + n[t[l].l2] + IF IsComparison(t[l].op) THEN 1 ELSE 0) % 2^8
    IN  n

ast_size(t) ==
    LET s[l \in DOMAIN t] ==
            IF l = CONST_LABEL \/ IsRead(t[l]) THEN 1 ELSE s[t[l].l1] + s[t[l].l2] + 1
    IN  s

\* branch_to_inputs of the source.
input_deps(t) ==
    LET d[l \in DOMAIN t] ==
            IF l = CONST_LABEL THEN {}
            ELSE IF IsRead(t[l])
            THEN {FirstByte(t, t[l]) + k : k \in 0 .. ByteCount(t[l]) - 1}
            ELSE d[t[l].l1] \cup d[t[l].l2]
    IN  d

\* A boolean that was extended is looked through.
RECURSIVE Stripped(_, _, _)
Stripped(t, label, l) ==
    LET child == t[l].l1
    IN  IF t[l].op # "ZExt" THEN label
        ELSE IF t[child].size = 1 \/ IsComparison(t[child].op) THEN child
        ELSE Stripped(t, label, child)

strip_zext(t, l) == Stripped(t, l, l)

-----------------------------------------------------------------------------
(* find_roots: what a node becomes, from its slot i and its children. *)

\* set_boolvalue keeps the opposite of the value it is given.
BoolNode(value) ==
    [EmptyNode EXCEPT !.bits = 1, !.boolvalue = IF value THEN 0 ELSE 1]

NoNode == [EmptyNode EXCEPT !.kind = "none"]

\* The node of an operand: a child that was not made is the dummy node.
Child(kids, k) == IF k <= Len(kids) THEN kids[k] ELSE EmptyNode
LeftNode(t, i, kids) == IF nested_cmp(t)[i.l1] > 0 THEN Child(kids, 1) ELSE NoNode
RightNode(t, i, kids) ==
    IF nested_cmp(t)[i.l2] = 0 THEN NoNode
    ELSE Child(kids, IF nested_cmp(t)[i.l1] > 0 THEN 2 ELSE 1)

NotNode(i, kids) ==
    IF Len(kids) # 1 \/ i.size # 1 THEN InvalidNode
    ELSE IF kids[1].kind = "Bool" THEN BoolNode(kids[1].boolvalue = 0)
    ELSE Inner("LNot", kids)

\* And and Or; absorbing is the value that decides alone.
Junction(t, i, kids, absorbing, kind) ==
    LET left == LeftNode(t, i, kids)
        right == RightNode(t, i, kids)
        decides(node) == node.kind = "Bool" /\ node.boolvalue = absorbing
    IN  IF \/ kids = <<>>
           \/ i.size # 1
           \/ i.l1 = CONST_LABEL /\ i.op1 \notin {0, 1}
           \/ i.l1 = CONST_LABEL /\ i.op1 # absorbing /\ right = NoNode
           \/ i.l1 # CONST_LABEL /\ NoNode \in {left, right}      THEN InvalidNode
        ELSE IF i.l1 = CONST_LABEL
        THEN IF i.op1 = absorbing THEN BoolNode(absorbing = 1) ELSE right
        ELSE IF decides(left) \/ (left.kind # "Bool" /\ decides(right))
        THEN BoolNode(absorbing = 1)
        ELSE IF left.kind = "Bool"
        THEN IF right.kind = "Bool" THEN BoolNode(right.boolvalue = 1) ELSE right
        ELSE IF right.kind = "Bool" THEN left
        ELSE Inner(kind, kids)

AndNode(t, i, kids) == Junction(t, i, kids, 0, "LAnd")
OrNode(t, i, kids) == Junction(t, i, kids, 1, "LOr")

XorNode(t, i, kids) ==
    LET left == IF i.l1 = CONST_LABEL THEN [EmptyNode EXCEPT !.boolvalue = i.op1]
                ELSE LeftNode(t, i, kids)
        right == RightNode(t, i, kids)
    IN  IF kids = <<>> \/ i.size # 1 \/ NoNode \in {left, right}   THEN InvalidNode
        ELSE IF left.kind = "Bool" /\ right.kind = "Bool"
        THEN BoolNode(left.boolvalue # right.boolvalue)
        ELSE IF left.kind = "Bool"
        THEN IF left.boolvalue = 0 THEN right ELSE Inner("LNot", kids)
        ELSE IF right.kind = "Bool"
        THEN IF right.boolvalue = 0 THEN left ELSE Inner("LNot", kids)
        ELSE Inner("Xor", kids)

\* The operands of a comparison that are too large, as bits 1 (left) and 2 (right).
\* Making them concrete also lowers the cached size of the comparison, which no
\* other leaf contains.
concretized(t, l) ==
    LET s == ast_size(t)
    IN  IF s[l] <= max_ast_size THEN {}
        ELSE {b \in {1, 2} : s[IF b = 1 THEN t[l].l1 ELSE t[l].l2] > max_ast_size}

\* A comparison over no other comparison.
CmpLeaf(t, l) ==
    LET i == t[l]
        concrete_ops == concretized(t, l) \cup (IF i.l1 = CONST_LABEL THEN {1} ELSE {})
                                          \cup (IF i.l2 = CONST_LABEL THEN {2} ELSE {})
    IN  IF concrete_ops = {1, 2} THEN BoolNode(eval_icmp(i.op, i.op1, i.op2))
        ELSE Leaf(KindOfOp(i.op), l)

\* Mutant: only the constant is looked at, not whether the comparison is == or !=.
CmpOverOneNeg(t, i, node) ==
    IF (IF i.l1 = CONST_LABEL THEN i.op1 ELSE i.op2) = 1 THEN node ELSE Inner("LNot", <<node>>)

\* A comparison over one that has node, on one side: of a boolean with a constant.
CmpOverOne(t, i, node) ==
    LET inLeft == nested_cmp(t)[i.l1] > 0
        other == IF inLeft THEN i.l2 ELSE i.l1
        constant == IF inLeft THEN i.op2 ELSE i.op1
    IN  IF i.op \notin {"ICmp_eq", "ICmp_neq"}
        THEN [BoolNode(eval_icmp(i.op, i.op1, i.op2)) EXCEPT !.kids = <<node>>]
        ELSE IF node.bits # 1 THEN InvalidNode
        ELSE IF other # CONST_LABEL THEN BoolNode(FALSE)
        ELSE IF constant = (IF i.op = "ICmp_eq" THEN 1 ELSE 0) THEN node
        ELSE Inner("LNot", <<node>>)

CmpNode(t, l, kids) ==
    CASE Len(kids) = 0 -> CmpLeaf(t, l)
      [] Len(kids) = 1 -> CmpOverOne(t, t[l], kids[1])
      [] OTHER -> BoolNode(eval_icmp(t[l].op, t[l].op1, t[l].op2))

MemcmpNode(l, kids) == IF kids = <<>> THEN Leaf("Memcmp", l) ELSE InvalidNode

NodeOf(t, l, kids) ==
    LET i == t[l]
    IN  CASE i.op = "Not" -> NotNode(i, kids)
          [] i.op = "And" -> AndNode(t, i, kids)
          [] i.op = "Or"  -> OrNode(t, i, kids)
          [] i.op = "Xor" -> XorNode(t, i, kids)
          [] IsICmp(i.op) -> CmpNode(t, l, kids)
          [] i.op = "fmemcmp" -> MemcmpNode(l, kids)
          [] OTHER -> InvalidNode

-----------------------------------------------------------------------------
(* find_roots: the traversal.  w is what it carries along: the labels that are
   finished, the one it last came from, the nodes made so far. *)

Start == [visited |-> {}, prev |-> 0, nodes |-> 0]

\* The node of label l, in post-order.  A label met again leaves an empty node;
\* the right operand is skipped when the traversal just came from it.
RECURSIVE Visit(_, _, _)
Visit(t, l, w) ==
    LET i == t[l]
        nested == nested_cmp(t)
        zsl2 == strip_zext(t, i.l2)
        \* One more child, from label k.
        down(v, k) ==
            LET r == Visit(t, k, [v.w EXCEPT !.nodes = @ + 1])
            IN  [w |-> r.w, kids |-> Append(v.kids, IF v.w.nodes = NodeCapacity
                                                    THEN InvalidNode ELSE r.node)]
        left == IF nested[i.l1] = 0 THEN [w |-> w, kids |-> <<>>]
                ELSE down([w |-> w, kids |-> <<>>], strip_zext(t, i.l1))
        both == IF nested[zsl2] > 0 /\ left.w.prev # zsl2 THEN down(left, zsl2) ELSE left
    IN  IF l \in w.visited THEN [w |-> [w EXCEPT !.prev = l], node |-> EmptyNode]
        ELSE [w |-> [both.w EXCEPT !.visited = @ \cup {l}, !.prev = l],
              node |-> IF \E k \in DOMAIN both.kids : both.kids[k].kind = "Invalid"
                       THEN InvalidNode ELSE NodeOf(t, l, both.kids)]

find_roots(t, l) == Visit(t, l, Start).node

\* The formula of the branch on label l, or InvalidNode.
get_root_expr(t, l) ==
    IF l = CONST_LABEL \/ l = kInitializingLabel \/ ~ScanOK(t, l) THEN InvalidNode
    ELSE find_roots(t, l)

-----------------------------------------------------------------------------
(* What a label means, given the outcome v[l] of each comparison l of input. *)

IsLeaf(t, l) == IsComparison(t[l].op) /\ nested_cmp(t)[l] = 1

RECURSIVE Value(_, _, _)
Value(t, l, v) ==
    LET i == t[l]
        left == IF i.l1 = CONST_LABEL THEN i.op1 ELSE Value(t, i.l1, v)
        right == IF i.l2 = CONST_LABEL THEN i.op2 ELSE Value(t, i.l2, v)
        bit(b) == IF b THEN 1 ELSE 0
    IN  CASE IsLeaf(t, l)    -> bit(v[l])
          [] i.op = "ZExt"   -> left
          [] i.op = "Not"    -> 1 - right
          [] i.op = "And"    -> left * right
          [] i.op = "Or"     -> bit(left + right > 0)
          [] i.op = "Xor"    -> bit(left # right)
          [] IsICmp(i.op)    -> bit(eval_icmp(i.op, left, right))
=============================================================================
