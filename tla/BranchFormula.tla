--------------------------- MODULE BranchFormula ----------------------------
(***************************************************************************)
(* The boolean formula of a branch, and its normal forms (rgd-parser.cpp). *)
(* A formula is a tree of nodes (rgd::AstNode): LAnd, LOr and LNot over    *)
(* leaves that are relational comparisons or calls of memcmp, with a       *)
(* label, or constants.                                                    *)
(***************************************************************************)
EXTENDS BranchClause, SequencesExt

\* A node as the constructor makes it: kind 0 is Bool.
EmptyNode == [kind |-> "Bool", bits |-> 0, boolvalue |-> 0, label |-> 0, kids |-> <<>>]

Leaf(kind, label) == [EmptyNode EXCEPT !.kind = kind, !.bits = 1, !.label = label]
Inner(kind, kids) == [EmptyNode EXCEPT !.kind = kind, !.bits = 1, !.kids = kids]

\* The functions below return INVALID_NODE; here, the node they work on becomes this.
InvalidNode == [EmptyNode EXCEPT !.kind = "Invalid"]

\* A node is lost when one below it is.
Checked(f) == IF \E i \in 1 .. Len(f.kids) : f.kids[i].kind = "Invalid" THEN InvalidNode ELSE f

negate_cmp(kind) ==
    CASE kind = "Equal" -> "Distinct" [] kind = "Distinct" -> "Equal"
      [] kind = "Ult" -> "Uge" [] kind = "Uge" -> "Ult"
      [] kind = "Ule" -> "Ugt" [] kind = "Ugt" -> "Ule"
      [] kind = "Slt" -> "Sge" [] kind = "Sge" -> "Slt"
      [] kind = "Sle" -> "Sgt" [] kind = "Sgt" -> "Sle"

\* The negation normal form of "f has the value expected".  A memcmp is 0 when
\* the buffers are equal.
RECURSIVE to_nnf(_, _)
to_nnf(expected, f) ==
    LET dual == CASE f.kind = "LAnd" -> "LOr" [] f.kind = "LOr" -> "LAnd" [] OTHER -> f.kind
        kids == [i \in DOMAIN f.kids |-> to_nnf(expected, f.kids[i])]
    IN  IF f.kind = "LNot" THEN IF Len(f.kids) = 1 THEN to_nnf(~expected, f.kids[1])
                                ELSE InvalidNode
        ELSE IF f.kind = "Memcmp"
        THEN IF expected THEN [f EXCEPT !.kind = "MemcmpN"] ELSE f
        ELSE IF expected THEN Checked([f EXCEPT !.kids = kids])
        ELSE IF f.kind \in {"LAnd", "LOr"} /\ Len(f.kids) = 2
        THEN Checked([f EXCEPT !.kind = dual, !.kids = kids])
        ELSE IF f.kind \in RelationalKinds THEN [f EXCEPT !.kind = negate_cmp(f.kind)]
        ELSE InvalidNode

\* The clauses of a formula in negation normal form; a clause is a sequence of
\* literals.
RECURSIVE to_dnf(_)
to_dnf(f) ==
    CASE f.kind = "LAnd" ->
           LET left == to_dnf(f.kids[1])
               right == to_dnf(f.kids[2])
           IN  FlattenSeq([i \in 1 .. Len(left) |->
                             [j \in 1 .. Len(right) |-> left[i] \o right[j]]])
      [] f.kind = "LOr" -> to_dnf(f.kids[1]) \o to_dnf(f.kids[2])
      [] OTHER -> << <<Literal(f.label, f.kind)>> >>

\* The clauses that say that f has the value r; none when f has no normal form.
Clauses(f, r) == LET n == to_nnf(r, f) IN IF n.kind = "Invalid" THEN <<>> ELSE to_dnf(n)

-----------------------------------------------------------------------------
(* What formulas mean, for an assignment v of truth values to labels. *)

RECURSIVE Holds(_, _)
Holds(f, v) ==
    CASE f.kind = "LNot" -> ~Holds(f.kids[1], v)
      [] f.kind = "LAnd" -> Holds(f.kids[1], v) /\ Holds(f.kids[2], v)
      [] f.kind = "LOr"  -> Holds(f.kids[1], v) \/ Holds(f.kids[2], v)
      [] f.kind = "Xor"  -> Holds(f.kids[1], v) # Holds(f.kids[2], v)
      [] OTHER -> v[f.label]
=============================================================================
