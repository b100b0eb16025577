---------------------------- MODULE BranchClause ----------------------------
(***************************************************************************)
(* The clauses of a branch (rgd-parser.cpp): sequences of literals.  A     *)
(* literal is a leaf of the branch's formula with the kind it has in the   *)
(* normal form: of a comparison, itself or its negation; of a memcmp,      *)
(* Memcmp (equal) or MemcmpN (not equal).                                  *)
(***************************************************************************)
EXTENDS Integers, Sequences

RelationalKinds == {"Equal", "Distinct", "Ult", "Ule", "Ugt", "Uge", "Slt", "Sle", "Sgt", "Sge"}

\* The kinds of leaves; what is no comparison has label 0.
LiteralKinds == RelationalKinds \cup {"Memcmp", "MemcmpN", "Bool", "Xor"}

Literals == [label : Nat, kind : LiteralKinds]

Literal(label, kind) == [label |-> label, kind |-> kind]

\* What a literal says of the values v of the comparisons: the value the program
\* computed for it, or for memcmp whether it is not 0.  kindOf has the comparisons.
LiteralHolds(lit, kindOf, v) ==
    CASE lit.kind = "MemcmpN"  -> v[lit.label]
      [] lit.kind = "Memcmp"   -> ~v[lit.label]
      [] OTHER -> v[lit.label] <=> lit.kind = kindOf[lit.label]

ClauseHolds(c, kindOf, v) == \A i \in 1 .. Len(c) : LiteralHolds(c[i], kindOf, v)
=============================================================================
