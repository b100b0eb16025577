--------------------------- MODULE MCTaintShadow ----------------------------
(* The instances of TaintShadow that TLC checks. *)
EXTENDS TaintShadow

\* Hash values do not matter here: one thread finds an entry by its key.
MCXXHash == [h \in (0 .. 4) \X (0 .. 4) \X
                   ((ValidOps \cup {RawOp}) \X (0 .. 4)) |-> 0]

MCConcrete == [o \in 0 .. InputLen - 1 |-> o + 1]

\* Operations that are simplified when the constant is 0, 1 or all ones, in the
\* orders in which programs write them.
MCSimplified ==
    {<<op, v, "right">> : op \in {"Sub", "Shl", "LShr"}, v \in {0, 1}} \cup
    {<<op, v, "left">> : op \in {"And", "Or"}, v \in {0, 3}} \cup
    {<<op, v, "left">> : op \in {"Xor", "Shl"}, v \in {0, 1}} \cup
    {<<"Mul", 0, "right">>, <<"Add", 0, "right">>, <<"Add", 2, "right">>}

\* Operations that see a sign or divide.
MCSigned == {<<"AShr", 1, "right">>} \cup
            {<<op, 3, "right">> : op \in {"UDiv", "SDiv", "URem", "SRem"}}

MCConstOps == MCSimplified \cup MCSigned

\* Words of two bytes, with uninitialised locals.
MCWords ==
    [addrs |-> 0 .. 1, reads |-> 0 .. 1, trace_bounds |-> TRUE, maxLabels |-> 5,
     consts |-> {}, constOps |-> {<<"Sub", 1, "right">>}, binaryOps |-> {"Add"},
     conversions |-> {"ZExt", "Trunc"}]

\* One byte, with the operations that are simplified, and constants in memory.
MCBytes ==
    [addrs |-> {0}, reads |-> {0}, trace_bounds |-> FALSE, maxLabels |-> 4,
     consts |-> {3}, constOps |-> MCConstOps, binaryOps |-> {"Xor"},
     conversions |-> {"SExt", "Trunc"}]

\* Five labels of words with one of the operations each, and four with both.
MCPrograms ==
    {[MCWords EXCEPT !.binaryOps = {}], [MCWords EXCEPT !.constOps = {}],
     [MCWords EXCEPT !.maxLabels = 4], MCBytes}

\* Words with an operation that keeps its constant in the first operand.
MCSumPrograms ==
    {[MCWords EXCEPT !.constOps = {<<"Add", 1, "right">>}, !.binaryOps = {}]}
=============================================================================
