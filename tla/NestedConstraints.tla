-------------------------- MODULE NestedConstraints -------------------------
(***************************************************************************)
(* How the parser of the RGD solvers adds to the constraint of a branch    *)
(* the constraints of earlier branches that share input bytes with it,     *)
(* directly or through other constraints (rgd-parser.cpp, union_find.h).   *)
(*                                                                         *)
(* The classes of related bytes are a union-find forest (parent, rank)     *)
(* threaded by circular lists (next); a constraint is kept in the bucket   *)
(* of the byte that was the root of its class when it was saved.           *)
(*                                                                         *)
(* The parser is in its nested mode (solve_nested_).                       *)
(***************************************************************************)
EXTENDS BranchClause, FiniteSets, FiniteSetsExt, Functions, SequencesExt

CONSTANTS
    InputSize,          \* bytes of the input
    Conds,              \* labels of the branches of the program
    RootKind,           \* branch -> kind of the root of its formula
    Normal,             \* branch -> outcome -> the clauses that say that it has it
    Outcome,            \* branch -> values of the comparisons -> outcome of the branch
    KindOf,             \* comparison -> what the program compares
    Scanned,            \* comparison -> what scan_labels finds out of it
    MaxCalls            \* bound on the calls of a run

Bytes == 0 .. InputSize - 1
Labels == DOMAIN KindOf

\* Of a comparison: the input bytes of its operands, whether the first one is
\* constant, which ones are too large (1 and 2), and the comparisons in it (uint8_t).
ScanResults == [left : SUBSET Bytes, right : SUBSET Bytes, constant1 : BOOLEAN,
                large : SUBSET {1, 2}, nested_cmp : 0 .. 255]

ASSUME NestedAssumption ==
    /\ InputSize \in Nat \ {0}
    /\ Scanned \in [Labels -> ScanResults]
    /\ Normal \in [Conds -> [BOOLEAN -> Seq(Seq(Literals))]]
    /\ Outcome \in [Conds -> [[Labels -> BOOLEAN] -> BOOLEAN]]
    /\ Labels \subseteq Nat
    /\ MaxCalls \in Nat

VARIABLES
    value,      \* what each comparison is on the input of this run
    parent, next, rank,     \* data_flow_deps
    bucket,     \* input_to_branches
    root_expr_cache,    \* the comparisons whose formula was made
    tasks,      \* the tasks the last call made
    calls,      \* calls so far
    merged      \* the sets of bytes that were merged

vars == <<value, parent, next, rank, bucket, root_expr_cache, tasks, calls, merged>>

-----------------------------------------------------------------------------
(* The union-find structure, as a record of its three vectors. *)

Singletons == [parent |-> [x \in Bytes |-> x],
               next   |-> [x \in Bytes |-> x],
               rank   |-> [x \in Bytes |-> 0]]

\* The bytes one comes to from x by following f.
Reach(f, x) ==
    {y \in Bytes : \A S \in SUBSET Bytes : x \in S /\ (\A z \in S : f[z] \in S) => y \in S}

\* find: the root of x, and the parents after every byte on the path was pointed at
\* its grandparent.
Root(p, x) == CHOOSE y \in Reach(p, x) : p[y] = y

Compressed(p, x) ==
    LET path == Reach(p, x)
    IN  [y \in Bytes |-> IF y \in path THEN p[p[y]] ELSE p[y]]

\* Mutant: the lists are not spliced.
merge_lists(u, x, y) ==
    LET p == Compressed(Compressed(u.parent, x), y)
        xr == Root(p, x)
        yr == Root(p, y)
    IN  IF xr = yr THEN [u EXCEPT !.parent = p]
        ELSE [u EXCEPT !.parent = [p EXCEPT ![yr] = xr]]

merge(u, x, y) ==
    LET p == Compressed(Compressed(u.parent, x), y)
        xr == Root(p, x)
        yr == Root(p, y)
        spliced == [u.next EXCEPT ![xr] = u.next[yr], ![yr] = u.next[xr]]
    IN  IF xr = yr THEN [u EXCEPT !.parent = p]
        ELSE IF u.rank[xr] < u.rank[yr]
        THEN [u EXCEPT !.parent = [p EXCEPT ![xr] = yr], !.next = spliced]
        ELSE [parent |-> [p EXCEPT ![yr] = xr], next |-> spliced,
              rank |-> IF u.rank[xr] = u.rank[yr] THEN [u.rank EXCEPT ![xr] = @ + 1]
                       ELSE u.rank]

\* x and what follows it in its list.
get_set(nx, x) == Reach(nx, x)

-----------------------------------------------------------------------------
(* save_constraint *)

\* The operands of a comparison that find_roots made concrete; those of a memcmp
\* never are.
concretize_node(l) == IF KindOf[l] = "Memcmp" THEN {} ELSE Scanned[l].large

\* The input bytes of a literal; a leaf that is not a comparison has label 0 and none.
\* Whoever looks at branch_to_inputs of a literal first replaces it by the bytes of
\* the operand that was left symbolic, if one was made concrete.
DepsOf(l) ==
    IF l \notin Labels THEN {}
    ELSE CASE concretize_node(l) = {1} -> Scanned[l].right
           [] concretize_node(l) = {2} -> Scanned[l].left
           [] OTHER -> Scanned[l].left \cup Scanned[l].right

\* Merge the bytes of S in ascending order; n is the first byte that was not looked at.
MergeAll(u, S) ==
    LET m[n \in 0 .. InputSize] ==
            IF n = 0 THEN [u |-> u, root |-> Min(S)]
            ELSE LET before == m[n - 1]
                     v == merge(before.u, before.root, n - 1)
                 IN  IF n - 1 \notin S \ {Min(S)} THEN before
                     ELSE [u |-> v, root |-> Root(v.parent, n - 1)]
    IN  m[InputSize]

\* Mutant: the constraint goes to the bucket of its first byte, the bytes are not
\* merged.
SaveLiteral_alone(st, lit) ==
    LET S == DepsOf(lit.label)
    IN  IF S = {} THEN st
        ELSE [st EXCEPT !.bucket[Min(S)] = Append(@, lit)]

\* Save one literal: st has the vectors, the buckets and the merged sets.
SaveLiteral(st, lit) ==
    LET S == DepsOf(lit.label)
        m == MergeAll(st.u, S)
    IN  IF S = {} THEN st
        ELSE [u |-> m.u,
              bucket |-> [st.bucket EXCEPT ![m.root] = Append(@, lit)],
              merged |-> st.merged \cup {S}]

\* The literals of a clause one after the other, and the clauses.
SaveClause(st, clause) ==
    LET after[n \in 0 .. Len(clause)] ==
            IF n = 0 THEN st ELSE SaveLiteral(after[n - 1], clause[n])
    IN  after[Len(clause)]

SaveAll(st, dnf) ==
    LET after[n \in 0 .. Len(dnf)] == IF n = 0 THEN st ELSE SaveClause(after[n - 1], dnf[n])
    IN  after[Len(dnf)]

State == [u |-> [parent |-> parent, next |-> next, rank |-> rank],
          bucket |-> bucket, merged |-> merged]

\* Mutant: the constraint is saved as if the branch had gone the other way.
Kept_flipped(b, r) == Normal[b][~r]

\* What is kept of branch b with outcome r.
Kept(b, r) == Normal[b][r]

save_constraint(dnf) ==
    \E st \in {SaveAll(State, dnf)} :
        /\ parent' = st.u.parent
        /\ next' = st.u.next
        /\ rank' = st.u.rank
        /\ bucket' = st.bucket
        /\ merged' = st.merged

Unsaved == UNCHANGED <<parent, next, rank, bucket, merged>>

-----------------------------------------------------------------------------
(* parse_cond *)

\* Mutant: the class of the byte is not looked up.
RelatedInputs_alone(l) == DepsOf(l)

\* The bytes whose buckets are searched for the variable with label l.  get_set
\* clears the set it is given, for every byte.
RelatedInputs(l) ==
    IF DepsOf(l) = {} THEN {} ELSE get_set(next, Max(DepsOf(l)))

\* The saved constraints that are added to a clause; a label is added once.
Nested(clause) ==
    LET own == {clause[i].label : i \in 1 .. Len(clause)}
        saved == {lit \in UNION {Range(bucket[b]) : b \in UNION {RelatedInputs(l) : l \in own}} :
                    lit.label \notin own}
    IN  {CHOOSE lit \in saved : lit.label = l : l \in {lit.label : lit \in saved}}

\* The constraints of a clause: literals that are no comparisons are left out.
construct_task(clause) == {lit \in Range(clause) : lit.label \in Labels}

\* The tasks for a clause: its own, and the nested one when there is more to say.
TasksFor(clause) == [clause |-> construct_task(clause), nested |-> Nested(clause)]

\* Branch b is reported; its constraint is kept if add_nested.  A formula that could
\* not be made changes nothing, a constant one is at most cached, and one without a
\* normal form has no tasks and is not kept.
parse_cond(b, add_nested) ==
    LET r == Outcome[b][value]
        dnf == IF RootKind[b] = "Bool" THEN <<>> ELSE Normal[b][~r]
    IN  /\ calls < MaxCalls
        /\ RootKind[b] # "Invalid"
        /\ calls' = calls + 1
        /\ root_expr_cache' = root_expr_cache \cup ({b} \cap Labels)
        /\ tasks' = {TasksFor(c) : c \in {c \in Range(dnf) : construct_task(c) # {}}}
        /\ IF add_nested /\ dnf # <<>> THEN save_constraint(Kept(b, r)) ELSE Unsaved
        /\ UNCHANGED value

\* What add_constraints asks of a comparison: that its result is 1, that it has no
\* formula yet, and that it is a constant equal to something of a reasonable size
\* without a comparison in it.  nested_cmp counts the comparison itself, so that this
\* is true of none unless the count wraps.
Addable(l) ==
    /\ value[l]
    /\ l \notin root_expr_cache
    /\ Scanned[l].nested_cmp = 0
    /\ KindOf[l] = "Equal"
    /\ Scanned[l].constant1
    /\ 2 \notin Scanned[l].large

\* add_constraints: the comparison l of an offset is reported.
add_constraints(l) ==
    /\ calls < MaxCalls
    /\ calls' = calls + 1
    /\ root_expr_cache' = root_expr_cache \cup {k \in {l} : Addable(k)}
    /\ IF Addable(l) THEN save_constraint(<< <<Literal(l, "Equal")>> >>) ELSE Unsaved
    /\ tasks' = {}
    /\ UNCHANGED value

\* restart: a new input.
Fresh ==
    /\ parent' = Singletons.parent
    /\ next' = Singletons.next
    /\ rank' = Singletons.rank
    /\ bucket' = [b \in Bytes |-> <<>>]
    /\ root_expr_cache' = {}
    /\ merged' = {}

restart ==
    /\ calls' = 0
    /\ value' \in [Labels -> BOOLEAN]
    /\ tasks' = {}
    /\ Fresh

Init ==
    /\ value \in [Labels -> BOOLEAN]
    /\ parent = Singletons.parent
    /\ next = Singletons.next
    /\ rank = Singletons.rank
    /\ bucket = [b \in Bytes |-> <<>>]
    /\ root_expr_cache = {}
    /\ tasks = {}
    /\ calls = 0
    /\ merged = {}

Next ==
    \/ \E b \in Conds, add_nested \in BOOLEAN : parse_cond(b, add_nested)
    \/ \E l \in Labels : add_constraints(l)
    \/ restart

Spec == Init /\ [][Next]_vars

-----------------------------------------------------------------------------
(* Properties. *)

\* The bytes connected to those of S by the given sets.
Connected(sets, S) ==
    {y \in Bytes : \A T \in SUBSET Bytes :
        S \subseteq T /\ (\A m \in sets : m \cap T # {} => m \subseteq T) => y \in T}

Saved == UNION {Range(bucket[b]) : b \in Bytes}

\* The forest and the lists describe the same classes, through merges in any
\* order and path compression, and they are the ones the merged sets make.
ClassesAgree ==
    \A x \in Bytes :
        /\ get_set(next, x) = Connected(merged, {x})
        /\ {y \in Bytes : Root(parent, y) = Root(parent, x)} = Connected(merged, {x})

\* Every saved constraint can be found from each of its bytes: later merges move
\* the root of a class away from the bucket, but never the bucket out of the class.
SavedFindable ==
    \A b \in Bytes, x \in Bytes : \A lit \in Range(bucket[b]) :
        x \in DepsOf(lit.label) => b \in get_set(next, x)

\* The saved constraints, other than those of labels, that have a byte connected to
\* one of S.
SavedNear(S, labels) ==
    {lit.label : lit \in {s \in Saved : DepsOf(s.label) \cap Connected(merged, S) # {}}} \ labels

LabelsOf(lits) == {lit.label : lit \in lits}

\* The last bytes of the comparisons of a set.
LastBytes(labels) == {Max(DepsOf(l)) : l \in {k \in labels : DepsOf(k) # {}}}

Exact(t) == LabelsOf(t.nested) = SavedNear(LastBytes(LabelsOf(t.clause)), LabelsOf(t.clause))

\* What a nested task adds to the constraints of its branch: the saved constraints
\* that have to do with the last byte of one of its comparisons, directly or through
\* the constraints saved before, all of these and no others.  (get_set empties the
\* set that parse_cond collects the bytes in, so that only the last byte counts.)
\* The state before the call is the one the tasks were made in.
NestedExact == [][\A t \in tasks' : Exact(t)]_vars

\* What is kept of a branch holds whenever the branch has that outcome: its normal
\* form is one conjunction.
Conjunctive ==
    \A b \in Conds, v \in [Labels -> BOOLEAN] : \A c \in Range(Normal[b][Outcome[b][v]]) :
        \A lit \in Range(c) : lit.label \in Labels => LiteralHolds(lit, KindOf, v)

\* The constraints kept of the path hold for the input that took it, when every
\* branch is Conjunctive (of a disjunction all literals are kept).
SavedHold == \A lit \in Saved : LiteralHolds(lit, KindOf, value)
=============================================================================
