----------------------------- MODULE LabelStore -----------------------------
(***************************************************************************)
(* What the union table promises to the threads that share it: labels are  *)
(* names for expressions.  A thread asks for an expression and is answered *)
(* in one atomic step, with a label that already names it or with a new    *)
(* label.  Names never change and are never withdrawn.  Two threads that   *)
(* ask at the same time may be given two names for one expression.         *)
(***************************************************************************)
CONSTANTS
    Threads,
    Given,          \* labels that exist from the start
    Expressions,    \* expressions that can be asked for
    Same(_, _),     \* when two expressions are the same request
    None            \* not an expression

VARIABLES
    names,      \* the expression each label names, for the labels given out
    asked,      \* the expression each thread is waiting for, or None
    answer      \* the label each thread was last given

vars == <<names, asked, answer>>

Known == Given \cup DOMAIN names

Init ==
    /\ names = [l \in {} |-> None]
    /\ asked = [t \in Threads |-> None]
    /\ answer \in [Threads -> Known]

\* A thread asks for an expression.
Ask(t) ==
    /\ asked[t] = None
    /\ asked'[t] \in Expressions
    /\ asked' = [asked EXCEPT ![t] = asked'[t]]
    /\ answer' = [answer EXCEPT ![t] = answer'[t]]
    /\ UNCHANGED names

\* A request that needs no name of its own is answered with a known label.
Simplify(t) ==
    /\ asked[t] = None
    /\ answer'[t] \in Known
    /\ answer' = [answer EXCEPT ![t] = answer'[t]]
    /\ UNCHANGED <<names, asked>>

\* The thread is answered with label l.
Answer(t, l) ==
    /\ asked[t] # None
    /\ answer' = [answer EXCEPT ![t] = l]
    /\ asked' = [asked EXCEPT ![t] = None]

\* ... a label that names the expression already,
Reuse(t) ==
    \E l \in DOMAIN names :
        /\ Same(names[l], asked[t])
        /\ Answer(t, l)
        /\ UNCHANGED names

\* ... or a new one.
Name(t) ==
    \E l \in DOMAIN names' \ Known :
        /\ DOMAIN names' = DOMAIN names \cup {l}
        /\ names' = [m \in DOMAIN names \cup {l} |->
                        IF m = l THEN asked[t] ELSE names[m]]
        /\ Answer(t, l)

Next == \E t \in Threads : Ask(t) \/ Simplify(t) \/ Reuse(t) \/ Name(t)

Spec == Init /\ [][Next]_vars
=============================================================================
