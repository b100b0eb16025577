---------------------------- MODULE MCTaintCalls ----------------------------
(* The instance of TaintCalls that TLC checks. *)
EXTENDS TaintCalls

F(name, kind, params, ret, callees) ==
    [name |-> name, kind |-> kind, params |-> params, ret |-> ret, calls |-> callees,
     cleanup |-> FALSE, catches |-> FALSE, skips |-> FALSE]

\* Three arguments of which two fit, results that just fit and do not fit, and a function of
\* every kind.
MCFns ==
    {[F("main", "instrumented", <<1, 1>>, 1, {"f", "custom", "native", "sort", "printf"}) EXCEPT !.catches = TRUE],
     [F("f", "instrumented", <<2, 1, 1>>, 3, {"g", "zero", "custom"}) EXCEPT !.cleanup = TRUE],
     F("g", "instrumented", <<1>>, 4, {"f"}),
     F("zero", "force_zero", <<1>>, 1, {"g"}),
     F("native", "native", <<1>>, 1, {"f"}),
     [F("sort", "discard", <<1>>, 0, {"g"}) EXCEPT !.catches = TRUE],
     F("printf", "vararg", <<1>>, 1, {}),
     [F("custom", "custom", <<1, 1>>, 1, {"g"}) EXCEPT !.skips = TRUE],
     F("handler", "instrumented", <<1>>, 0, {"g"})}

MCLabels == <<1, 2>>
=============================================================================
