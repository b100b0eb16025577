----------------------------- MODULE TaintCalls -----------------------------
(***************************************************************************)
(* How labels cross calls.  The compiler pass leaves the signature of an   *)
(* instrumented function alone: the caller stores the labels of the        *)
(* arguments in __dfsan_arg_tls, the callee loads them when it starts,     *)
(* and the label of what it returns goes through __dfsan_retval_tls.       *)
(* Functions that are not instrumented have no part in this; the pass      *)
(* gives them wrappers.  The variables are thread-local, so that one       *)
(* thread is modelled, and the signal handlers that interrupt it.          *)
(*                                                                         *)
(* A value carries next to its label the label it ought to have, which is  *)
(* handed from frame to frame and never through the thread-local           *)
(* variables.                                                              *)
(***************************************************************************)
EXTENDS Integers, Sequences, SequencesExt, FiniteSetsExt, Functions

CONSTANTS
    Fns,            \* the functions, records as described below
    Main,           \* the function that runs first
    ArgTLSSize,     \* in labels, like the sizes of parameters and results
    RetvalTLSSize,
    Labels,         \* the labels of the values that Main begins with, all different
    MaxDepth,       \* bound: frames on the stack
    MaxCalls        \* bound: calls, signals and exceptions

(* A function: name; kind; params, the sizes of its parameters; ret, the size of its
   result, 0 for none; calls, the names of the functions it calls, of its callbacks
   when it is not instrumented; cleanup, it has a landing pad that resumes; catches,
   it catches exceptions or calls setjmp; skips, a custom wrapper that may return
   without writing the label of its result.

   Kinds: "instrumented"; "force_zero" (force_zero_labels); "native" (not
   instrumented but defined in the module: its body is instrumented and its ABI is
   kept); "discard", "warning", "functional" and "custom" (external, with a wrapper);
   "vararg" (external, variadic, and its address is taken: it gets no wrapper);
   "wrapper" (the function dfsw$f that the pass builds for f). *)

Kinds == {"instrumented", "force_zero", "native", "discard", "warning", "functional", "custom", "vararg"}
Names == {f.name : f \in Fns}

ASSUME CallsAssumption ==
    /\ ArgTLSSize \in Nat
    /\ RetvalTLSSize \in Nat
    /\ Labels \in Seq(Nat \ {0}) /\ IsInjective(Labels)
    /\ \A f \in Fns :
          /\ f = [name |-> f.name, kind |-> f.kind, params |-> f.params, ret |-> f.ret, calls |-> f.calls,
                  cleanup |-> f.cleanup, catches |-> f.catches, skips |-> f.skips]
          /\ f.kind \in Kinds
          /\ f.params \in Seq(Nat \ {0}) /\ f.ret \in Nat
          /\ f.calls \subseteq Names
          /\ f.cleanup \in BOOLEAN /\ f.catches \in BOOLEAN /\ f.skips \in BOOLEAN
          /\ f.name = "handler" => f.kind = "instrumented"
    /\ \A f, g \in Fns : f.name = g.name => f = g
    /\ \E f \in Fns : f.name = Main /\ f.kind = "instrumented"

VARIABLES
    stack,          \* frames, the one that runs last
    arg_tls,
    retval_tls,
    callstack,      \* __taint_trace_callstack, as the names whose hashes it combines
    frames,         \* what __taint_push_stack_frame and __taint_pop_stack_frame keep
    calls,          \* how many calls have been made
    lost,           \* some frame was left without __taint_pop_stack_frame
    slip            \* a signal has come between a store and its load

vars == <<stack, arg_tls, retval_tls, callstack, frames, calls, lost, slip>>

Unknown == -1       \* the label a value ought to have when nothing defines it
Junk == -2          \* what uninitialised memory holds

Value(label, exp) == [label |-> label, exp |-> exp]
Zero == Value(0, 0)

Fn(name) == CHOOSE f \in Fns : f.name = name

\* Functions whose code is not compiled by the pass.
External == {"discard", "warning", "functional", "custom", "vararg"}
Compiled(f) == f.kind \notin External

\* getWrapperKind: calls of these go through UnwrappedFnMap.
Wrapped(f) == f.kind \in {"discard", "warning", "functional", "custom", "native"}

\* buildWrapperFunction: dfsw$f, which calls f and returns what it returns.
WrapperOf(f) ==
    [f EXCEPT !.kind = "wrapper", !.calls = {f.name}, !.cleanup = FALSE, !.catches = FALSE, !.skips = FALSE]

Top == Last(stack)
Depth == Len(stack)

\* A frame: pc is "entry" before the labels of its arguments are loaded, "run", "call"
\* while it waits for a callee, and "load" before it loads the label of a result.
Frame(f, args, from) ==
    [fn |-> f, args |-> args, res |-> Zero, pc |-> IF Compiled(f) THEN "entry" ELSE "run",
     lcs |-> <<>>, labelreturn |-> Junk, from |-> from, dirty |-> FALSE]

NoLabels(f) == [i \in DOMAIN f.params |-> Zero]

Values(fr) == Range(fr.args) \cup {fr.res, Zero}

-----------------------------------------------------------------------------
(* The layout of the arguments. *)

\* Where argument i begins: after the ones before it.
OffsetOf(params, i) ==
    LET sum[j \in 1 .. Len(params) + 1] == IF j = 1 THEN 0 ELSE sum[j - 1] + params[j - 1]
    IN  sum[i]

\* visitCallBase: stores end at the first argument that does not fit.
Stored(params, i) == \A j \in 1 .. i : OffsetOf(params, j) + params[j] <= ArgTLSSize

StoreArgs(f, args) ==
    [k \in 1 .. ArgTLSSize |->
        LET at == {i \in DOMAIN args : /\ Stored(f.params, i)
                                       /\ OffsetOf(f.params, i) < k
                                       /\ k <= OffsetOf(f.params, i) + f.params[i]}
        IN  IF at = {} THEN arg_tls[k] ELSE args[CHOOSE i \in at : TRUE].label]

\* Mutant: an argument is found by its number.
LoadArgNumbered(f, i) == IF i <= ArgTLSSize THEN arg_tls[i] ELSE 0

\* getShadowForTLSArgument: the offset is followed until it leaves the array.
LoadArg(f, i) ==
    IF /\ \A j \in 1 .. i : OffsetOf(f.params, j) <= ArgTLSSize
       /\ OffsetOf(f.params, i) + f.params[i] <= ArgTLSSize
    THEN arg_tls[OffsetOf(f.params, i) + 1]
    ELSE 0

\* What the callee ought to see: the arguments that fit all together.
Passed(f, args) ==
    [i \in DOMAIN args |-> Value(Junk, IF OffsetOf(f.params, i + 1) <= ArgTLSSize THEN args[i].exp ELSE 0)]

-----------------------------------------------------------------------------

Init ==
    /\ stack = <<[Frame(Fn(Main), [i \in DOMAIN Labels |-> Value(Labels[i], Labels[i])], "call")
                    EXCEPT !.pc = "run"]>>
    /\ arg_tls = [k \in 1 .. ArgTLSSize |-> 0]
    /\ retval_tls = 0
    /\ callstack = <<Main>>
    /\ frames = <<Main>>
    /\ calls = 0
    /\ lost = FALSE
    /\ slip = FALSE

Push(top, fr) ==
    /\ Depth < MaxDepth
    /\ calls < MaxCalls
    /\ calls' = calls + 1
    /\ stack' = Append(Front(stack), top) \o <<fr>>

\* The arguments a frame can pass: dfsw$f hands its own on.
ArgsFor(fr, f) ==
    IF fr.fn.kind = "wrapper" THEN {fr.args} ELSE [1 .. Len(f.params) -> Values(fr)]

Running == Depth > 0 /\ Top.pc = "run" /\ ~slip

\* The caller during a call: dfsw$f calls f once.
Waiting ==
    IF Top.fn.kind = "wrapper" THEN [Top EXCEPT !.pc = "call", !.fn.calls = {}]
    ELSE [Top EXCEPT !.pc = "call"]

\* Who stores labels for the callee: code that was compiled by the pass, and a custom
\* wrapper, which calls back through a trampoline (getOrBuildTrampolineFunction) that
\* passes the labels it is given on like an instrumented caller.
PassesLabels(fr) == Compiled(fr.fn) \/ fr.fn.kind = "custom"

\* visitCallBase.  how is "call", "invoke" or "indirect"; a wrapped function is called
\* through dfsw$f when its address was taken, and when a custom one is invoked.
CallTLS(f, how, args) ==
    /\ Running
    /\ PassesLabels(Top)
    /\ Wrapped(f) => how = "indirect" \/ (how = "invoke" /\ f.kind = "custom")
    /\ arg_tls' = StoreArgs(f, args)
    /\ Push(Waiting, IF Wrapped(f) THEN Frame(WrapperOf(f), Passed(f, args), "call")
                     ELSE Frame(f, IF Compiled(f) THEN Passed(f, args) ELSE NoLabels(f), "call"))
    /\ UNCHANGED <<retval_tls, callstack, frames, lost, slip>>

\* addShadowArguments for a custom wrapper.  The other functions keep their ABI and see
\* no labels (the first cases of visitWrappedCallBase).
ShadowArguments(f, args) == IF f.kind = "custom" THEN args ELSE NoLabels(f)

\* visitWrappedCallBase: the function itself, or __dfsw_f with the labels as arguments.
CallWrapped(f, how, args) ==
    /\ Running
    /\ Compiled(Top.fn)
    /\ Wrapped(f)
    /\ how # "indirect"
    /\ f.kind = "custom" => how = "call"
    /\ Push(Waiting, Frame(f, ShadowArguments(f, args), "call"))
    /\ UNCHANGED <<arg_tls, retval_tls, callstack, frames, lost, slip>>

\* Native code calls back without a word about labels.
CallNative(f) ==
    /\ Running
    /\ ~Compiled(Top.fn)
    /\ Top.fn.kind # "custom"
    /\ f.kind = "instrumented"
    /\ Push(Waiting, Frame(f, [i \in DOMAIN f.params |-> Value(Junk, Unknown)], "native"))
    /\ UNCHANGED <<arg_tls, retval_tls, callstack, frames, lost, slip>>

\* A signal handler is such a callback too, and comes at any moment.
Signal(f) ==
    /\ Depth > 0
    /\ ~slip
    /\ f.name = "handler"
    /\ Top.pc # "call"
    /\ \A k \in DOMAIN stack : stack[k].from # "signal"
    /\ slip' = (Top.pc \in {"entry", "load"})
    /\ Push(Top, Frame(f, [i \in DOMAIN f.params |-> Value(Junk, Unknown)], "signal"))
    /\ UNCHANGED <<arg_tls, retval_tls, callstack, frames, lost>>

\* Mutant: dfsw$f has a frame of its own.
FramedWrapper(f) == TRUE

\* addFrameTracing is not for dfsw$f.
Framed(f) == f.kind # "wrapper"

\* The entry of an instrumented function: addContextRecording, addFrameTracing, and
\* the labels of the arguments (getShadow).
Enter ==
    /\ Depth > 0
    /\ ~slip
    /\ Top.pc = "entry"
    /\ stack' = [stack EXCEPT ![Depth] =
          [@ EXCEPT !.pc = "run", !.lcs = callstack,
                    !.args = [i \in DOMAIN Top.args |->
                        IF Top.fn.kind \in {"force_zero", "native"} THEN Zero
                        ELSE Value(LoadArg(Top.fn, i), Top.args[i].exp)]]]
    /\ callstack' = Append(callstack, Top.fn.name)
    /\ frames' = IF Framed(Top.fn) THEN Append(frames, Top.fn.name) ELSE frames
    /\ UNCHANGED <<arg_tls, retval_tls, calls, lost, slip>>

\* The caller after its callee has returned: how the result comes is known where the call is
\* compiled.
Returned(caller, f, from, v) ==
    IF from = "signal" THEN caller
    ELSE IF from = "native" \/ f.ret = 0 THEN [caller EXCEPT !.pc = "run"]
    ELSE IF f.kind \in {"instrumented", "force_zero", "wrapper", "vararg"} /\ f.ret <= RetvalTLSSize
    THEN [caller EXCEPT !.pc = "load", !.res = Value(Junk, v.exp)]
    ELSE [caller EXCEPT !.pc = "run", !.res = Zero]

\* A result whose labels do not fit has none, for the caller and for the callee.
RetvalFits(f) == f.ret <= RetvalTLSSize

\* Mutant: the context is left as the function made it.
RestoredKept(fr) == IF fr.fn.cleanup THEN callstack ELSE fr.lcs

\* addContextRecording: the context that the function was entered with.
Restored(fr) == fr.lcs

\* visitReturnInst
Return(v) ==
    /\ Running
    /\ Depth > 1
    /\ Compiled(Top.fn)
    /\ Top.fn.kind = "wrapper" => Top.fn.calls = {} /\ v = Top.res
    /\ LET f == Top.fn
       IN  /\ retval_tls' = IF f.kind # "native" /\ f.ret > 0 /\ RetvalFits(f) THEN v.label ELSE retval_tls
           /\ stack' = [Front(stack) EXCEPT ![Depth - 1] = Returned(@, f, Top.from, v)]
           /\ callstack' = Restored(Top)
           /\ frames' = IF Framed(f) THEN Front(frames) ELSE frames
    /\ UNCHANGED <<arg_tls, calls, lost, slip>>

\* External code returns.  A custom wrapper writes the label of its result to the
\* variable the calling function has for all of them, or leaves it.
ReturnNative(v, writes) ==
    /\ Running
    /\ ~Compiled(Top.fn)
    /\ writes \/ Top.fn.skips
    /\ LET f == Top.fn
           caller == stack[Depth - 1]
           label == IF writes THEN v.label ELSE caller.labelreturn
       IN  stack' = [Front(stack) EXCEPT ![Depth - 1] =
               IF f.kind = "custom"
               THEN [caller EXCEPT !.pc = "run", !.labelreturn = label,
                                   !.res = Value(label, IF writes THEN v.exp ELSE Unknown)]
               ELSE Returned(caller, f, "call", Value(0, Unknown))]
    /\ UNCHANGED <<arg_tls, retval_tls, callstack, frames, calls, lost, slip>>

\* The end of a call in visitCallBase.
LoadResult ==
    /\ Depth > 0
    /\ ~slip
    /\ Top.pc = "load"
    /\ stack' = [stack EXCEPT ![Depth].pc = "run",
                              ![Depth].res = IF Top.fn.kind = "force_zero" THEN Zero
                                             ELSE Value(retval_tls, Top.res.exp)]
    /\ UNCHANGED <<arg_tls, retval_tls, callstack, frames, calls, lost, slip>>

\* The frames that are left, above frame k, and have entered.
Unwound(k) == {j \in k + 1 .. Depth : Compiled(stack[j].fn) /\ stack[j].pc # "entry"}

\* The function at or below frame k whose return restores the context.
Restorer(k) == Max({j \in 1 .. k : Compiled(stack[j].fn)})

\* An exception, or longjmp: the stack is cut back to the frame that catches.  On the way
\* a landing pad that resumes restores the context and pops its frame; the other
\* functions are left without a word, and all of them by longjmp.
Unwind(k, throw) ==
    /\ Running
    /\ Compiled(Top.fn)
    /\ calls < MaxCalls
    /\ k < Depth
    /\ stack[k].fn.catches
    /\ \A j \in k + 1 .. Depth : ~stack[j].fn.catches /\ stack[j].from # "signal"
    /\ LET resumed == {j \in Unwound(k) \ {Depth} : throw /\ stack[j].fn.cleanup}
           popped == {j \in resumed : Framed(stack[j].fn)}
           left == {j \in Unwound(k) \ resumed : Framed(stack[j].fn)}
       IN  /\ stack' = [SubSeq(stack, 1, k) EXCEPT
                            ![k].pc = "run",
                            ![Restorer(k)].dirty = @ \/ Min(Unwound(k)) \notin resumed]
           /\ callstack' = IF resumed = {} THEN callstack ELSE Restored(stack[Min(resumed)])
           /\ frames' = SubSeq(frames, 1, Len(frames) - Cardinality(popped))
           /\ lost' = (lost \/ left # {})
    /\ calls' = calls + 1
    /\ UNCHANGED <<arg_tls, retval_tls, slip>>

Next ==
    \/ /\ Running
       /\ \E f \in {Fn(n) : n \in Top.fn.calls} :
              \/ \E how \in {"call", "invoke", "indirect"}, args \in ArgsFor(Top, f) :
                     CallTLS(f, how, args) \/ CallWrapped(f, how, args)
              \/ CallNative(f)
    \/ \E f \in Fns : Signal(f)
    \/ Enter
    \/ LoadResult
    \/ /\ Running
       /\ \E v \in Values(Top) : Return(v) \/ \E writes \in BOOLEAN : ReturnNative(v, writes)
    \/ \E k \in DOMAIN stack, throw \in BOOLEAN : Unwind(k, throw)

Spec == Init /\ [][Next]_vars

-----------------------------------------------------------------------------
(* Properties. *)

\* A frame's values that are complete.
Loaded(fr) ==
    IF fr.pc = "entry" THEN {} ELSE Range(fr.args) \cup (IF fr.pc = "load" THEN {} ELSE {fr.res})

\* Labels follow their values through calls: an argument and a result that instrumented
\* code passes on carries the label of its value and never that of another call,
\* however calls, callbacks through trampolines, handlers, exceptions, wrappers and
\* arguments that do not fit follow one another (visitCallBase, visitReturnInst).
LabelsFollow ==
    ~slip => \A k \in DOMAIN stack : \A v \in Loaded(stack[k]) : v.exp # Unknown => v.label = v.exp

\* For each k, the names of those of the first k frames of s that have been entered
\* and are not of the kinds that are hidden.
EnteredNames(s, hidden) ==
    LET names[k \in 0 .. Len(s)] ==
            IF k = 0 THEN <<>>
            ELSE IF s[k].fn.kind \in hidden \/ s[k].pc = "entry" THEN names[k - 1]
            ELSE Append(names[k - 1], s[k].fn.name)
    IN  names

\* The context is that of the call stack, and what an exception or a longjmp has
\* left behind is gone when the function that caught it returns
\* (addContextRecording).
ContextFollows ==
    (\A k \in DOMAIN stack : ~stack[k].dirty) => callstack = EnteredNames(stack, External)[Depth]

\* The stack frames of the bounds tracking are those of the call stack, without the
\* wrappers, as long as no function was left without its landing pad
\* (addFrameTracing).
FramesFollow ==
    ~lost => frames = EnteredNames(stack, External \cup {"wrapper"})[Depth]
=============================================================================
