-------------------------- MODULE TaintCallsProofs --------------------------
(***************************************************************************)
(* Proofs about TaintCalls for any program and any sizes of the            *)
(* thread-local arrays: labels, context and stack frames follow the calls. *)
(***************************************************************************)
EXTENDS TaintCalls, SequenceTheorems, FiniteSetTheorems, WellFoundedInduction, TLAPS

Function == [name : Names, kind : Kinds \cup {"wrapper"}, params : Seq(Nat \ {0}), ret : Nat,
             calls : SUBSET Names, cleanup : BOOLEAN, catches : BOOLEAN, skips : BOOLEAN]

AnyValue == [label : Int, exp : Int]

AnyFrame == [fn : Function, args : Seq(AnyValue), res : AnyValue,
             pc : {"entry", "run", "call", "load"}, lcs : Seq(Names), labelreturn : Int,
             from : {"call", "native", "signal"}, dirty : BOOLEAN]

Types ==
    /\ stack \in Seq(AnyFrame)
    /\ arg_tls \in [1 .. ArgTLSSize -> Int]
    /\ retval_tls \in Int
    /\ callstack \in Seq(Names)
    /\ frames \in Seq(Names)
    /\ lost \in BOOLEAN
    /\ slip \in BOOLEAN

\* Main is at the bottom; a frame waits for the one above it or was interrupted by it,
\* and until a signal comes between a store and its load, only the last one has labels
\* to load.
OrderPart ==
    /\ Depth > 0
    /\ stack[1].fn.kind = "instrumented"
    /\ \A k \in 1 .. Depth - 1 : stack[k].pc = "call" \/ stack[k + 1].from = "signal"
    /\ ~slip => \A k \in 1 .. Depth - 1 : stack[k].pc \in {"run", "call"}

\* External code has no entry, is called, and restores nothing.  A function that has
\* not entered is as it was called, and a wrapper has the arguments of its function.
FramePart ==
    \A k \in 1 .. Depth :
        /\ ~Compiled(stack[k].fn) => /\ stack[k].from = "call" /\ stack[k].pc # "entry"
                                     /\ ~stack[k].dirty
        /\ stack[k].pc = "entry" => ~stack[k].dirty /\ stack[k].res = Zero
        /\ stack[k].pc = "entry" \/ stack[k].fn.kind = "wrapper" =>
               Len(stack[k].args) = Len(stack[k].fn.params)
        /\ stack[k].fn.kind = "wrapper" =>
               \A n \in stack[k].fn.calls : Fn(n).params = stack[k].fn.params

\* Below the first frame that an exception left dirty, every function knows the context
\* it was called in.
ContextPart ==
    /\ \A k \in 1 .. Depth :
          Compiled(stack[k].fn) /\ stack[k].pc # "entry" /\ (\A j \in 1 .. k - 1 : ~stack[j].dirty) =>
              stack[k].lcs = EnteredNames(stack, External)[k - 1]
    /\ ContextFollows

Good(v) == v.exp # Unknown => v.label = v.exp

\* What the frames hold is right, and so is what the last one is about to load.
LabelPart ==
    ~slip =>
        /\ \A k \in 1 .. Depth : \A v \in Loaded(stack[k]) : Good(v)
        /\ Top.pc = "load" => Good(Value(retval_tls, Top.res.exp))
        /\ Top.pc = "entry" /\ Top.fn.kind \notin {"force_zero", "native"} =>
              \A i \in 1 .. Len(Top.args) : Good(Value(LoadArg(Top.fn, i), Top.args[i].exp))

Inv == Types /\ OrderPart /\ FramePart /\ ContextPart /\ FramesFollow /\ LabelPart

-----------------------------------------------------------------------------
(* The recursive definitions: each exists, by a least counterexample. *)

\* A set of naturals that is not empty has a least element.
LEMMA Least ==
    ASSUME NEW T, T \subseteq Nat, T # {}
    PROVE  \E m \in T : \A k \in T : m <= k
<1>1. PICK m \in T : \A k \in T : <<k, m>> \notin OpToRel(<, Nat)
  BY NatLessThanWellFounded, WFMin
<1>2. \A a, b \in Nat : a < b => <<a, b>> \in OpToRel(<, Nat)
  BY DEF OpToRel
<1>3. ASSUME NEW k \in T
      PROVE  m <= k
  <2>1. m \in Nat /\ k \in Nat
    OBVIOUS
  <2>2. ~(k < m)
    BY <1>1, <1>2, <2>1, Zenon
  <2> QED
    BY <2>1, <2>2
<1> QED
  BY <1>3

\* The equation of EnteredNames.
NamesStep(f, s, hidden, k) ==
    IF k = 0 THEN <<>>
    ELSE IF s[k].fn.kind \in hidden \/ s[k].pc = "entry" THEN f[k - 1]
    ELSE Append(f[k - 1], s[k].fn.name)

\* A function satisfies it.
LEMMA NamesExist ==
    ASSUME NEW s, NEW hidden, NEW n \in Nat
    PROVE  \E f : f = [k \in 0 .. n |-> NamesStep(f, s, hidden, k)]
<1> DEFINE Solved(m) == \E f : f = [k \in 0 .. m |-> NamesStep(f, s, hidden, k)]
           T == {m \in Nat : ~Solved(m)}
<1>1. SUFFICES T = {}
  OBVIOUS
<1>2. ASSUME T # {}
      PROVE  FALSE
  <2>1. PICK m \in T : \A k \in T : m <= k
    <3>1. T \subseteq Nat
      OBVIOUS
    <3> QED
      BY <1>2, <3>1, Least
  <2>2. m \in Nat /\ ~Solved(m)
    OBVIOUS
  <2>3. m # 0
    <3>1. [k \in 0 .. 0 |-> <<>>] = [k \in 0 .. 0 |-> NamesStep([j \in 0 .. 0 |-> <<>>], s, hidden, k)]
      BY DEF NamesStep
    <3>2. Solved(0)
      BY <3>1
    <3> QED
      BY <2>2, <3>2
  <2>4. m - 1 \in Nat /\ m - 1 \notin T
    BY <2>1, <2>2, <2>3
  <2>5. PICK f : f = [k \in 0 .. m - 1 |-> NamesStep(f, s, hidden, k)]
    BY <2>4
  <2> DEFINE g == [k \in 0 .. m |-> NamesStep(f, s, hidden, k)]
  <2>6. \A k \in 0 .. m - 1 : f[k] = NamesStep(f, s, hidden, k)
    BY <2>5, Zenon
  <2>7. ASSUME NEW k \in 0 .. m - 1
        PROVE  g[k] = f[k]
    <3>1. k \in 0 .. m
      BY <2>2
    <3>2. g[k] = NamesStep(f, s, hidden, k)
      BY <3>1
    <3> QED
      BY <2>6, <3>2
  <2>8. ASSUME NEW k \in 0 .. m
        PROVE  NamesStep(f, s, hidden, k) = NamesStep(g, s, hidden, k)
    <3>1. k # 0 => f[k - 1] = g[k - 1]
      <4>1. k # 0 => k - 1 \in 0 .. m - 1
        BY <2>2
      <4> HIDE DEF g
      <4> QED
        BY <2>7, <4>1
    <3> HIDE DEF g
    <3> QED
      BY <3>1 DEF NamesStep
  <2>9. g = [k \in 0 .. m |-> NamesStep(g, s, hidden, k)]
    BY <2>8
  <2> QED
    BY <2>2, <2>9
<1> QED
  BY <1>2

\* EnteredNames does.
LEMMA NamesDef ==
    ASSUME NEW s, Len(s) \in Nat, NEW hidden
    PROVE  EnteredNames(s, hidden)
             = [k \in 0 .. Len(s) |-> NamesStep(EnteredNames(s, hidden), s, hidden, k)]
<1> DEFINE names[k \in 0 .. Len(s)] ==
            IF k = 0 THEN <<>>
            ELSE IF s[k].fn.kind \in hidden \/ s[k].pc = "entry" THEN names[k - 1]
            ELSE Append(names[k - 1], s[k].fn.name)
<1>1. EnteredNames(s, hidden) = names
  BY DEF EnteredNames
<1>2. names = CHOOSE f : f = [k \in 0 .. Len(s) |-> NamesStep(f, s, hidden, k)]
  BY DEF NamesStep
<1>3. PICK f : f = [k \in 0 .. Len(s) |-> NamesStep(f, s, hidden, k)]
  BY NamesExist
<1> HIDE DEF names
<1>4. names = [k \in 0 .. Len(s) |-> NamesStep(names, s, hidden, k)]
  BY <1>2, <1>3
<1> QED
  BY <1>1, <1>4

\* The names, frame by frame.
LEMMA NamesAt ==
    ASSUME NEW S, NEW s \in Seq(S), NEW hidden
    PROVE  /\ EnteredNames(s, hidden)[0] = <<>>
           /\ \A k \in 1 .. Len(s) : EnteredNames(s, hidden)[k] =
                 IF s[k].fn.kind \in hidden \/ s[k].pc = "entry" THEN EnteredNames(s, hidden)[k - 1]
                 ELSE Append(EnteredNames(s, hidden)[k - 1], s[k].fn.name)
<1>1. Len(s) \in Nat
  OBVIOUS
<1> DEFINE names == EnteredNames(s, hidden)
<1>2. names = [k \in 0 .. Len(s) |-> NamesStep(names, s, hidden, k)]
  BY <1>1, NamesDef
<1> HIDE DEF names
<1>3. \A k \in 0 .. Len(s) : names[k] = NamesStep(names, s, hidden, k)
  BY <1>2, Zenon
<1>4. names[0] = <<>>
  BY <1>1, <1>3 DEF NamesStep
<1>5. \A k \in 1 .. Len(s) : k \in 0 .. Len(s) /\ k # 0
  BY <1>1
<1>6. \A k \in 1 .. Len(s) : names[k] =
                 IF s[k].fn.kind \in hidden \/ s[k].pc = "entry" THEN names[k - 1]
                 ELSE Append(names[k - 1], s[k].fn.name)
  BY <1>3, <1>5 DEF NamesStep
<1> QED
  BY <1>4, <1>6 DEF names

\* Stacks whose first n frames are of the same functions, entered or not, have the same
\* names there.
LEMMA NamesAgree ==
    ASSUME NEW S, NEW s \in Seq(S), NEW t \in Seq(S), NEW hidden,
           NEW n \in Nat, n <= Len(s), n <= Len(t),
           \A k \in 1 .. n : /\ t[k].fn.kind = s[k].fn.kind
                             /\ t[k].fn.name = s[k].fn.name
                             /\ t[k].pc = "entry" <=> s[k].pc = "entry"
    PROVE  \A k \in 0 .. n : EnteredNames(t, hidden)[k] = EnteredNames(s, hidden)[k]
<1> DEFINE a == EnteredNames(s, hidden)
           b == EnteredNames(t, hidden)
           T == {k \in 0 .. n : b[k] # a[k]}
<1>1. /\ a[0] = <<>>
      /\ \A k \in 1 .. Len(s) : a[k] = IF s[k].fn.kind \in hidden \/ s[k].pc = "entry" THEN a[k - 1]
                                       ELSE Append(a[k - 1], s[k].fn.name)
  BY NamesAt
<1>2. /\ b[0] = <<>>
      /\ \A k \in 1 .. Len(t) : b[k] = IF t[k].fn.kind \in hidden \/ t[k].pc = "entry" THEN b[k - 1]
                                       ELSE Append(b[k - 1], t[k].fn.name)
  BY NamesAt
<1> HIDE DEF a, b
<1>3. ASSUME T # {}
      PROVE  FALSE
  <2>1. T \subseteq Nat
    OBVIOUS
  <2>2. PICK m \in T : \A k \in T : m <= k
    BY <1>3, <2>1, Least
  <2>3. m # 0
    BY <1>1, <1>2
  <2>4. m \in 1 .. n /\ m \in 1 .. Len(s) /\ m \in 1 .. Len(t) /\ m - 1 \in 0 .. n /\ m - 1 \notin T
    BY <2>2, <2>3
  <2>5. a[m - 1] = b[m - 1]
    BY <2>4
  <2>6. a[m] = b[m]
    BY <1>1, <1>2, <2>4, <2>5
  <2> QED
    BY <2>6
<1> QED
  BY <1>3 DEF a, b

\* They are sequences of names.
LEMMA NamesType ==
    ASSUME NEW S, NEW s \in Seq(S), NEW hidden, NEW N,
           \A k \in 1 .. Len(s) : s[k].fn.name \in N
    PROVE  \A k \in 0 .. Len(s) : EnteredNames(s, hidden)[k] \in Seq(N)
<1> DEFINE a == EnteredNames(s, hidden)
           T == {k \in 0 .. Len(s) : a[k] \notin Seq(N)}
<1>1. /\ a[0] = <<>>
      /\ \A k \in 1 .. Len(s) : a[k] = IF s[k].fn.kind \in hidden \/ s[k].pc = "entry" THEN a[k - 1]
                                       ELSE Append(a[k - 1], s[k].fn.name)
  BY NamesAt
<1> HIDE DEF a
<1>2. ASSUME T # {}
      PROVE  FALSE
  <2>1. T \subseteq Nat
    OBVIOUS
  <2>2. PICK m \in T : \A k \in T : m <= k
    BY <1>2, <2>1, Least
  <2>3. m # 0
    <3>1. <<>> \in Seq(N)
      OBVIOUS
    <3> QED
      BY <1>1, <3>1
  <2>4. m \in 1 .. Len(s) /\ m - 1 \in 0 .. Len(s) /\ m - 1 \notin T
    BY <2>2, <2>3
  <2>5. a[m - 1] \in Seq(N)
    BY <2>4
  <2>6. a[m] \in Seq(N)
    <3>1. s[m].fn.name \in N
      BY <2>4
    <3>2. Append(a[m - 1], s[m].fn.name) \in Seq(N)
      BY <2>5, <3>1
    <3> QED
      BY <1>1, <2>4, <2>5, <3>2
  <2> QED
    BY <2>6
<1> QED
  BY <1>2 DEF a

\* One more element.
LEMMA OneMore ==
    \A A, B, x : B = A \cup {x} /\ x \notin A /\ IsFiniteSet(A) =>
        IsFiniteSet(B) /\ Cardinality(B) = Cardinality(A) + 1
<1>1. ASSUME NEW A, NEW x, x \notin A, IsFiniteSet(A)
      PROVE  IsFiniteSet(A \cup {x}) /\ Cardinality(A \cup {x}) = Cardinality(A) + 1
  <2>1. /\ IsFiniteSet(A \cup {x})
        /\ Cardinality(A \cup {x}) = IF x \in A THEN Cardinality(A) ELSE Cardinality(A) + 1
    BY <1>1, FS_AddElement
  <2>2. Cardinality(A) \in Nat
    BY <1>1, FS_CardinalityType
  <2> QED
    BY <1>1, <2>1, <2>2
<1> QED
  BY <1>1

\* The names of the first j frames begin those of the first n, and the others are as
\* many as the frames that are shown.
LEMMA NamesPrefix ==
    ASSUME NEW S, NEW s \in Seq(S), NEW hidden, NEW N,
           \A k \in 1 .. Len(s) : s[k].fn.name \in N,
           NEW j \in 0 .. Len(s)
    PROVE  \A n \in j .. Len(s) :
             LET shown == {k \in j + 1 .. n : s[k].fn.kind \notin hidden /\ s[k].pc # "entry"}
             IN  /\ IsFiniteSet(shown)
                 /\ Len(EnteredNames(s, hidden)[n]) = Len(EnteredNames(s, hidden)[j]) + Cardinality(shown)
                 /\ SubSeq(EnteredNames(s, hidden)[n], 1, Len(EnteredNames(s, hidden)[j]))
                       = EnteredNames(s, hidden)[j]
<1> DEFINE a == EnteredNames(s, hidden)
           shown(n) == {k \in j + 1 .. n : s[k].fn.kind \notin hidden /\ s[k].pc # "entry"}
           Fine(n) == /\ IsFiniteSet(shown(n))
                      /\ Len(a[n]) = Len(a[j]) + Cardinality(shown(n))
                      /\ SubSeq(a[n], 1, Len(a[j])) = a[j]
           T == {n \in j .. Len(s) : ~Fine(n)}
<1>1. /\ a[0] = <<>>
      /\ \A k \in 1 .. Len(s) : a[k] = IF s[k].fn.kind \in hidden \/ s[k].pc = "entry" THEN a[k - 1]
                                       ELSE Append(a[k - 1], s[k].fn.name)
  BY NamesAt
<1>2. \A k \in 0 .. Len(s) : a[k] \in Seq(N)
  BY NamesType
<1> HIDE DEF a
<1>3. j \in Nat /\ Len(s) \in Nat /\ j <= Len(s)
  OBVIOUS
<1>4. Fine(j)
  <2>1. shown(j) = {}
    BY <1>3
  <2>2. IsFiniteSet(shown(j)) /\ Cardinality(shown(j)) = 0
    BY <2>1, FS_EmptySet
  <2>3. a[j] \in Seq(N)
    BY <1>2
  <2>4. SubSeq(a[j], 1, Len(a[j])) = a[j]
    BY <2>3
  <2>5. Len(a[j]) = Len(a[j]) + 0
    BY <2>3
  <2> QED
    BY <2>2, <2>4, <2>5
<1>5. ASSUME T # {}
      PROVE  FALSE
  <2>1. T \subseteq Nat
    BY <1>3
  <2>2. PICK m \in T : \A k \in T : m <= k
    BY <1>5, <2>1, Least
  <2>3. m # j
    BY <1>4
  <2>4. m \in 1 .. Len(s) /\ m - 1 \in j .. Len(s) /\ m - 1 \notin T /\ m - 1 \in 0 .. Len(s) /\ m \in Nat
    <3> HIDE DEF Fine
    <3> QED
      BY <2>2, <2>3, <1>3
  <2>5. Fine(m - 1)
    BY <2>4
  <2>6. a[m - 1] \in Seq(N) /\ a[j] \in Seq(N) /\ s[m].fn.name \in N
    BY <1>2, <2>4
  <2>7. CASE s[m].fn.kind \in hidden \/ s[m].pc = "entry"
    <3>1. shown(m) = shown(m - 1)
      BY <2>4, <2>7, <1>3
    <3>2. a[m] = a[m - 1]
      BY <1>1, <2>4, <2>7
    <3>3. Fine(m)
      BY <2>5, <3>1, <3>2
    <3> QED
      BY <3>3
  <2>8. CASE s[m].fn.kind \notin hidden /\ s[m].pc # "entry"
    <3>1. shown(m) = shown(m - 1) \cup {m} /\ m \notin shown(m - 1)
      BY <2>2, <2>3, <2>4, <2>8, <1>3
    <3>2. a[m] = Append(a[m - 1], s[m].fn.name)
      BY <1>1, <2>4, <2>8
    <3>3. IsFiniteSet(shown(m)) /\ Cardinality(shown(m)) = Cardinality(shown(m - 1)) + 1
      <4>1. IsFiniteSet(shown(m - 1))
        BY <2>5
      <4> HIDE DEF shown
      <4> QED
        BY <3>1, <4>1, OneMore, Zenon
    <3>4. Cardinality(shown(m - 1)) \in Nat
      BY <2>5, FS_CardinalityType
    <3>5. Len(a[m]) = Len(a[m - 1]) + 1
      BY <3>2, <2>6
    <3>6. Len(a[j]) <= Len(a[m - 1]) /\ Len(a[j]) \in Nat /\ Len(a[m - 1]) \in Nat
      BY <2>5, <2>6, <3>4
    <3>7. SubSeq(a[m], 1, Len(a[j])) = SubSeq(a[m - 1], 1, Len(a[j]))
      BY <3>2, <3>6, <2>6
    <3>8. Len(a[m]) = Len(a[j]) + Cardinality(shown(m))
      <4> HIDE DEF shown
      <4> QED
        BY <2>5, <3>3, <3>4, <3>5, <3>6
    <3>9. Fine(m)
      BY <2>5, <3>3, <3>7, <3>8
    <3> QED
      BY <3>9
  <2> QED
    BY <2>7, <2>8
<1> QED
  BY <1>5 DEF a
\* The equation of OffsetOf.
OffsetStep(f, params, j) == IF j = 1 THEN 0 ELSE f[j - 1] + params[j - 1]

\* A function satisfies it.
LEMMA OffsetsExist ==
    ASSUME NEW params, NEW n \in Nat
    PROVE  \E f : f = [j \in 1 .. n |-> OffsetStep(f, params, j)]
<1> DEFINE Exists(m) == \E f : f = [j \in 1 .. m |-> OffsetStep(f, params, j)]
           T == {m \in Nat : ~Exists(m)}
<1>1. SUFFICES T = {}
  OBVIOUS
<1>2. ASSUME T # {}
      PROVE  FALSE
  <2>1. PICK m \in T : \A k \in T : m <= k
    <3>1. T \subseteq Nat
      OBVIOUS
    <3> QED
      BY <1>2, <3>1, Least
  <2>2. m \in Nat /\ ~Exists(m)
    OBVIOUS
  <2>3. m # 0
    <3>1. [j \in 1 .. 0 |-> 0] = [j \in 1 .. 0 |-> OffsetStep([k \in 1 .. 0 |-> 0], params, j)]
      OBVIOUS
    <3>2. Exists(0)
      BY <3>1
    <3> QED
      BY <2>2, <3>2
  <2>4. m - 1 \in Nat /\ m - 1 \notin T
    BY <2>1, <2>2, <2>3
  <2>5. PICK f : f = [j \in 1 .. m - 1 |-> OffsetStep(f, params, j)]
    BY <2>4
  <2> DEFINE g == [j \in 1 .. m |-> OffsetStep(f, params, j)]
  <2>6. \A j \in 1 .. m - 1 : f[j] = OffsetStep(f, params, j)
    BY <2>5, Zenon
  <2>7. ASSUME NEW j \in 1 .. m - 1
        PROVE  g[j] = f[j]
    <3>1. j \in 1 .. m
      BY <2>2
    <3>2. g[j] = OffsetStep(f, params, j)
      BY <3>1
    <3> QED
      BY <2>6, <3>2
  <2>8. ASSUME NEW j \in 1 .. m
        PROVE  OffsetStep(f, params, j) = OffsetStep(g, params, j)
    <3>1. j # 1 => f[j - 1] = g[j - 1]
      <4>1. j # 1 => j - 1 \in 1 .. m - 1
        BY <2>2
      <4> HIDE DEF g
      <4> QED
        BY <2>7, <4>1
    <3> HIDE DEF g
    <3> QED
      BY <3>1 DEF OffsetStep
  <2>9. g = [j \in 1 .. m |-> OffsetStep(g, params, j)]
    BY <2>8
  <2> QED
    BY <2>2, <2>9
<1> QED
  BY <1>2

\* An argument begins where the one before it ends.
LEMMA OffsetsAt ==
    ASSUME NEW params \in Seq(Nat \ {0})
    PROVE  /\ OffsetOf(params, 1) = 0
           /\ \A i \in 1 .. Len(params) : OffsetOf(params, i + 1) = OffsetOf(params, i) + params[i]
<1>1. Len(params) \in Nat /\ Len(params) + 1 \in Nat
  OBVIOUS
<1> DEFINE sum[j \in 1 .. Len(params) + 1] == IF j = 1 THEN 0 ELSE sum[j - 1] + params[j - 1]
<1>2. \A i : OffsetOf(params, i) = sum[i]
  BY DEF OffsetOf
<1>3. sum = CHOOSE f : f = [j \in 1 .. Len(params) + 1 |-> OffsetStep(f, params, j)]
  BY DEF OffsetStep
<1>4. PICK f : f = [j \in 1 .. Len(params) + 1 |-> OffsetStep(f, params, j)]
  BY <1>1, OffsetsExist
<1> HIDE DEF sum
<1>5. sum = [j \in 1 .. Len(params) + 1 |-> OffsetStep(sum, params, j)]
  BY <1>3, <1>4
<1>6. \A j \in 1 .. Len(params) + 1 : sum[j] = OffsetStep(sum, params, j)
  BY <1>5, Zenon
<1>7. sum[1] = 0
  BY <1>1, <1>6 DEF OffsetStep
<1>8. ASSUME NEW i \in 1 .. Len(params)
      PROVE  sum[i + 1] = sum[i] + params[i]
  <2>1. i + 1 \in 1 .. Len(params) + 1 /\ i + 1 # 1 /\ i + 1 - 1 = i
    BY <1>1
  <2> QED
    BY <1>6, <2>1 DEF OffsetStep
<1> QED
  BY <1>2, <1>7, <1>8

\* Offsets are natural numbers that grow.
LEMMA OffsetsGrow ==
    ASSUME NEW params \in Seq(Nat \ {0})
    PROVE  /\ \A i \in 1 .. Len(params) + 1 : OffsetOf(params, i) \in Nat
           /\ \A i, j \in 1 .. Len(params) + 1 : i <= j => OffsetOf(params, i) <= OffsetOf(params, j)
<1> DEFINE at(i) == OffsetOf(params, i)
           n == Len(params)
           T == {j \in 1 .. n + 1 : ~(at(j) \in Nat /\ \A i \in 1 .. j : at(i) <= at(j))}
<1>1. n \in Nat /\ \A i \in 1 .. n : params[i] \in Nat
  OBVIOUS
<1>2. at(1) = 0 /\ \A i \in 1 .. n : at(i + 1) = at(i) + params[i]
  BY OffsetsAt
<1> HIDE DEF at, n
<1>3. ASSUME T # {}
      PROVE  FALSE
  <2>1. PICK m \in T : \A k \in T : m <= k
    <3>1. T \subseteq Nat
      BY <1>1
    <3> QED
      BY <1>3, <3>1, Least
  <2>2. m # 1
    BY <1>2
  <2>3. m - 1 \in 1 .. n /\ m - 1 \in 1 .. n + 1 /\ m - 1 \notin T /\ m \in Nat
    BY <1>1, <2>1, <2>2
  <2>4. at(m - 1) \in Nat /\ \A i \in 1 .. m - 1 : at(i) <= at(m - 1)
    BY <2>3
  <2>5. at(m) = at(m - 1) + params[m - 1] /\ params[m - 1] \in Nat
    <3>1. m - 1 + 1 = m
      BY <2>3
    <3> QED
      BY <1>1, <1>2, <2>3, <3>1
  <2>6. \A i \in 1 .. m - 1 : at(i) \in Nat
    <3>1. \A i \in 1 .. m - 1 : i \in 1 .. n + 1 /\ ~(m <= i)
      BY <1>1, <2>3
    <3> QED
      BY <2>1, <3>1
  <2>7. at(m) \in Nat /\ at(m - 1) <= at(m)
    BY <2>4, <2>5
  <2>8. \A i \in 1 .. m : at(i) <= at(m)
    <3>1. \A i \in 1 .. m : i = m \/ i \in 1 .. m - 1
      BY <2>3
    <3>2. at(m) <= at(m)
      BY <2>7
    <3>3. \A i \in 1 .. m - 1 : at(i) <= at(m)
      BY <2>4, <2>6, <2>7
    <3> QED
      BY <3>1, <3>2, <3>3
  <2> QED
    BY <2>7, <2>8
<1>4. \A j \in 1 .. n + 1 : at(j) \in Nat /\ \A i \in 1 .. j : at(i) <= at(j)
  BY <1>3
<1>5. \A i, j \in 1 .. n + 1 : i <= j => i \in 1 .. j
  BY <1>1
<1> QED
  BY <1>4, <1>5 DEF at, n

\* What the caller stores for an argument is what the callee loads: the label of the
\* argument if everything up to it fits, and 0 if it does not.
LEMMA ArgsArrive ==
    ASSUME NEW f, f.params \in Seq(Nat \ {0}), NEW args \in Seq(AnyValue),
           Len(args) = Len(f.params), NEW g, g.params = f.params,
           arg_tls' = StoreArgs(f, args), ArgTLSSize \in Nat,
           NEW i \in 1 .. Len(args), Good(args[i])
    PROVE  Good(Value(LoadArg(g, i)', Passed(f, args)[i].exp))
<1> DEFINE p == f.params
           at(j) == OffsetOf(p, j)
           n == Len(p)
<1>1. n \in Nat /\ (\A j \in 1 .. n : p[j] \in Nat \ {0}) /\ i \in 1 .. n /\ p \in Seq(Nat \ {0})
  OBVIOUS
<1>2. at(1) = 0 /\ \A j \in 1 .. n : at(j + 1) = at(j) + p[j]
  BY OffsetsAt
<1>3. /\ \A j \in 1 .. n + 1 : at(j) \in Nat
      /\ \A j, k \in 1 .. n + 1 : j <= k => at(j) <= at(k)
  BY OffsetsGrow
<1>4. LoadArg(g, i)' = IF (\A j \in 1 .. i : at(j) <= ArgTLSSize) /\ at(i) + p[i] <= ArgTLSSize
                       THEN arg_tls'[at(i) + 1] ELSE 0
  BY DEF LoadArg
<1>5. Passed(f, args)[i].exp = IF at(i + 1) <= ArgTLSSize THEN args[i].exp ELSE 0
  BY DEF Passed, Value
<1>6. \A l, e : Good(Value(l, e)) <=> (e # Unknown => l = e)
  BY DEF Good, Value
<1>7. at(i) \in Nat /\ p[i] \in Nat \ {0} /\ at(i + 1) = at(i) + p[i]
  BY <1>1, <1>2, <1>3
<1>8. CASE at(i + 1) <= ArgTLSSize
  <2>1. \A j \in 1 .. i : /\ j \in 1 .. n /\ j \in 1 .. n + 1 /\ j + 1 \in 1 .. n + 1
                          /\ j <= i + 1 /\ j + 1 <= i + 1 /\ i + 1 \in 1 .. n + 1
    BY <1>1
  <2>2. \A j \in 1 .. i : at(j) <= at(i + 1) /\ at(j + 1) <= at(i + 1) /\ at(j) + p[j] = at(j + 1)
                            /\ at(j) \in Nat /\ at(j + 1) \in Nat
    <3> HIDE DEF at, n, p
    <3> QED
      BY <1>2, <1>3, <2>1
  <2>3. ASSUME NEW j \in 1 .. i
        PROVE  at(j) <= ArgTLSSize /\ at(j) + p[j] <= ArgTLSSize
    <3> HIDE DEF at, n, p
    <3>1. /\ at(j) <= at(i + 1) /\ at(j + 1) <= at(i + 1) /\ at(j) + p[j] = at(j + 1)
          /\ at(j) \in Nat /\ at(j + 1) \in Nat
      BY <2>2
    <3>2. at(i + 1) \in Nat
      BY <1>7
    <3>3. at(j) <= ArgTLSSize /\ at(j + 1) <= ArgTLSSize
      BY <3>1, <3>2, <1>8
    <3> QED
      BY <3>1, <3>3
  <2>4. Stored(p, i)
    BY <2>3 DEF Stored
  <2> DEFINE k == at(i) + 1
             here == {j \in DOMAIN args : /\ Stored(f.params, j)
                                          /\ OffsetOf(f.params, j) < k
                                          /\ k <= OffsetOf(f.params, j) + f.params[j]}
  <2>5. k \in 1 .. ArgTLSSize
    <3> HIDE DEF at, n, p
    <3> QED
      BY <1>7, <1>8
  <2>6. arg_tls'[k] = IF here = {} THEN arg_tls[k] ELSE args[CHOOSE j \in here : TRUE].label
    BY <2>5 DEF StoreArgs
  <2>7. here = {i}
    <3>1. i \in here
      <4>1. i \in DOMAIN args /\ at(i) < k /\ k <= at(i) + p[i]
        BY <1>7
      <4> QED
        BY <2>4, <4>1
    <3>2. ASSUME NEW j \in here, j # i
          PROVE  FALSE
      <4>1. j \in 1 .. n /\ at(j) < k /\ k <= at(j) + p[j]
        OBVIOUS
      <4>2. at(j) + p[j] = at(j + 1) /\ at(j) \in Nat /\ at(j + 1) \in Nat
        <5> HIDE DEF at, p, k, here
        <5> QED
          BY <4>1, <1>1, <1>2, <1>3
      <4>3. j < i => at(j + 1) <= at(i)
        <5>1. j < i => j + 1 <= i /\ j + 1 \in 1 .. n + 1 /\ i \in 1 .. n + 1
          <6> HIDE DEF at, p, k, here
          <6> QED
            BY <1>1, <4>1
        <5> HIDE DEF at, p, k, here
        <5> QED
          BY <5>1, <1>3
      <4>4. i < j => at(i + 1) <= at(j)
        <5>1. i < j => i + 1 <= j /\ i + 1 \in 1 .. n + 1 /\ j \in 1 .. n + 1
          <6> HIDE DEF at, p, k, here
          <6> QED
            BY <1>1, <4>1
        <5> HIDE DEF at, p, k, here
        <5> QED
          BY <5>1, <1>3
      <4>5. i < j \/ j < i
        <5> HIDE DEF at, p, k, here
        <5> QED
          BY <1>1, <4>1, <3>2
      <4>6. k = at(i) + 1
        OBVIOUS
      <4> HIDE DEF at, p, k, here
      <4> QED
        BY <1>7, <4>1, <4>2, <4>3, <4>4, <4>5, <4>6
    <3> QED
      BY <3>1, <3>2
  <2>8. arg_tls'[k] = args[i].label
    <3> HIDE DEF here, k
    <3> QED
      BY <2>6, <2>7
  <2>9. LoadArg(g, i)' = args[i].label
    <3>1. arg_tls'[at(i) + 1] = args[i].label
      BY <2>8
    <3>2. i \in 1 .. i
      BY <1>1
    <3> HIDE DEF at, p, n, here, k
    <3> QED
      BY <1>4, <2>3, <3>1, <3>2
  <2>10. Passed(f, args)[i].exp = args[i].exp
    <3> HIDE DEF at
    <3> QED
      BY <1>5, <1>8
  <2> QED
    BY <1>6, <2>9, <2>10 DEF Good
<1>9. CASE ~(at(i + 1) <= ArgTLSSize)
  <2>1. Passed(f, args)[i].exp = 0
    <3> HIDE DEF at
    <3> QED
      BY <1>5, <1>9
  <2>2. LoadArg(g, i)' = 0
    <3> HIDE DEF at, p
    <3> QED
      BY <1>4, <1>7, <1>9
  <2> QED
    BY <1>6, <2>1, <2>2
<1> QED
  BY <1>8, <1>9

-----------------------------------------------------------------------------
(* Functions and frames. *)

LEMMA Programs ==
    /\ Fns \subseteq Function
    /\ \A f \in Fns : f.kind \in Kinds /\ f.name \in Names /\ Fn(f.name) = f
                      /\ (f.name = "handler" => f.kind = "instrumented")
    /\ \A n \in Names : Fn(n) \in Fns /\ Fn(n).name = n
    /\ Main \in Names /\ Fn(Main).kind = "instrumented"
<1>1. \A n \in Names : \E f \in Fns : f.name = n
  BY DEF Names
<1>2. \A n \in Names : Fn(n) \in Fns /\ Fn(n).name = n
  BY <1>1 DEF Fn
<1>3. \A f \in Fns : f.name \in Names
  BY DEF Names
<1>4. \A f, g \in Fns : f.name = g.name => f = g
  BY CallsAssumption
<1>5. \A f \in Fns : Fn(f.name) = f
  BY <1>2, <1>3, <1>4
<1>6. ASSUME NEW f \in Fns
      PROVE  f \in Function /\ f.kind \in Kinds /\ (f.name = "handler" => f.kind = "instrumented")
  <2>1. /\ f = [name |-> f.name, kind |-> f.kind, params |-> f.params, ret |-> f.ret, calls |-> f.calls,
                cleanup |-> f.cleanup, catches |-> f.catches, skips |-> f.skips]
        /\ f.kind \in Kinds
        /\ f.params \in Seq(Nat \ {0}) /\ f.ret \in Nat
        /\ f.calls \subseteq Names
        /\ f.cleanup \in BOOLEAN /\ f.catches \in BOOLEAN /\ f.skips \in BOOLEAN
        /\ f.name = "handler" => f.kind = "instrumented"
    BY CallsAssumption
  <2>2. f.kind \in Kinds \cup {"wrapper"} /\ f.calls \in SUBSET Names /\ f.name \in Names
    BY <2>1, <1>3
  <2>3. [name |-> f.name, kind |-> f.kind, params |-> f.params, ret |-> f.ret, calls |-> f.calls,
         cleanup |-> f.cleanup, catches |-> f.catches, skips |-> f.skips] \in Function
    BY <2>1, <2>2 DEF Function
  <2> QED
    BY <2>1, <2>3
<1>7. Main \in Names /\ Fn(Main).kind = "instrumented"
  <2>1. PICK f \in Fns : f.name = Main /\ f.kind = "instrumented"
    BY CallsAssumption
  <2> QED
    BY <2>1, <1>3, <1>5
<1> QED
  BY <1>2, <1>3, <1>5, <1>6, <1>7

LEMMA KindFacts ==
    ASSUME NEW f \in Function
    PROVE  /\ f.name \in Names /\ f.kind \in Kinds \cup {"wrapper"}
           /\ f.params \in Seq(Nat \ {0}) /\ f.ret \in Nat /\ f.calls \subseteq Names
           /\ f.cleanup \in BOOLEAN /\ f.catches \in BOOLEAN /\ f.skips \in BOOLEAN
           /\ Compiled(f) <=> f.kind \in {"instrumented", "force_zero", "native", "wrapper"}
           /\ ~Compiled(f) <=> f.kind \in External
           /\ Framed(f) <=> f.kind # "wrapper"
BY DEF Function, Compiled, External, Kinds, Framed

LEMMA WrapperFacts ==
    ASSUME NEW f \in Fns
    PROVE  /\ WrapperOf(f) \in Function
           /\ WrapperOf(f).kind = "wrapper" /\ WrapperOf(f).params = f.params
           /\ WrapperOf(f).calls = {f.name}
<1>1. f \in Function /\ f.name \in Names
  BY Programs
<1> QED
  BY <1>1 DEF WrapperOf, Function

LEMMA ZeroFacts == Zero \in AnyValue /\ Good(Zero)
BY DEF Zero, Value, AnyValue, Good

LEMMA FrameFacts ==
    ASSUME NEW f \in Function, NEW args \in Seq(AnyValue), NEW from \in {"call", "native", "signal"}
    PROVE  /\ Frame(f, args, from) \in AnyFrame
           /\ Frame(f, args, from).fn = f /\ Frame(f, args, from).args = args
           /\ Frame(f, args, from).res = Zero /\ Frame(f, args, from).from = from
           /\ Frame(f, args, from).pc = IF Compiled(f) THEN "entry" ELSE "run"
           /\ ~Frame(f, args, from).dirty
<1>1. <<>> \in Seq(Names) /\ Junk \in Int
  BY DEF Junk
<1> QED
  BY <1>1, ZeroFacts DEF Frame, AnyFrame

LEMMA AnyFrameFacts ==
    ASSUME NEW fr \in AnyFrame
    PROVE  /\ fr.fn \in Function /\ fr.args \in Seq(AnyValue) /\ fr.res \in AnyValue
           /\ fr.pc \in {"entry", "run", "call", "load"} /\ fr.lcs \in Seq(Names)
           /\ fr.labelreturn \in Int /\ fr.from \in {"call", "native", "signal"}
           /\ fr.dirty \in BOOLEAN
BY DEF AnyFrame

\* The values a frame can pass on are right when what it has loaded is.
LEMMA ValuesFacts ==
    ASSUME NEW fr \in AnyFrame, fr.pc = "run", \A v \in Loaded(fr) : Good(v)
    PROVE  \A v \in Values(fr) : v \in AnyValue /\ Good(v)
<1>1. fr.args \in Seq(AnyValue) /\ fr.res \in AnyValue
  BY AnyFrameFacts
<1>2. \A v \in Range(fr.args) : v \in AnyValue
  BY <1>1 DEF Range
<1>3. Loaded(fr) = Range(fr.args) \cup {fr.res}
  BY DEF Loaded
<1> QED
  BY <1>1, <1>2, <1>3, ZeroFacts DEF Values

\* Labels that instrumented code does not pass.
LEMMA NoLabelsFacts ==
    ASSUME NEW f \in Function
    PROVE  NoLabels(f) \in Seq(AnyValue) /\ Len(NoLabels(f)) = Len(f.params)
           /\ \A i \in 1 .. Len(NoLabels(f)) : NoLabels(f)[i] = Zero
<1>1. f.params \in Seq(Nat \ {0})
  BY KindFacts
<1> QED
  BY <1>1, ZeroFacts DEF NoLabels

LEMMA UnknownFacts ==
    ASSUME NEW f \in Function
    PROVE  LET u == [i \in DOMAIN f.params |-> Value(Junk, Unknown)]
           IN  u \in Seq(AnyValue) /\ Len(u) = Len(f.params) /\ \A i \in 1 .. Len(u) : u[i].exp = Unknown
<1>1. f.params \in Seq(Nat \ {0})
  BY KindFacts
<1>2. Value(Junk, Unknown) \in AnyValue /\ Value(Junk, Unknown).exp = Unknown
  BY DEF Value, Junk, Unknown, AnyValue
<1> QED
  BY <1>1, <1>2

LEMMA PassedFacts ==
    ASSUME NEW f, NEW args \in Seq(AnyValue)
    PROVE  Passed(f, args) \in Seq(AnyValue) /\ Len(Passed(f, args)) = Len(args)
<1>1. \A i \in 1 .. Len(args) :
        Value(Junk, IF OffsetOf(f.params, i + 1) <= ArgTLSSize THEN args[i].exp ELSE 0) \in AnyValue
  <2>1. \A i \in 1 .. Len(args) : args[i] \in AnyValue
    OBVIOUS
  <2>2. \A i \in 1 .. Len(args) : args[i].exp \in Int
    BY <2>1 DEF AnyValue
  <2> QED
    BY <2>2 DEF Value, Junk, AnyValue
<1> QED
  BY <1>1 DEF Passed

-----------------------------------------------------------------------------
(* What the actions do to the stack. *)

LEMMA StackFacts ==
    ASSUME Types, OrderPart
    PROVE  /\ Depth \in Nat /\ Depth > 0 /\ Depth = Len(stack) /\ DOMAIN stack = 1 .. Depth
           /\ Top = stack[Depth] /\ \A k \in 1 .. Depth : stack[k] \in AnyFrame
           /\ Top \in AnyFrame
<1>1. stack \in Seq(AnyFrame) /\ Depth = Len(stack) /\ Depth > 0
  BY DEF Types, OrderPart, Depth
<1>2. Top = stack[Depth]
  BY DEF Top, Last, Depth
<1> QED
  BY <1>1, <1>2

\* A frame of the same function, entered or not, with the same context, that has not
\* become clean.
Keeps(new, old) ==
    /\ new.fn.kind = old.fn.kind /\ new.fn.name = old.fn.name
    /\ new.lcs = old.lcs
    /\ new.pc = "entry" <=> old.pc = "entry"
    /\ old.dirty => new.dirty

\* The caller, waiting or interrupted.
Waits(new, old, fr) ==
    /\ Keeps(new, old)
    /\ new.args = old.args /\ new.res = old.res /\ new.from = old.from /\ new.dirty = old.dirty
    /\ new.fn.params = old.fn.params /\ new.fn.calls \subseteq old.fn.calls
    /\ \/ old.pc = "run" /\ new.pc = "call"
       \/ new = old /\ fr.from = "signal" /\ old.pc # "call"

\* A frame that has just been called, and the labels that wait for it.
Begins(fr) ==
    /\ fr \in AnyFrame
    /\ ~fr.dirty /\ fr.res = Zero
    /\ fr.pc = IF Compiled(fr.fn) THEN "entry" ELSE "run"
    /\ Len(fr.args) = Len(fr.fn.params)
    /\ fr.fn.kind = "wrapper" => \A n \in fr.fn.calls : Fn(n).params = fr.fn.params
    /\ ~Compiled(fr.fn) => fr.from = "call" /\ \A v \in Loaded(fr) : Good(v)

Arrives(fr) ==
    fr.pc = "entry" /\ fr.fn.kind \notin {"force_zero", "native"} =>
        \A i \in 1 .. Len(fr.args) : Good(Value(LoadArg(fr.fn, i)', fr.args[i].exp))

Pushes(fr) ==
    /\ Begins(fr)
    /\ Arrives(fr)
    /\ stack' \in Seq(AnyFrame) /\ Len(stack') = Depth + 1
    /\ \A k \in 1 .. Depth - 1 : stack'[k] = stack[k]
    /\ Waits(stack'[Depth], stack[Depth], fr)
    /\ stack'[Depth + 1] = fr
    /\ UNCHANGED <<retval_tls, callstack, frames, lost>>
    /\ ~slip
    /\ slip' \in BOOLEAN
    /\ slip' <=> fr.from = "signal" /\ Top.pc \in {"entry", "load"}
    /\ arg_tls' \in [1 .. ArgTLSSize -> Int]

LEMMA PushShape ==
    ASSUME Types, OrderPart, NEW top \in AnyFrame, NEW fr \in AnyFrame, Push(top, fr)
    PROVE  /\ stack' \in Seq(AnyFrame) /\ Len(stack') = Depth + 1
           /\ \A k \in 1 .. Depth - 1 : stack'[k] = stack[k]
           /\ stack'[Depth] = top /\ stack'[Depth + 1] = fr
<1>1. stack \in Seq(AnyFrame) /\ Depth = Len(stack) /\ Len(stack) \in Nat /\ Len(stack) > 0
  BY StackFacts DEF Types
<1>2. stack' = Append(Front(stack), top) \o <<fr>>
  BY DEF Push
<1>3. /\ Front(stack) \in Seq(AnyFrame) /\ Len(Front(stack)) = Depth - 1
      /\ \A k \in 1 .. Depth - 1 : Front(stack)[k] = stack[k]
  BY <1>1 DEF Front
<1> DEFINE s == Append(Front(stack), top)
<1>4. /\ s \in Seq(AnyFrame) /\ Len(s) = Depth
      /\ \A k \in 1 .. Depth - 1 : s[k] = stack[k]
      /\ s[Depth] = top
  BY <1>1, <1>3
<1> HIDE DEF s
<1>5. s \o <<fr>> \in Seq(AnyFrame) /\ Len(s \o <<fr>>) = Depth + 1
      /\ (\A k \in 1 .. Depth : (s \o <<fr>>)[k] = s[k]) /\ (s \o <<fr>>)[Depth + 1] = fr
  BY <1>1, <1>4
<1>6. stack' = s \o <<fr>>
  BY <1>2 DEF s
<1>7. \A k \in 1 .. Depth - 1 : k \in 1 .. Depth
  BY <1>1
<1>8. Depth \in 1 .. Depth
  BY <1>1
<1> QED
  BY <1>4, <1>5, <1>6, <1>7, <1>8

LEMMA WaitingFacts ==
    ASSUME Types, OrderPart, Top.pc = "run", NEW fr
    PROVE  Waiting \in AnyFrame /\ Waits(Waiting, stack[Depth], fr)
<1>1. Top \in AnyFrame /\ Top = stack[Depth]
  BY StackFacts
<1>2. CASE Top.fn.kind = "wrapper"
  <2>1. Waiting = [Top EXCEPT !.pc = "call", !.fn.calls = {}]
    BY <1>2 DEF Waiting
  <2> QED
    BY <1>1, <2>1 DEF Waits, Keeps, AnyFrame, Function
<1>3. CASE Top.fn.kind # "wrapper"
  <2>1. Waiting = [Top EXCEPT !.pc = "call"]
    BY <1>3 DEF Waiting
  <2> QED
    BY <1>1, <2>1 DEF Waits, Keeps, AnyFrame
<1> QED
  BY <1>2, <1>3

\* The arguments of a call, and that they are right.
LEMMA ArgsFacts ==
    ASSUME Inv, Running, NEW n \in Top.fn.calls, NEW args \in ArgsFor(Top, Fn(n))
    PROVE  /\ Fn(n) \in Fns /\ Fn(n) \in Function
           /\ args \in Seq(AnyValue) /\ Len(args) = Len(Fn(n).params)
           /\ \A i \in 1 .. Len(args) : Good(args[i])
<1>1. Top \in AnyFrame /\ Top = stack[Depth] /\ Depth \in 1 .. Depth /\ Top.pc = "run" /\ ~slip
  BY StackFacts DEF Inv, Running
<1>2. Top.fn \in Function /\ Top.args \in Seq(AnyValue)
  BY <1>1, AnyFrameFacts
<1>3. n \in Names
  BY <1>2, KindFacts
<1>4. Fn(n) \in Fns /\ Fn(n) \in Function
  BY <1>3, Programs
<1>5. \A v \in Loaded(Top) : Good(v)
  BY <1>1 DEF Inv, LabelPart
<1>6. CASE Top.fn.kind = "wrapper"
  <2>1. args = Top.args
    BY <1>6 DEF ArgsFor
  <2>2. Len(Top.args) = Len(Top.fn.params) /\ Fn(n).params = Top.fn.params
    BY <1>1, <1>6 DEF Inv, FramePart
  <2>3. \A i \in 1 .. Len(args) : args[i] \in Range(Top.args)
    BY <1>2, <2>1 DEF Range
  <2>4. Range(Top.args) \subseteq Loaded(Top)
    BY <1>1 DEF Loaded
  <2> QED
    BY <1>2, <1>4, <1>5, <2>1, <2>2, <2>3, <2>4
<1>7. CASE Top.fn.kind # "wrapper"
  <2>1. args \in [1 .. Len(Fn(n).params) -> Values(Top)]
    BY <1>7 DEF ArgsFor
  <2>2. Len(Fn(n).params) \in Nat
    BY <1>4, KindFacts
  <2>3. \A v \in Values(Top) : v \in AnyValue /\ Good(v)
    BY <1>1, <1>5, ValuesFacts
  <2>4. args \in Seq(Values(Top)) /\ Len(args) = Len(Fn(n).params)
    BY <2>1, <2>2
  <2>5. \A i \in 1 .. Len(args) : args[i] \in AnyValue /\ Good(args[i])
    BY <2>3, <2>4
  <2>6. args \in Seq(AnyValue)
    BY <2>4, <2>5
  <2> QED
    BY <1>4, <2>4, <2>5, <2>6
<1> QED
  BY <1>6, <1>7

LEMMA StoreFacts ==
    ASSUME Types, NEW f, NEW args \in Seq(AnyValue)
    PROVE  StoreArgs(f, args) \in [1 .. ArgTLSSize -> Int]
<1>1. \A i \in DOMAIN args : args[i].label \in Int
  <2>1. \A i \in DOMAIN args : args[i] \in AnyValue
    OBVIOUS
  <2> QED
    BY <2>1 DEF AnyValue
<1>2. arg_tls \in [1 .. ArgTLSSize -> Int]
  BY DEF Types
<1>3. ASSUME NEW k \in 1 .. ArgTLSSize
      PROVE  LET at == {i \in DOMAIN args : /\ Stored(f.params, i)
                                            /\ OffsetOf(f.params, i) < k
                                            /\ k <= OffsetOf(f.params, i) + f.params[i]}
             IN  (IF at = {} THEN arg_tls[k] ELSE args[CHOOSE i \in at : TRUE].label) \in Int
  <2> DEFINE at == {i \in DOMAIN args : /\ Stored(f.params, i)
                                        /\ OffsetOf(f.params, i) < k
                                        /\ k <= OffsetOf(f.params, i) + f.params[i]}
  <2>1. at \subseteq DOMAIN args
    OBVIOUS
  <2> HIDE DEF at
  <2>2. at # {} => (CHOOSE i \in at : TRUE) \in DOMAIN args
    BY <2>1
  <2>3. (IF at = {} THEN arg_tls[k] ELSE args[CHOOSE i \in at : TRUE].label) \in Int
    BY <1>1, <1>2, <2>2
  <2> QED
    BY <2>3 DEF at
<1> QED
  BY <1>3 DEF StoreArgs

LEMMA CallTLSPushes ==
    ASSUME Inv, Running, NEW n \in Top.fn.calls, NEW how, NEW args \in ArgsFor(Top, Fn(n)),
           CallTLS(Fn(n), how, args)
    PROVE  \E fr : Pushes(fr)
<1> DEFINE f == Fn(n)
<1>1. /\ f \in Fns /\ f \in Function
      /\ args \in Seq(AnyValue) /\ Len(args) = Len(f.params)
      /\ \A i \in 1 .. Len(args) : Good(args[i])
  BY ArgsFacts
<1>2. Types /\ OrderPart /\ Top.pc = "run" /\ ~slip
  BY DEF Inv, Running
<1> HIDE DEF f
<1>3. /\ arg_tls' = StoreArgs(f, args)
      /\ Push(Waiting, IF Wrapped(f) THEN Frame(WrapperOf(f), Passed(f, args), "call")
                       ELSE Frame(f, IF Compiled(f) THEN Passed(f, args) ELSE NoLabels(f), "call"))
      /\ UNCHANGED <<retval_tls, callstack, frames, lost, slip>>
  BY DEF CallTLS, f
<1>4. arg_tls' \in [1 .. ArgTLSSize -> Int]
  BY <1>1, <1>2, <1>3, StoreFacts
<1>5. Passed(f, args) \in Seq(AnyValue) /\ Len(Passed(f, args)) = Len(args)
  BY <1>1, PassedFacts
<1>6. f.params \in Seq(Nat \ {0}) /\ f.name \in Names /\ ArgTLSSize \in Nat
  BY <1>1, KindFacts, CallsAssumption
<1>7. \A g : g.params = f.params =>
        \A i \in 1 .. Len(args) : Good(Value(LoadArg(g, i)', Passed(f, args)[i].exp))
  BY <1>1, <1>3, <1>6, ArgsArrive
<1>8. ASSUME NEW fr, Begins(fr), Arrives(fr), Push(Waiting, fr), fr.from = "call"
      PROVE  Pushes(fr)
  <2>1. fr \in AnyFrame
    BY <1>8 DEF Begins
  <2>2. Waiting \in AnyFrame /\ Waits(Waiting, stack[Depth], fr)
    BY <1>2, WaitingFacts
  <2>3. /\ stack' \in Seq(AnyFrame) /\ Len(stack') = Depth + 1
        /\ \A k \in 1 .. Depth - 1 : stack'[k] = stack[k]
        /\ stack'[Depth] = Waiting /\ stack'[Depth + 1] = fr
    BY <1>2, <1>8, <2>1, <2>2, PushShape
  <2>4. slip' \in BOOLEAN /\ (slip' <=> fr.from = "signal" /\ Top.pc \in {"entry", "load"})
    BY <1>2, <1>3, <1>8 DEF Types
  <2> QED
    BY <1>2, <1>3, <1>4, <1>8, <2>2, <2>3, <2>4 DEF Pushes
<1>9. CASE Wrapped(f)
  <2> DEFINE w == WrapperOf(f)
             fr == Frame(w, Passed(f, args), "call")
  <2>1. /\ w \in Function /\ w.kind = "wrapper" /\ w.params = f.params /\ w.calls = {f.name}
        /\ Compiled(w)
    BY <1>1, WrapperFacts, KindFacts
  <2> HIDE DEF w
  <2>2. /\ fr \in AnyFrame /\ fr.fn = w /\ fr.args = Passed(f, args) /\ fr.from = "call"
        /\ fr.pc = "entry" /\ ~fr.dirty /\ fr.res = Zero
    BY <2>1, <1>5, FrameFacts
  <2>3. Fn(f.name) = f
    BY <1>1, Programs
  <2> HIDE DEF fr
  <2>4. Begins(fr)
    BY <1>1, <1>5, <2>1, <2>2, <2>3 DEF Begins
  <2>5. Arrives(fr)
    BY <1>5, <1>7, <2>1, <2>2 DEF Arrives
  <2>6. Push(Waiting, fr)
    BY <1>3, <1>9 DEF fr, w
  <2> QED
    BY <1>8, <2>2, <2>4, <2>5, <2>6
<1>10. CASE ~Wrapped(f) /\ Compiled(f)
  <2> DEFINE fr == Frame(f, Passed(f, args), "call")
  <2>1. /\ fr \in AnyFrame /\ fr.fn = f /\ fr.args = Passed(f, args) /\ fr.from = "call"
        /\ fr.pc = "entry" /\ ~fr.dirty /\ fr.res = Zero
    BY <1>1, <1>5, <1>10, FrameFacts
  <2>2. f.kind # "wrapper"
    BY <1>1, Programs DEF Kinds
  <2> HIDE DEF fr
  <2>3. Begins(fr)
    BY <1>1, <1>5, <1>10, <2>1, <2>2 DEF Begins
  <2>4. Arrives(fr)
    BY <1>5, <1>7, <2>1 DEF Arrives
  <2>5. Push(Waiting, fr)
    BY <1>3, <1>10 DEF fr
  <2> QED
    BY <1>8, <2>1, <2>3, <2>4, <2>5
<1>11. CASE ~Wrapped(f) /\ ~Compiled(f)
  <2> DEFINE fr == Frame(f, NoLabels(f), "call")
  <2>1. /\ NoLabels(f) \in Seq(AnyValue) /\ Len(NoLabels(f)) = Len(f.params)
        /\ \A i \in 1 .. Len(NoLabels(f)) : NoLabels(f)[i] = Zero
    BY <1>1, NoLabelsFacts
  <2>2. /\ fr \in AnyFrame /\ fr.fn = f /\ fr.args = NoLabels(f) /\ fr.from = "call"
        /\ fr.pc = "run" /\ ~fr.dirty /\ fr.res = Zero
    BY <1>1, <1>11, <2>1, FrameFacts
  <2>3. f.kind # "wrapper"
    BY <1>1, Programs DEF Kinds
  <2> HIDE DEF fr
  <2>4. \A v \in Loaded(fr) : v = Zero
    BY <2>1, <2>2 DEF Loaded, Range
  <2>5. Begins(fr)
    BY <1>11, <2>1, <2>2, <2>3, <2>4, ZeroFacts DEF Begins
  <2>6. Arrives(fr)
    BY <2>2 DEF Arrives
  <2>7. Push(Waiting, fr)
    BY <1>3, <1>11 DEF fr
  <2> QED
    BY <1>8, <2>2, <2>5, <2>6, <2>7
<1> QED
  BY <1>9, <1>10, <1>11

LEMMA CallWrappedPushes ==
    ASSUME Inv, Running, NEW n \in Top.fn.calls, NEW how, NEW args \in ArgsFor(Top, Fn(n)),
           CallWrapped(Fn(n), how, args)
    PROVE  \E fr : Pushes(fr)
<1> DEFINE f == Fn(n)
           passed == IF f.kind = "custom" THEN args ELSE NoLabels(f)
           fr == Frame(f, passed, "call")
<1>1. /\ f \in Fns /\ f \in Function
      /\ args \in Seq(AnyValue) /\ Len(args) = Len(f.params)
      /\ \A i \in 1 .. Len(args) : Good(args[i])
  BY ArgsFacts
<1>2. Types /\ OrderPart /\ Top.pc = "run" /\ ~slip
  BY DEF Inv, Running
<1> HIDE DEF f
<1>3. Wrapped(f) /\ Push(Waiting, fr) /\ UNCHANGED <<arg_tls, retval_tls, callstack, frames, lost, slip>>
  BY DEF CallWrapped, ShadowArguments, f
<1>4. /\ NoLabels(f) \in Seq(AnyValue) /\ Len(NoLabels(f)) = Len(f.params)
      /\ \A i \in 1 .. Len(NoLabels(f)) : NoLabels(f)[i] = Zero
  BY <1>1, NoLabelsFacts
<1>5. passed \in Seq(AnyValue) /\ Len(passed) = Len(f.params) /\ \A i \in 1 .. Len(passed) : Good(passed[i])
  BY <1>1, <1>4, ZeroFacts
<1> HIDE DEF passed
<1>6. /\ fr \in AnyFrame /\ fr.fn = f /\ fr.args = passed /\ fr.from = "call"
      /\ fr.pc = (IF Compiled(f) THEN "entry" ELSE "run") /\ ~fr.dirty /\ fr.res = Zero
  BY <1>1, <1>5, FrameFacts
<1> HIDE DEF fr
<1>7. f.kind # "wrapper" /\ (Compiled(f) => f.kind = "native")
  BY <1>1, <1>3, KindFacts DEF Wrapped
<1>8. Begins(fr)
  <2>1. ~Compiled(f) => \A v \in Loaded(fr) : Good(v)
    BY <1>5, <1>6, ZeroFacts DEF Loaded, Range
  <2> QED
    BY <1>5, <1>6, <1>7, <2>1 DEF Begins
<1>9. Arrives(fr)
  BY <1>6, <1>7 DEF Arrives
<1>10. Waiting \in AnyFrame /\ Waits(Waiting, stack[Depth], fr)
  BY <1>2, WaitingFacts
<1>11. /\ stack' \in Seq(AnyFrame) /\ Len(stack') = Depth + 1
       /\ \A k \in 1 .. Depth - 1 : stack'[k] = stack[k]
       /\ stack'[Depth] = Waiting /\ stack'[Depth + 1] = fr
  BY <1>2, <1>3, <1>6, <1>10, PushShape
<1>12. slip' \in BOOLEAN /\ (slip' <=> fr.from = "signal" /\ Top.pc \in {"entry", "load"}) /\ arg_tls' \in [1 .. ArgTLSSize -> Int]
  BY <1>2, <1>3, <1>6 DEF Types
<1> QED
  BY <1>2, <1>3, <1>8, <1>9, <1>10, <1>11, <1>12 DEF Pushes

\* A callback about which nothing is known: of native code, or a signal handler.
LEMMA UnknownBegins ==
    ASSUME NEW f \in Fns, f.kind = "instrumented", NEW from \in {"call", "native", "signal"}
    PROVE  LET fr == Frame(f, [i \in DOMAIN f.params |-> Value(Junk, Unknown)], from)
           IN  Begins(fr) /\ Arrives(fr) /\ fr \in AnyFrame /\ fr.from = from
<1> DEFINE u == [i \in DOMAIN f.params |-> Value(Junk, Unknown)]
           fr == Frame(f, u, from)
<1>1. f \in Function /\ Compiled(f)
  BY Programs, KindFacts
<1>2. u \in Seq(AnyValue) /\ Len(u) = Len(f.params) /\ \A i \in 1 .. Len(u) : u[i].exp = Unknown
  BY <1>1, UnknownFacts
<1> HIDE DEF u
<1>3. /\ fr \in AnyFrame /\ fr.fn = f /\ fr.args = u /\ fr.from = from
      /\ fr.pc = "entry" /\ ~fr.dirty /\ fr.res = Zero
  BY <1>1, <1>2, FrameFacts
<1> HIDE DEF fr
<1>4. Begins(fr)
  BY <1>1, <1>2, <1>3 DEF Begins
<1>5. Arrives(fr)
  BY <1>2, <1>3 DEF Arrives, Good, Value
<1> QED
  BY <1>3, <1>4, <1>5 DEF fr, u

LEMMA CallNativePushes ==
    ASSUME Inv, Running, NEW n \in Top.fn.calls, CallNative(Fn(n))
    PROVE  \E fr : Pushes(fr)
<1> DEFINE f == Fn(n)
           fr == Frame(f, [i \in DOMAIN f.params |-> Value(Junk, Unknown)], "native")
<1>1. Types /\ OrderPart /\ Top.pc = "run" /\ ~slip
  BY DEF Inv, Running
<1>2. f \in Fns
  <2>1. n \in Names
    BY <1>1, StackFacts, AnyFrameFacts, KindFacts
  <2> QED
    BY <2>1, Programs
<1> HIDE DEF f
<1>3. f.kind = "instrumented" /\ Push(Waiting, fr) /\ UNCHANGED <<arg_tls, retval_tls, callstack, frames, lost, slip>>
  BY DEF CallNative, f
<1>4. Begins(fr) /\ Arrives(fr) /\ fr \in AnyFrame /\ fr.from = "native"
  BY <1>2, <1>3, UnknownBegins
<1> HIDE DEF fr
<1>5. Waiting \in AnyFrame /\ Waits(Waiting, stack[Depth], fr)
  BY <1>1, WaitingFacts
<1>6. /\ stack' \in Seq(AnyFrame) /\ Len(stack') = Depth + 1
      /\ \A k \in 1 .. Depth - 1 : stack'[k] = stack[k]
      /\ stack'[Depth] = Waiting /\ stack'[Depth + 1] = fr
  BY <1>1, <1>3, <1>4, <1>5, PushShape
<1>7. slip' \in BOOLEAN /\ (slip' <=> fr.from = "signal" /\ Top.pc \in {"entry", "load"}) /\ arg_tls' \in [1 .. ArgTLSSize -> Int]
  BY <1>1, <1>3, <1>4 DEF Types
<1> QED
  BY <1>1, <1>3, <1>4, <1>5, <1>6, <1>7 DEF Pushes

LEMMA SignalPushes ==
    ASSUME Inv, NEW f \in Fns, Signal(f)
    PROVE  \E fr : Pushes(fr)
<1> DEFINE fr == Frame(f, [i \in DOMAIN f.params |-> Value(Junk, Unknown)], "signal")
<1>1. Types /\ OrderPart
  BY DEF Inv
<1>2. /\ ~slip /\ f.name = "handler" /\ Top.pc # "call"
      /\ slip' = (Top.pc \in {"entry", "load"}) /\ Push(Top, fr)
      /\ UNCHANGED <<arg_tls, retval_tls, callstack, frames, lost>>
  BY DEF Signal
<1>3. f.kind = "instrumented"
  BY <1>2, Programs
<1>4. Begins(fr) /\ Arrives(fr) /\ fr \in AnyFrame /\ fr.from = "signal"
  BY <1>3, UnknownBegins
<1> HIDE DEF fr
<1>5. Top \in AnyFrame /\ Top = stack[Depth]
  BY <1>1, StackFacts
<1>6. Waits(Top, stack[Depth], fr)
  BY <1>2, <1>4, <1>5 DEF Waits, Keeps
<1>7. /\ stack' \in Seq(AnyFrame) /\ Len(stack') = Depth + 1
      /\ \A k \in 1 .. Depth - 1 : stack'[k] = stack[k]
      /\ stack'[Depth] = Top /\ stack'[Depth + 1] = fr
  BY <1>1, <1>2, <1>4, <1>5, PushShape
<1>8. slip' \in BOOLEAN /\ (slip' <=> fr.from = "signal" /\ Top.pc \in {"entry", "load"})
  <2>1. slip' \in BOOLEAN
    BY <1>2, SMT
  <2>2. slip' <=> Top.pc \in {"entry", "load"}
    BY <1>2, Zenon
  <2> QED
    BY <1>4, <2>1, <2>2
<1>9. arg_tls' \in [1 .. ArgTLSSize -> Int]
  BY <1>1, <1>2 DEF Types
<1> QED
  BY <1>2, <1>4, <1>6, <1>7, <1>8, <1>9 DEF Pushes

-----------------------------------------------------------------------------
(* The context and the frames below a step. *)

LEMMA NamesKept ==
    ASSUME stack \in Seq(AnyFrame), stack' \in Seq(AnyFrame),
           NEW n \in Nat, n <= Len(stack), n <= Len(stack'),
           \A k \in 1 .. n : Keeps(stack'[k], stack[k]), NEW hidden
    PROVE  \A k \in 0 .. n : EnteredNames(stack', hidden)[k] = EnteredNames(stack, hidden)[k]
<1>1. \A k \in 1 .. n : /\ stack'[k].fn.kind = stack[k].fn.kind
                        /\ stack'[k].fn.name = stack[k].fn.name
                        /\ stack'[k].pc = "entry" <=> stack[k].pc = "entry"
  BY DEF Keeps
<1> QED
  BY <1>1, NamesAgree

LEMMA ContextKept ==
    ASSUME stack \in Seq(AnyFrame), stack' \in Seq(AnyFrame), ContextPart,
           NEW n \in Nat, n <= Len(stack), n <= Len(stack'),
           \A k \in 1 .. n : Keeps(stack'[k], stack[k])
    PROVE  \A k \in 1 .. n :
             Compiled(stack'[k].fn) /\ stack'[k].pc # "entry" /\ (\A j \in 1 .. k - 1 : ~stack'[j].dirty) =>
                 stack'[k].lcs = EnteredNames(stack', External)[k - 1]
<1> SUFFICES ASSUME NEW k \in 1 .. n, Compiled(stack'[k].fn), stack'[k].pc # "entry",
                    \A j \in 1 .. k - 1 : ~stack'[j].dirty
             PROVE  stack'[k].lcs = EnteredNames(stack', External)[k - 1]
  OBVIOUS
<1>1. Keeps(stack'[k], stack[k]) /\ \A j \in 1 .. k - 1 : j \in 1 .. n /\ Keeps(stack'[j], stack[j])
  OBVIOUS
<1>2. Compiled(stack[k].fn) /\ stack[k].pc # "entry" /\ stack'[k].lcs = stack[k].lcs
  BY <1>1 DEF Keeps, Compiled
<1>3. \A j \in 1 .. k - 1 : ~stack[j].dirty
  BY <1>1 DEF Keeps
<1>4. k \in 1 .. Depth
  BY DEF Depth
<1>5. stack[k].lcs = EnteredNames(stack, External)[k - 1]
  BY <1>2, <1>3, <1>4 DEF ContextPart
<1>6. k - 1 \in 0 .. n
  OBVIOUS
<1> QED
  BY <1>2, <1>5, <1>6, NamesKept

LEMMA PushOrder ==
    ASSUME Inv, NEW fr, Pushes(fr)
    PROVE  Types' /\ OrderPart' /\ FramePart'
<1>1. Types /\ OrderPart /\ FramePart
  BY DEF Inv
<1>2. /\ Begins(fr) /\ stack' \in Seq(AnyFrame) /\ Len(stack') = Depth + 1
      /\ \A k \in 1 .. Depth - 1 : stack'[k] = stack[k]
      /\ Waits(stack'[Depth], stack[Depth], fr)
      /\ stack'[Depth + 1] = fr
      /\ UNCHANGED <<retval_tls, callstack, frames, lost>>
      /\ slip' \in BOOLEAN
      /\ slip' <=> fr.from = "signal" /\ Top.pc \in {"entry", "load"}
      /\ ~slip
      /\ arg_tls' \in [1 .. ArgTLSSize -> Int]
  BY DEF Pushes
<1>3. Depth \in Nat /\ Depth > 0 /\ Top = stack[Depth] /\ Top \in AnyFrame /\ Depth' = Depth + 1
  BY <1>1, <1>2, StackFacts DEF Depth
<1>4. Types'
  BY <1>1, <1>2 DEF Types
<1>5. OrderPart'
  <2>1. Depth' > 0
    BY <1>3
  <2>2. stack'[1].fn.kind = "instrumented"
    <3>1. CASE Depth = 1
      BY <1>1, <1>2, <3>1 DEF OrderPart, Waits, Keeps
    <3>2. CASE Depth # 1
      BY <1>1, <1>2, <1>3, <3>2 DEF OrderPart
    <3> QED
      BY <3>1, <3>2
  <2>3. ASSUME NEW k \in 1 .. Depth
        PROVE  /\ stack'[k].pc = "call" \/ stack'[k + 1].from = "signal"
               /\ ~slip' => stack'[k].pc \in {"run", "call"}
    <3>1. CASE k = Depth
      <4>1. Top.pc \in {"entry", "run", "call", "load"}
        BY <1>3, AnyFrameFacts
      <4> QED
        BY <1>2, <1>3, <3>1, <4>1 DEF Waits
    <3>2. CASE k = Depth - 1
      <4>1. k \in 1 .. Depth - 1 /\ stack'[k] = stack[k] /\ stack'[k + 1].from = stack[k + 1].from
        BY <1>2, <1>3, <3>2 DEF Waits
      <4> QED
        BY <1>1, <1>2, <4>1 DEF OrderPart
    <3>3. CASE k # Depth /\ k # Depth - 1
      <4>1. k \in 1 .. Depth - 1 /\ k + 1 \in 1 .. Depth - 1
        BY <1>3, <3>3
      <4>2. stack'[k] = stack[k] /\ stack'[k + 1] = stack[k + 1]
        BY <1>2, <4>1
      <4> QED
        BY <1>1, <1>2, <4>1, <4>2 DEF OrderPart
    <3> QED
      BY <3>1, <3>2, <3>3
  <2>4. 1 .. Depth' - 1 = 1 .. Depth
    BY <1>3
  <2> QED
    BY <2>1, <2>2, <2>3, <2>4 DEF OrderPart
<1>6. FramePart'
  <2>1. ASSUME NEW k \in 1 .. Depth + 1
        PROVE  /\ ~Compiled(stack'[k].fn) => /\ stack'[k].from = "call" /\ stack'[k].pc # "entry"
                                             /\ ~stack'[k].dirty
               /\ stack'[k].pc = "entry" => ~stack'[k].dirty /\ stack'[k].res = Zero
               /\ stack'[k].pc = "entry" \/ stack'[k].fn.kind = "wrapper" =>
                      Len(stack'[k].args) = Len(stack'[k].fn.params)
               /\ stack'[k].fn.kind = "wrapper" =>
                      \A n \in stack'[k].fn.calls : Fn(n).params = stack'[k].fn.params
    <3>1. CASE k = Depth + 1
      BY <1>2, <3>1 DEF Begins
    <3>2. CASE k = Depth
      <4>1. /\ ~Compiled(stack[k].fn) => /\ stack[k].from = "call" /\ stack[k].pc # "entry"
                                         /\ ~stack[k].dirty
            /\ stack[k].pc = "entry" => ~stack[k].dirty /\ stack[k].res = Zero
            /\ stack[k].pc = "entry" \/ stack[k].fn.kind = "wrapper" =>
                   Len(stack[k].args) = Len(stack[k].fn.params)
            /\ stack[k].fn.kind = "wrapper" =>
                   \A n \in stack[k].fn.calls : Fn(n).params = stack[k].fn.params
        BY <1>1, <1>3, <3>2 DEF FramePart
      <4> QED
        BY <1>2, <3>2, <4>1 DEF Waits, Keeps, Compiled
    <3>3. CASE k # Depth /\ k # Depth + 1
      <4>1. k \in 1 .. Depth - 1 /\ k \in 1 .. Depth
        BY <1>3, <3>3
      <4>2. stack'[k] = stack[k]
        BY <1>2, <4>1
      <4> QED
        BY <1>1, <4>1, <4>2 DEF FramePart
    <3> QED
      BY <3>1, <3>2, <3>3
  <2> QED
    BY <1>3, <2>1 DEF FramePart
<1> QED
  BY <1>4, <1>5, <1>6

LEMMA PushNames ==
    ASSUME Inv, NEW fr, Pushes(fr)
    PROVE  ContextPart' /\ FramesFollow'
<1>1. Types /\ OrderPart /\ ContextPart /\ FramesFollow
  BY DEF Inv
<1>2. /\ Begins(fr) /\ stack' \in Seq(AnyFrame) /\ Len(stack') = Depth + 1
      /\ \A k \in 1 .. Depth - 1 : stack'[k] = stack[k]
      /\ Waits(stack'[Depth], stack[Depth], fr)
      /\ stack'[Depth + 1] = fr
      /\ UNCHANGED <<callstack, frames, lost>>
  BY DEF Pushes
<1>3. Depth \in Nat /\ Depth > 0 /\ stack \in Seq(AnyFrame) /\ Depth = Len(stack) /\ Depth' = Depth + 1
  BY <1>1, <1>2, StackFacts DEF Depth, Types
<1>4. \A k \in 1 .. Depth : Keeps(stack'[k], stack[k])
  BY <1>2, <1>3 DEF Waits, Keeps
<1>5. \A hidden : \A k \in 0 .. Depth : EnteredNames(stack', hidden)[k] = EnteredNames(stack, hidden)[k]
  BY <1>2, <1>3, <1>4, NamesKept
<1>6. fr.pc = "entry" \/ fr.fn.kind \in External
  <2>1. fr.fn \in Function
    BY <1>2, AnyFrameFacts DEF Begins
  <2> QED
    BY <1>2, <2>1, KindFacts DEF Begins
<1>7. ASSUME NEW hidden, External \subseteq hidden
      PROVE  EnteredNames(stack', hidden)[Depth + 1] = EnteredNames(stack, hidden)[Depth]
  <2>1. Depth + 1 \in 1 .. Len(stack') /\ Depth \in 0 .. Depth /\ Depth + 1 - 1 = Depth
    BY <1>2, <1>3
  <2>2. fr.fn.kind \in hidden \/ fr.pc = "entry"
    BY <1>6, <1>7
  <2>3. EnteredNames(stack', hidden)[Depth + 1] = EnteredNames(stack', hidden)[Depth + 1 - 1]
    BY <1>2, <2>1, <2>2, NamesAt
  <2> QED
    BY <1>5, <2>1, <2>3
<1>8. FramesFollow'
  BY <1>1, <1>2, <1>3, <1>7 DEF FramesFollow
<1>9. ContextFollows'
  <2>1. SUFFICES ASSUME \A k \in DOMAIN stack' : ~stack'[k].dirty
                 PROVE  callstack' = EnteredNames(stack', External)[Depth + 1]
    BY <1>3 DEF ContextFollows
  <2>2. \A k \in DOMAIN stack : k \in DOMAIN stack' /\ k \in 1 .. Depth
    BY <1>2, <1>3
  <2>3. \A k \in DOMAIN stack : ~stack[k].dirty
    BY <1>4, <2>1, <2>2 DEF Keeps
  <2>4. callstack = EnteredNames(stack, External)[Depth]
    BY <1>1, <2>3 DEF ContextPart, ContextFollows
  <2> QED
    BY <1>2, <1>7, <2>4
<1>10. ASSUME NEW k \in 1 .. Depth', Compiled(stack'[k].fn), stack'[k].pc # "entry",
              \A j \in 1 .. k - 1 : ~stack'[j].dirty
       PROVE  stack'[k].lcs = EnteredNames(stack', External)[k - 1]
  <2>1. k # Depth + 1
    BY <1>2, <1>10 DEF Begins
  <2>2. k \in 1 .. Depth
    BY <1>3, <2>1
  <2>3. Depth <= Len(stack) /\ Depth <= Len(stack')
    BY <1>2, <1>3
  <2> QED
    BY <1>1, <1>2, <1>3, <1>4, <1>10, <2>2, <2>3, ContextKept
<1> QED
  BY <1>8, <1>9, <1>10 DEF ContextPart

LEMMA PushLabels ==
    ASSUME Inv, NEW fr, Pushes(fr)
    PROVE  LabelPart'
<1>1. Types /\ OrderPart /\ LabelPart
  BY DEF Inv
<1>2. /\ Begins(fr) /\ Arrives(fr) /\ stack' \in Seq(AnyFrame) /\ Len(stack') = Depth + 1
      /\ \A k \in 1 .. Depth - 1 : stack'[k] = stack[k]
      /\ Waits(stack'[Depth], stack[Depth], fr)
      /\ stack'[Depth + 1] = fr
      /\ slip' <=> fr.from = "signal" /\ Top.pc \in {"entry", "load"}
      /\ ~slip
  BY DEF Pushes
<1>3. Depth \in Nat /\ Depth > 0 /\ Top = stack[Depth] /\ Top \in AnyFrame /\ Depth' = Depth + 1
  BY <1>1, <1>2, StackFacts DEF Depth
<1>4. Top' = fr
  BY <1>2, <1>3 DEF Top, Last
<1>5. \A k \in 1 .. Depth : \A v \in Loaded(stack[k]) : Good(v)
  BY <1>1, <1>2 DEF LabelPart
<1>6. ASSUME NEW k \in 1 .. Depth + 1, NEW v \in Loaded(stack'[k])
      PROVE  Good(v)
  <2>1. CASE k = Depth + 1
    <3>1. fr.pc # "entry"
      BY <1>2, <2>1 DEF Loaded
    <3>2. ~Compiled(fr.fn)
      BY <1>2, <3>1 DEF Begins
    <3> QED
      BY <1>2, <2>1, <3>2 DEF Begins
  <2>2. CASE k = Depth
    <3>1. v \in Loaded(stack[k])
      BY <1>2, <2>2 DEF Waits, Loaded
    <3> QED
      BY <1>3, <1>5, <2>2, <3>1
  <2>3. CASE k # Depth /\ k # Depth + 1
    <3>1. k \in 1 .. Depth - 1 /\ k \in 1 .. Depth
      BY <1>3, <2>3
    <3>2. stack'[k] = stack[k]
      BY <1>2, <3>1
    <3> QED
      BY <1>5, <3>1, <3>2
  <2> QED
    BY <2>1, <2>2, <2>3
<1>7. Top'.pc # "load"
  BY <1>2, <1>4 DEF Begins
<1>8. Top'.pc = "entry" /\ Top'.fn.kind \notin {"force_zero", "native"} =>
        \A i \in 1 .. Len(Top'.args) : Good(Value(LoadArg(fr.fn, i)', Top'.args[i].exp))
  BY <1>2, <1>4 DEF Arrives
<1>9. \A i : LoadArg(Top.fn, i)' = LoadArg(fr.fn, i)'
  BY <1>4 DEF LoadArg
<1> QED
  BY <1>3, <1>6, <1>7, <1>8, <1>9 DEF LabelPart

-----------------------------------------------------------------------------
(* Entry, and the end of a call. *)

LEMMA LoadArgType ==
    ASSUME Types, NEW f \in Function, NEW i \in 1 .. Len(f.params)
    PROVE  LoadArg(f, i) \in Int
<1>1. f.params \in Seq(Nat \ {0}) /\ arg_tls \in [1 .. ArgTLSSize -> Int] /\ ArgTLSSize \in Nat
  BY KindFacts, CallsAssumption DEF Types
<1>2. i \in 1 .. Len(f.params) + 1 /\ f.params[i] \in Nat \ {0}
  BY <1>1
<1>3. OffsetOf(f.params, i) \in Nat
  BY <1>1, <1>2, OffsetsGrow
<1>4. OffsetOf(f.params, i) + f.params[i] <= ArgTLSSize => OffsetOf(f.params, i) + 1 \in 1 .. ArgTLSSize
  BY <1>1, <1>2, <1>3
<1> QED
  BY <1>1, <1>4 DEF LoadArg

\* The last frame becomes c.
LEMMA TopShape ==
    ASSUME Types, OrderPart, NEW c \in AnyFrame, stack' = [stack EXCEPT ![Depth] = c]
    PROVE  /\ stack' \in Seq(AnyFrame) /\ Len(stack') = Depth /\ Depth' = Depth
           /\ \A k \in 1 .. Depth - 1 : stack'[k] = stack[k]
           /\ stack'[Depth] = c /\ Top' = c
<1>1. stack \in Seq(AnyFrame) /\ Depth \in Nat /\ Depth > 0 /\ Depth = Len(stack)
  BY StackFacts DEF Types
<1>2. stack' \in Seq(AnyFrame) /\ Len(stack') = Depth
      /\ (\A k \in 1 .. Depth - 1 : stack'[k] = stack[k]) /\ stack'[Depth] = c
  BY <1>1
<1> QED
  BY <1>2 DEF Depth, Top, Last

\* The parts that the last frame has when it runs after it was c.
LEMMA TopRuns ==
    ASSUME Inv, NEW c \in AnyFrame, stack' = [stack EXCEPT ![Depth] = c],
           c.pc = "run", c.fn = Top.fn, c.from = Top.from, c.dirty = Top.dirty,
           Compiled(c.fn) \/ Top.pc # "entry",
           Len(c.args) = Len(Top.args), slip' = slip
    PROVE  OrderPart' /\ FramePart'
<1>1. Types /\ OrderPart /\ FramePart
  BY DEF Inv
<1>2. /\ Depth' = Depth /\ (\A k \in 1 .. Depth - 1 : stack'[k] = stack[k]) /\ stack'[Depth] = c
  BY <1>1, TopShape
<1>3. Depth \in Nat /\ Depth > 0 /\ Top = stack[Depth]
  BY <1>1, StackFacts
<1>4. OrderPart'
  <2>1. stack'[1].fn.kind = "instrumented"
    BY <1>1, <1>2, <1>3 DEF OrderPart
  <2>2. ASSUME NEW k \in 1 .. Depth - 1
        PROVE  stack'[k] = stack[k] /\ stack'[k + 1].from = stack[k + 1].from
    BY <1>2, <1>3
  <2> QED
    BY <1>1, <1>2, <2>1, <2>2 DEF OrderPart
<1>5. FramePart'
  <2>1. /\ ~Compiled(Top.fn) => /\ Top.from = "call" /\ Top.pc # "entry" /\ ~Top.dirty
        /\ Top.fn.kind = "wrapper" =>
               /\ Len(Top.args) = Len(Top.fn.params)
               /\ \A n \in Top.fn.calls : Fn(n).params = Top.fn.params
    BY <1>1, <1>3 DEF FramePart
  <2>2. ASSUME NEW k \in 1 .. Depth - 1
        PROVE  stack'[k] = stack[k] /\ k \in 1 .. Depth
    BY <1>2, <1>3
  <2>3. \A k \in 1 .. Depth : k = Depth \/ k \in 1 .. Depth - 1
    BY <1>3
  <2> QED
    BY <1>1, <1>2, <2>1, <2>2, <2>3 DEF FramePart
<1> QED
  BY <1>4, <1>5

\* The labels are right when those of the last frame, which runs, are.
LEMMA TopLabels ==
    ASSUME Inv, NEW c \in AnyFrame, stack' = [stack EXCEPT ![Depth] = c], ~slip,
           c.pc = "run", \A v \in Loaded(c) : Good(v)
    PROVE  LabelPart'
<1>1. Types /\ OrderPart /\ LabelPart
  BY DEF Inv
<1>2. /\ Depth' = Depth /\ (\A k \in 1 .. Depth - 1 : stack'[k] = stack[k]) /\ stack'[Depth] = c /\ Top' = c
  BY <1>1, TopShape
<1>3. Depth \in Nat /\ Depth > 0
  BY <1>1, StackFacts
<1>4. \A k \in 1 .. Depth : \A v \in Loaded(stack[k]) : Good(v)
  BY <1>1 DEF LabelPart
<1>5. ASSUME NEW k \in 1 .. Depth, NEW v \in Loaded(stack'[k])
      PROVE  Good(v)
  <2>1. CASE k = Depth
    BY <1>2, <2>1
  <2>2. CASE k # Depth
    <3>1. k \in 1 .. Depth - 1
      BY <1>3, <2>2
    <3> QED
      BY <1>2, <1>4, <3>1
  <2> QED
    BY <2>1, <2>2
<1> QED
  BY <1>2, <1>5 DEF LabelPart

LEMMA EnterInv ==
    ASSUME Inv, Enter
    PROVE  Inv'
<1> DEFINE args == [i \in DOMAIN Top.args |->
                        IF Top.fn.kind \in {"force_zero", "native"} THEN Zero
                        ELSE Value(LoadArg(Top.fn, i), Top.args[i].exp)]
           c == [Top EXCEPT !.pc = "run", !.lcs = callstack, !.args = args]
<1>1. Types /\ OrderPart /\ FramePart /\ ContextPart /\ FramesFollow /\ LabelPart
  BY DEF Inv
<1>2. /\ ~slip /\ Top.pc = "entry"
      /\ callstack' = Append(callstack, Top.fn.name)
      /\ frames' = IF Framed(Top.fn) THEN Append(frames, Top.fn.name) ELSE frames
      /\ UNCHANGED <<arg_tls, retval_tls, calls, lost, slip>>
  BY DEF Enter
<1>3. /\ Depth \in Nat /\ Depth > 0 /\ Depth = Len(stack) /\ Top = stack[Depth] /\ Top \in AnyFrame
      /\ stack \in Seq(AnyFrame) /\ callstack \in Seq(Names) /\ frames \in Seq(Names)
  BY <1>1, StackFacts DEF Types
<1>4. /\ Top.fn \in Function /\ Top.args \in Seq(AnyValue)
      /\ Len(Top.args) = Len(Top.fn.params) /\ ~Top.dirty /\ Top.res = Zero /\ Compiled(Top.fn)
  BY <1>1, <1>2, <1>3, AnyFrameFacts DEF FramePart
<1>5. stack' = [stack EXCEPT ![Depth] = c]
  BY <1>3 DEF Enter
<1>6. args \in Seq(AnyValue) /\ Len(args) = Len(Top.args) /\ \A i \in 1 .. Len(args) : Good(args[i])
  <2>1. ASSUME NEW i \in 1 .. Len(Top.args)
        PROVE  LET a == IF Top.fn.kind \in {"force_zero", "native"} THEN Zero
                        ELSE Value(LoadArg(Top.fn, i), Top.args[i].exp)
               IN  a \in AnyValue /\ Good(a)
    <3>1. CASE Top.fn.kind \in {"force_zero", "native"}
      BY <3>1, ZeroFacts
    <3>2. CASE Top.fn.kind \notin {"force_zero", "native"}
      <4>1. LoadArg(Top.fn, i) \in Int
        BY <1>1, <1>4, LoadArgType
      <4>2. Top.args[i].exp \in Int
        <5>1. Top.args[i] \in AnyValue
          BY <1>4
        <5> QED
          BY <5>1 DEF AnyValue
      <4>3. Good(Value(LoadArg(Top.fn, i), Top.args[i].exp))
        BY <1>1, <1>2, <3>2 DEF LabelPart
      <4> QED
        BY <3>2, <4>1, <4>2, <4>3 DEF AnyValue, Value
    <3> QED
      BY <3>1, <3>2
  <2>2. DOMAIN Top.args = 1 .. Len(Top.args)
    BY <1>4
  <2>3. \A i \in 1 .. Len(Top.args) : args[i] \in AnyValue /\ Good(args[i])
    BY <2>1, <2>2
  <2>4. args = [i \in 1 .. Len(Top.args) |-> args[i]]
    BY <2>2
  <2>5. Len(Top.args) \in Nat
    BY <1>4
  <2> HIDE DEF args
  <2>6. args \in Seq(AnyValue) /\ Len(args) = Len(Top.args)
    BY <2>3, <2>4, <2>5
  <2> QED
    BY <2>3, <2>6
<1> HIDE DEF args
<1>7. /\ c \in AnyFrame /\ c.pc = "run" /\ c.fn = Top.fn /\ c.from = Top.from /\ c.dirty = Top.dirty
      /\ c.args = args /\ c.res = Zero /\ c.lcs = callstack
  BY <1>3, <1>4, <1>6 DEF AnyFrame
<1> HIDE DEF c
<1>8. /\ stack' \in Seq(AnyFrame) /\ Len(stack') = Depth /\ Depth' = Depth
      /\ (\A k \in 1 .. Depth - 1 : stack'[k] = stack[k])
      /\ stack'[Depth] = c
  BY <1>1, <1>5, <1>7, TopShape
<1>9. Top.fn.name \in Names /\ Top.fn.kind \notin External
  BY <1>4, KindFacts
<1>10. Types'
  <2>1. callstack' \in Seq(Names) /\ frames' \in Seq(Names)
    BY <1>2, <1>3, <1>9
  <2> QED
    BY <1>1, <1>2, <1>8, <2>1 DEF Types
<1>11. OrderPart' /\ FramePart'
  BY <1>2, <1>4, <1>5, <1>6, <1>7, TopRuns
<1>12. LabelPart'
  <2>1. \A v \in Loaded(c) : Good(v)
    BY <1>6, <1>7, ZeroFacts DEF Loaded, Range
  <2> QED
    BY <1>2, <1>5, <1>7, <2>1, TopLabels
<1>13. \A k \in 1 .. Depth - 1 : Keeps(stack'[k], stack[k])
  BY <1>8 DEF Keeps
<1>14. \A hidden : \A k \in 0 .. Depth - 1 : EnteredNames(stack', hidden)[k] = EnteredNames(stack, hidden)[k]
  <2>1. Depth - 1 \in Nat /\ Depth - 1 <= Len(stack) /\ Depth - 1 <= Len(stack')
    BY <1>3, <1>8
  <2> QED
    BY <1>3, <1>8, <1>13, <2>1, NamesKept
<1>15. ASSUME NEW hidden
       PROVE  /\ EnteredNames(stack, hidden)[Depth] = EnteredNames(stack, hidden)[Depth - 1]
              /\ EnteredNames(stack', hidden)[Depth] =
                   IF Top.fn.kind \in hidden THEN EnteredNames(stack, hidden)[Depth]
                   ELSE Append(EnteredNames(stack, hidden)[Depth], Top.fn.name)
  <2>1. Depth \in 1 .. Len(stack) /\ Depth \in 1 .. Len(stack') /\ Depth - 1 \in 0 .. Depth - 1
    BY <1>3, <1>8
  <2>2. EnteredNames(stack, hidden)[Depth] = EnteredNames(stack, hidden)[Depth - 1]
    BY <1>2, <1>3, <2>1, NamesAt
  <2>3. c.pc # "entry" /\ c.fn.kind = Top.fn.kind /\ c.fn.name = Top.fn.name
    BY <1>7
  <2>4. EnteredNames(stack', hidden)[Depth] =
          IF Top.fn.kind \in hidden THEN EnteredNames(stack', hidden)[Depth - 1]
          ELSE Append(EnteredNames(stack', hidden)[Depth - 1], Top.fn.name)
    BY <1>8, <2>1, <2>3, NamesAt
  <2>5. EnteredNames(stack', hidden)[Depth - 1] = EnteredNames(stack, hidden)[Depth - 1]
    BY <1>14, <2>1
  <2> QED
    BY <2>2, <2>4, <2>5
<1>16. FramesFollow'
  <2> DEFINE hidden == External \cup {"wrapper"}
  <2>1. Framed(Top.fn) <=> Top.fn.kind \notin hidden
    BY <1>4, <1>9, KindFacts
  <2>2. ~lost' => frames = EnteredNames(stack, hidden)[Depth]
    BY <1>1, <1>2 DEF FramesFollow
  <2> HIDE DEF hidden
  <2>3. ~lost' => frames' = EnteredNames(stack', hidden)[Depth]
    BY <1>2, <1>15, <2>1, <2>2
  <2> QED
    BY <1>8, <2>3 DEF FramesFollow, hidden
<1>17. ContextPart'
  <2>1. \A k \in 1 .. Depth - 1 :
          Compiled(stack'[k].fn) /\ stack'[k].pc # "entry" /\ (\A j \in 1 .. k - 1 : ~stack'[j].dirty) =>
              stack'[k].lcs = EnteredNames(stack', External)[k - 1]
    <3>1. Depth - 1 \in Nat /\ Depth - 1 <= Len(stack) /\ Depth - 1 <= Len(stack')
      BY <1>3, <1>8
    <3> QED
      BY <1>1, <1>3, <1>8, <1>13, <3>1, ContextKept
  <2>2. ASSUME \A j \in 1 .. Depth - 1 : ~stack'[j].dirty
        PROVE  callstack = EnteredNames(stack, External)[Depth]
    <3>1. \A j \in 1 .. Depth - 1 : ~stack[j].dirty
      BY <1>8, <2>2
    <3>2. \A j \in DOMAIN stack : j = Depth \/ j \in 1 .. Depth - 1
      BY <1>3
    <3>3. \A j \in DOMAIN stack : ~stack[j].dirty
      BY <1>3, <1>4, <3>1, <3>2
    <3> QED
      BY <1>1, <3>3 DEF ContextPart, ContextFollows
  <2>3. (\A j \in 1 .. Depth - 1 : ~stack'[j].dirty) => stack'[Depth].lcs = EnteredNames(stack', External)[Depth - 1]
    <3>1. Depth - 1 \in 0 .. Depth - 1
      BY <1>3
    <3> QED
      BY <1>7, <1>8, <1>14, <1>15, <2>2, <3>1
  <2>4. ContextFollows'
    <3>1. SUFFICES ASSUME \A j \in DOMAIN stack' : ~stack'[j].dirty
                   PROVE  callstack' = EnteredNames(stack', External)[Depth]
      BY <1>8 DEF ContextFollows
    <3>2. \A j \in 1 .. Depth - 1 : j \in DOMAIN stack'
      BY <1>3, <1>8
    <3> QED
      BY <1>2, <1>9, <1>15, <2>2, <3>1, <3>2
  <2>5. \A k \in 1 .. Depth : k = Depth \/ k \in 1 .. Depth - 1
    BY <1>3
  <2> QED
    BY <1>8, <2>1, <2>3, <2>4, <2>5 DEF ContextPart
<1> QED
  BY <1>10, <1>11, <1>12, <1>16, <1>17 DEF Inv

LEMMA LoadResultInv ==
    ASSUME Inv, LoadResult
    PROVE  Inv'
<1> DEFINE res == IF Top.fn.kind = "force_zero" THEN Zero ELSE Value(retval_tls, Top.res.exp)
           c == [Top EXCEPT !.pc = "run", !.res = res]
<1>1. Types /\ OrderPart /\ FramePart /\ ContextPart /\ FramesFollow /\ LabelPart
  BY DEF Inv
<1>2. ~slip /\ Top.pc = "load" /\ UNCHANGED <<arg_tls, retval_tls, callstack, frames, calls, lost, slip>>
  BY DEF LoadResult
<1>3. /\ Depth \in Nat /\ Depth > 0 /\ Depth = Len(stack) /\ Top = stack[Depth] /\ Top \in AnyFrame
      /\ stack \in Seq(AnyFrame) /\ Depth \in 1 .. Depth
  BY <1>1, StackFacts DEF Types
<1>4. res \in AnyValue /\ Good(res)
  <2>1. Top.res.exp \in Int /\ retval_tls \in Int
    BY <1>1, <1>3 DEF AnyFrame, AnyValue, Types
  <2>2. Good(Value(retval_tls, Top.res.exp))
    BY <1>1, <1>2 DEF LabelPart
  <2> QED
    BY <2>1, <2>2, ZeroFacts DEF AnyValue, Value
<1>5. stack' = [stack EXCEPT ![Depth] = c]
  BY <1>3 DEF LoadResult
<1> HIDE DEF res
<1>6. /\ c \in AnyFrame /\ c.pc = "run" /\ c.fn = Top.fn /\ c.from = Top.from /\ c.dirty = Top.dirty
      /\ c.args = Top.args /\ c.res = res /\ c.lcs = Top.lcs
  BY <1>3, <1>4 DEF AnyFrame
<1> HIDE DEF c
<1>7. /\ stack' \in Seq(AnyFrame) /\ Len(stack') = Depth /\ Depth' = Depth
      /\ (\A k \in 1 .. Depth - 1 : stack'[k] = stack[k])
      /\ stack'[Depth] = c
  BY <1>1, <1>5, <1>6, TopShape
<1>8. Types'
  BY <1>1, <1>2, <1>7 DEF Types
<1>9. OrderPart' /\ FramePart'
  BY <1>2, <1>5, <1>6, TopRuns
<1>10. LabelPart'
  <2>1. \A v \in Loaded(Top) : Good(v)
    BY <1>1, <1>2, <1>3 DEF LabelPart
  <2>2. \A v \in Loaded(c) : Good(v)
    BY <1>2, <1>4, <1>6, <2>1 DEF Loaded
  <2> QED
    BY <1>2, <1>5, <1>6, <2>2, TopLabels
<1>11. \A k \in 1 .. Depth : Keeps(stack'[k], stack[k])
  <2>1. Keeps(c, Top)
    BY <1>2, <1>6 DEF Keeps
  <2>2. \A k \in 1 .. Depth : k = Depth \/ k \in 1 .. Depth - 1
    BY <1>3
  <2>3. \A k \in 1 .. Depth - 1 : Keeps(stack'[k], stack[k])
    BY <1>7 DEF Keeps
  <2> QED
    BY <1>3, <1>7, <2>1, <2>2, <2>3
<1>12. \A hidden : EnteredNames(stack', hidden)[Depth] = EnteredNames(stack, hidden)[Depth]
  <2>1. Depth <= Len(stack) /\ Depth <= Len(stack') /\ Depth \in 0 .. Depth
    BY <1>3, <1>7
  <2> QED
    BY <1>3, <1>7, <1>11, <2>1, NamesKept
<1>13. FramesFollow'
  BY <1>1, <1>2, <1>7, <1>12 DEF FramesFollow
<1>14. ContextPart'
  <2>1. \A k \in 1 .. Depth :
          Compiled(stack'[k].fn) /\ stack'[k].pc # "entry" /\ (\A j \in 1 .. k - 1 : ~stack'[j].dirty) =>
              stack'[k].lcs = EnteredNames(stack', External)[k - 1]
    <3>1. Depth <= Len(stack) /\ Depth <= Len(stack')
      BY <1>3, <1>7
    <3> QED
      BY <1>1, <1>3, <1>7, <1>11, <3>1, ContextKept
  <2>2. ContextFollows'
    <3>1. DOMAIN stack' = 1 .. Depth /\ DOMAIN stack = 1 .. Depth
      BY <1>3, <1>7
    <3>2. (\A j \in 1 .. Depth : ~stack'[j].dirty) => \A j \in 1 .. Depth : ~stack[j].dirty
      BY <1>11 DEF Keeps
    <3> QED
      BY <1>1, <1>2, <1>7, <1>12, <3>1, <3>2 DEF ContextPart, ContextFollows
  <2> QED
    BY <1>7, <2>1, <2>2 DEF ContextPart
<1> QED
  BY <1>8, <1>9, <1>10, <1>13, <1>14 DEF Inv

-----------------------------------------------------------------------------
(* Returns. *)

\* The last frame is gone and its caller has become c.
Pops(c) ==
    /\ c \in AnyFrame
    /\ Depth > 1
    /\ stack' = [Front(stack) EXCEPT ![Depth - 1] = c]
    /\ Keeps(c, stack[Depth - 1])
    /\ c.fn = stack[Depth - 1].fn /\ c.args = stack[Depth - 1].args
    /\ c.from = stack[Depth - 1].from /\ c.dirty = stack[Depth - 1].dirty
    /\ c.pc \in {"run", "load", "call"}
    /\ \A v \in Loaded(c) : Good(v)
    /\ c.pc = "load" => Good(Value(retval_tls', c.res.exp))
    /\ ~slip

LEMMA PopShape ==
    ASSUME Types, OrderPart, NEW c, Pops(c)
    PROVE  /\ stack' \in Seq(AnyFrame) /\ Len(stack') = Depth - 1 /\ Depth' = Depth - 1
           /\ \A k \in 1 .. Depth - 2 : stack'[k] = stack[k]
           /\ stack'[Depth - 1] = c /\ Top' = c
           /\ Depth - 1 \in Nat /\ Depth - 1 <= Len(stack) /\ Depth - 1 <= Len(stack')
           /\ \A k \in 1 .. Depth - 1 : Keeps(stack'[k], stack[k])
<1>1. /\ stack \in Seq(AnyFrame) /\ Depth \in Nat /\ Depth > 1 /\ Depth = Len(stack)
      /\ c \in AnyFrame /\ stack' = [Front(stack) EXCEPT ![Depth - 1] = c]
      /\ Keeps(c, stack[Depth - 1])
  BY StackFacts DEF Types, Pops
<1>2. /\ Front(stack) \in Seq(AnyFrame) /\ Len(Front(stack)) = Depth - 1
      /\ \A k \in 1 .. Depth - 1 : Front(stack)[k] = stack[k]
  BY <1>1 DEF Front
<1>3. /\ stack' \in Seq(AnyFrame) /\ Len(stack') = Depth - 1
      /\ \A k \in 1 .. Depth - 2 : stack'[k] = Front(stack)[k]
      /\ stack'[Depth - 1] = c
  BY <1>1, <1>2
<1>4. \A k \in 1 .. Depth - 2 : k \in 1 .. Depth - 1 /\ stack'[k] = stack[k]
  BY <1>1, <1>2, <1>3
<1>5. \A k \in 1 .. Depth - 1 : k = Depth - 1 \/ k \in 1 .. Depth - 2
  BY <1>1
<1>6. \A k \in 1 .. Depth - 2 : Keeps(stack'[k], stack[k])
  BY <1>4 DEF Keeps
<1>7. \A k \in 1 .. Depth - 1 : Keeps(stack'[k], stack[k])
  BY <1>1, <1>3, <1>5, <1>6
<1>8. Depth' = Depth - 1 /\ Top' = c
  BY <1>3 DEF Depth, Top, Last
<1> QED
  BY <1>1, <1>3, <1>4, <1>7, <1>8

LEMMA PopOrder ==
    ASSUME Inv, NEW c, Pops(c), slip' = slip
    PROVE  OrderPart' /\ FramePart' /\ LabelPart'
<1>1. Types /\ OrderPart /\ FramePart /\ LabelPart
  BY DEF Inv
<1>2. /\ Len(stack') = Depth - 1 /\ Depth' = Depth - 1
      /\ \A k \in 1 .. Depth - 2 : stack'[k] = stack[k]
      /\ stack'[Depth - 1] = c /\ Top' = c
  BY <1>1, PopShape
<1>3. /\ c \in AnyFrame /\ Depth > 1 /\ Depth \in Nat /\ Keeps(c, stack[Depth - 1])
      /\ c.fn = stack[Depth - 1].fn /\ c.args = stack[Depth - 1].args
      /\ c.from = stack[Depth - 1].from /\ c.dirty = stack[Depth - 1].dirty
      /\ c.pc \in {"run", "load", "call"} /\ ~slip
  BY <1>1, StackFacts DEF Pops
<1>4. OrderPart'
  <2>1. stack'[1].fn.kind = "instrumented"
    BY <1>1, <1>2, <1>3 DEF OrderPart
  <2>2. ASSUME NEW k \in 1 .. Depth - 2
        PROVE  stack'[k] = stack[k] /\ stack'[k + 1].from = stack[k + 1].from /\ k \in 1 .. Depth - 1
    BY <1>2, <1>3
  <2>3. 1 .. Depth' - 1 = 1 .. Depth - 2 /\ Depth' > 0
    BY <1>2, <1>3
  <2> QED
    BY <1>1, <1>3, <2>1, <2>2, <2>3 DEF OrderPart
<1>5. FramePart'
  <2> DEFINE old == stack[Depth - 1]
  <2>1. /\ ~Compiled(old.fn) => old.from = "call" /\ old.pc # "entry" /\ ~old.dirty
        /\ old.fn.kind = "wrapper" => /\ Len(old.args) = Len(old.fn.params)
                                      /\ \A n \in old.fn.calls : Fn(n).params = old.fn.params
    <3>1. Depth - 1 \in 1 .. Depth
      BY <1>3
    <3> QED
      BY <1>1, <3>1 DEF FramePart
  <2>2. ASSUME NEW k \in 1 .. Depth - 2
        PROVE  stack'[k] = stack[k] /\ k \in 1 .. Depth
    BY <1>2, <1>3
  <2>3. \A k \in 1 .. Depth - 1 : k = Depth - 1 \/ k \in 1 .. Depth - 2
    BY <1>3
  <2>4. /\ c.pc # "entry"
        /\ ~Compiled(c.fn) => c.from = "call" /\ ~c.dirty
        /\ c.fn.kind = "wrapper" => /\ Len(c.args) = Len(c.fn.params)
                                    /\ \A n \in c.fn.calls : Fn(n).params = c.fn.params
    BY <1>3, <2>1
  <2> HIDE DEF old
  <2> QED
    BY <1>1, <1>2, <2>2, <2>3, <2>4 DEF FramePart
<1>6. LabelPart'
  <2>1. \A k \in 1 .. Depth : \A v \in Loaded(stack[k]) : Good(v)
    BY <1>1, <1>3 DEF LabelPart
  <2>2. ASSUME NEW k \in 1 .. Depth - 1, NEW v \in Loaded(stack'[k])
        PROVE  Good(v)
    <3>1. CASE k = Depth - 1
      BY <1>2, <3>1 DEF Pops
    <3>2. CASE k # Depth - 1
      <4>1. k \in 1 .. Depth - 2 /\ k \in 1 .. Depth
        BY <1>3, <3>2
      <4> QED
        BY <1>2, <2>1, <4>1
    <3> QED
      BY <3>1, <3>2
  <2>3. Top'.pc = "load" => Good(Value(retval_tls', Top'.res.exp))
    BY <1>2 DEF Pops
  <2>4. Top'.pc # "entry"
    BY <1>2, <1>3
  <2> QED
    BY <1>2, <2>2, <2>3, <2>4 DEF LabelPart
<1> QED
  BY <1>4, <1>5, <1>6

\* What a pop makes of the names.
LEMMA PopNames ==
    ASSUME Inv, NEW c, Pops(c)
    PROVE  /\ \A hidden : EnteredNames(stack', hidden)[Depth'] = EnteredNames(stack, hidden)[Depth - 1]
           /\ \A hidden : EnteredNames(stack, hidden)[Depth] =
                IF Top.fn.kind \in hidden \/ Top.pc = "entry" THEN EnteredNames(stack, hidden)[Depth - 1]
                ELSE Append(EnteredNames(stack, hidden)[Depth - 1], Top.fn.name)
           /\ \A hidden : EnteredNames(stack, hidden)[Depth - 1] \in Seq(Names)
           /\ \A k \in 1 .. Depth' :
                Compiled(stack'[k].fn) /\ stack'[k].pc # "entry" /\ (\A j \in 1 .. k - 1 : ~stack'[j].dirty) =>
                    stack'[k].lcs = EnteredNames(stack', External)[k - 1]
           /\ (\A k \in DOMAIN stack' : ~stack'[k].dirty) => \A k \in 1 .. Depth - 1 : ~stack[k].dirty
<1>1. Types /\ OrderPart /\ ContextPart
  BY DEF Inv
<1>2. /\ stack' \in Seq(AnyFrame) /\ Len(stack') = Depth - 1 /\ Depth' = Depth - 1
      /\ Depth - 1 \in Nat /\ Depth - 1 <= Len(stack) /\ Depth - 1 <= Len(stack')
      /\ \A k \in 1 .. Depth - 1 : Keeps(stack'[k], stack[k])
  BY <1>1, PopShape
<1>3. /\ stack \in Seq(AnyFrame) /\ Depth \in Nat /\ Depth > 0 /\ Depth = Len(stack) /\ Top = stack[Depth]
      /\ \A k \in 1 .. Depth : stack[k] \in AnyFrame
  BY <1>1, StackFacts DEF Types
<1>4. ASSUME NEW hidden
      PROVE  EnteredNames(stack', hidden)[Depth'] = EnteredNames(stack, hidden)[Depth - 1]
  <2>1. Depth - 1 \in 0 .. Depth - 1
    BY <1>2
  <2> QED
    BY <1>2, <1>3, <2>1, NamesKept
<1>5. ASSUME NEW hidden
      PROVE  EnteredNames(stack, hidden)[Depth] =
                IF Top.fn.kind \in hidden \/ Top.pc = "entry" THEN EnteredNames(stack, hidden)[Depth - 1]
                ELSE Append(EnteredNames(stack, hidden)[Depth - 1], Top.fn.name)
  <2>1. Depth \in 1 .. Len(stack)
    BY <1>3
  <2> QED
    BY <1>3, <2>1, NamesAt
<1>6. ASSUME NEW hidden
      PROVE  EnteredNames(stack, hidden)[Depth - 1] \in Seq(Names)
  <2>1. \A k \in 1 .. Len(stack) : stack[k].fn.name \in Names
    BY <1>3, AnyFrameFacts, KindFacts
  <2>2. Depth - 1 \in 0 .. Len(stack)
    BY <1>2, <1>3
  <2> QED
    BY <1>3, <2>1, <2>2, NamesType
<1>7. \A k \in 1 .. Depth' :
        Compiled(stack'[k].fn) /\ stack'[k].pc # "entry" /\ (\A j \in 1 .. k - 1 : ~stack'[j].dirty) =>
            stack'[k].lcs = EnteredNames(stack', External)[k - 1]
  BY <1>1, <1>2, <1>3, ContextKept
<1>8. (\A k \in DOMAIN stack' : ~stack'[k].dirty) => \A k \in 1 .. Depth - 1 : ~stack[k].dirty
  <2>1. DOMAIN stack' = 1 .. Depth - 1
    BY <1>2
  <2> QED
    BY <1>2, <2>1 DEF Keeps
<1> QED
  BY <1>4, <1>5, <1>6, <1>7, <1>8

\* A caller to which Returned is applied.
LEMMA ReturnedPops ==
    ASSUME Inv, ~slip, Depth > 1, NEW f \in Function, NEW from, NEW v \in AnyValue,
           from = "signal" \/ stack[Depth - 1].pc = "call",
           from \notin {"signal", "native"} /\ f.ret > 0 /\ f.ret <= RetvalTLSSize
             /\ f.kind \in {"instrumented", "force_zero", "wrapper", "vararg"} =>
                 Good(Value(retval_tls', v.exp)),
           stack' = [Front(stack) EXCEPT ![Depth - 1] = Returned(stack[Depth - 1], f, from, v)]
    PROVE  Pops(Returned(stack[Depth - 1], f, from, v))
<1> DEFINE old == stack[Depth - 1]
           c == Returned(old, f, from, v)
<1>1. Types /\ OrderPart /\ LabelPart
  BY DEF Inv
<1>2. Depth \in Nat /\ Depth - 1 \in 1 .. Depth - 1 /\ Depth - 1 \in 1 .. Depth /\ old \in AnyFrame
  BY <1>1, StackFacts
<1>3. old.pc \in {"run", "call"} /\ (\A x \in Loaded(old) : Good(x))
  BY <1>1, <1>2 DEF OrderPart, LabelPart
<1>4. Loaded(old) = Range(old.args) \cup {old.res}
  BY <1>3 DEF Loaded
<1>5. f.ret \in Nat
  BY KindFacts
<1>6. Value(Junk, v.exp) \in AnyValue /\ Value(Junk, v.exp).exp = v.exp
  BY DEF Value, Junk, AnyValue
<1> HIDE DEF old
<1>7. /\ c \in AnyFrame /\ Keeps(c, old) /\ c.fn = old.fn /\ c.args = old.args
      /\ c.from = old.from /\ c.dirty = old.dirty /\ c.pc \in {"run", "load", "call"}
      /\ \A x \in Loaded(c) : Good(x)
      /\ c.pc = "load" => Good(Value(retval_tls', c.res.exp))
  <2>1. CASE from = "signal"
    <3>1. c = old
      BY <2>1 DEF Returned
    <3> HIDE DEF c
    <3> QED
      BY <1>2, <1>3, <3>1 DEF Keeps
  <2>2. CASE from # "signal" /\ (from = "native" \/ f.ret = 0)
    <3>1. c = [old EXCEPT !.pc = "run"]
      BY <2>2 DEF Returned
    <3>2. /\ c \in AnyFrame /\ c.fn = old.fn /\ c.args = old.args /\ c.res = old.res /\ c.lcs = old.lcs
          /\ c.from = old.from /\ c.dirty = old.dirty /\ c.pc = "run"
      BY <1>2, <3>1 DEF AnyFrame
    <3> HIDE DEF c
    <3>3. Loaded(c) = Loaded(old)
      BY <1>4, <3>2 DEF Loaded
    <3> QED
      BY <1>3, <3>2, <3>3 DEF Keeps
  <2>3. CASE /\ from \notin {"signal", "native"} /\ f.ret # 0
             /\ f.kind \in {"instrumented", "force_zero", "wrapper", "vararg"} /\ f.ret <= RetvalTLSSize
    <3>1. c = [old EXCEPT !.pc = "load", !.res = Value(Junk, v.exp)]
      BY <2>3 DEF Returned
    <3>2. /\ c \in AnyFrame /\ c.fn = old.fn /\ c.args = old.args /\ c.lcs = old.lcs
          /\ c.from = old.from /\ c.dirty = old.dirty /\ c.pc = "load" /\ c.res = Value(Junk, v.exp)
      BY <1>2, <1>6, <3>1 DEF AnyFrame
    <3>3. Good(Value(retval_tls', v.exp))
      BY <1>5, <2>3
    <3> HIDE DEF c
    <3>4. Loaded(c) \subseteq Loaded(old)
      BY <1>4, <3>2 DEF Loaded
    <3> QED
      BY <1>3, <1>6, <3>2, <3>3, <3>4 DEF Keeps
  <2>4. CASE /\ from \notin {"signal", "native"} /\ f.ret # 0
             /\ ~(f.kind \in {"instrumented", "force_zero", "wrapper", "vararg"} /\ f.ret <= RetvalTLSSize)
    <3>1. c = [old EXCEPT !.pc = "run", !.res = Zero]
      BY <2>4 DEF Returned
    <3>2. /\ c \in AnyFrame /\ c.fn = old.fn /\ c.args = old.args /\ c.res = Zero /\ c.lcs = old.lcs
          /\ c.from = old.from /\ c.dirty = old.dirty /\ c.pc = "run"
      BY <1>2, <3>1, ZeroFacts DEF AnyFrame
    <3> HIDE DEF c
    <3>3. Loaded(c) \subseteq Loaded(old) \cup {Zero}
      BY <1>4, <3>2 DEF Loaded
    <3> QED
      BY <1>3, <3>2, <3>3, ZeroFacts DEF Keeps
  <2> QED
    BY <2>1, <2>2, <2>3, <2>4
<1> QED
  BY <1>7 DEF Pops, old

LEMMA ReturnInv ==
    ASSUME Inv, NEW v \in Values(Top), Return(v)
    PROVE  Inv'
<1> DEFINE f == Top.fn
           old == stack[Depth - 1]
           c == Returned(old, f, Top.from, v)
<1>1. Types /\ OrderPart /\ FramePart /\ ContextPart /\ FramesFollow /\ LabelPart
  BY DEF Inv
<1>2. /\ ~slip /\ Top.pc = "run" /\ Depth > 1 /\ Compiled(f)
      /\ retval_tls' = IF f.kind # "native" /\ f.ret > 0 /\ RetvalFits(f) THEN v.label ELSE retval_tls
      /\ callstack' = Top.lcs
      /\ frames' = IF Framed(f) THEN Front(frames) ELSE frames
      /\ UNCHANGED <<arg_tls, calls, lost, slip>>
  BY DEF Return, Running, Restored
<1>3. /\ Depth \in Nat /\ Depth = Len(stack) /\ Top = stack[Depth] /\ Top \in AnyFrame
      /\ stack \in Seq(AnyFrame) /\ frames \in Seq(Names) /\ Depth \in 1 .. Depth
      /\ DOMAIN stack = 1 .. Depth
  BY <1>1, StackFacts DEF Types
<1>4. f \in Function /\ Top.lcs \in Seq(Names)
  BY <1>3, AnyFrameFacts
<1>5. v \in AnyValue /\ Good(v) /\ v.label \in Int
  <2>1. \A x \in Loaded(Top) : Good(x)
    BY <1>1, <1>2, <1>3 DEF LabelPart
  <2>2. v \in AnyValue /\ Good(v)
    BY <1>2, <1>3, <2>1, ValuesFacts
  <2> QED
    BY <2>2 DEF AnyValue
<1>6. stack' = [Front(stack) EXCEPT ![Depth - 1] = c]
  <2>1. stack' = [Front(stack) EXCEPT ![Depth - 1] = Returned(Front(stack)[Depth - 1], f, Top.from, v)]
    BY DEF Return
  <2>2. Front(stack)[Depth - 1] = stack[Depth - 1]
    BY <1>2, <1>3 DEF Front
  <2> QED
    BY <2>1, <2>2
<1>7. Top.from = "signal" \/ old.pc = "call"
  <2>1. Depth - 1 \in 1 .. Depth - 1 /\ Depth - 1 + 1 = Depth
    BY <1>2, <1>3
  <2> QED
    BY <1>1, <1>3, <2>1 DEF OrderPart
<1>8. Top.from \notin {"signal", "native"} /\ f.ret > 0 /\ f.ret <= RetvalTLSSize
        /\ f.kind \in {"instrumented", "force_zero", "wrapper", "vararg"} =>
            Good(Value(retval_tls', v.exp))
  <2>1. SUFFICES ASSUME f.ret > 0, f.ret <= RetvalTLSSize,
                        f.kind \in {"instrumented", "force_zero", "wrapper", "vararg"}
                 PROVE  Good(Value(retval_tls', v.exp))
    OBVIOUS
  <2>2. retval_tls' = v.label
    BY <1>2, <2>1 DEF RetvalFits
  <2> QED
    BY <1>5, <2>2 DEF Good, Value
<1>9. Pops(c)
  BY <1>2, <1>4, <1>5, <1>6, <1>7, <1>8, ReturnedPops
<1> HIDE DEF c, old
<1>10. /\ stack' \in Seq(AnyFrame) /\ Depth' = Depth - 1
  BY <1>1, <1>9, PopShape
<1>11. /\ \A hidden : EnteredNames(stack', hidden)[Depth'] = EnteredNames(stack, hidden)[Depth - 1]
       /\ \A hidden : EnteredNames(stack, hidden)[Depth] =
            IF f.kind \in hidden \/ Top.pc = "entry" THEN EnteredNames(stack, hidden)[Depth - 1]
            ELSE Append(EnteredNames(stack, hidden)[Depth - 1], f.name)
       /\ \A hidden : EnteredNames(stack, hidden)[Depth - 1] \in Seq(Names)
       /\ \A k \in 1 .. Depth' :
            Compiled(stack'[k].fn) /\ stack'[k].pc # "entry" /\ (\A j \in 1 .. k - 1 : ~stack'[j].dirty) =>
                stack'[k].lcs = EnteredNames(stack', External)[k - 1]
       /\ (\A k \in DOMAIN stack' : ~stack'[k].dirty) => \A k \in 1 .. Depth - 1 : ~stack[k].dirty
  BY <1>9, PopNames
<1>12. f.name \in Names /\ (Framed(f) <=> f.kind \notin External \cup {"wrapper"})
  BY <1>2, <1>4, KindFacts
<1>13. OrderPart' /\ FramePart' /\ LabelPart'
  BY <1>2, <1>9, PopOrder
<1>14. Types'
  <2>1. retval_tls' \in Int
    BY <1>1, <1>2, <1>5 DEF Types
  <2>2. frames' \in Seq(Names)
    <3>1. Front(frames) \in Seq(Names)
      BY <1>3 DEF Front
    <3> QED
      BY <1>2, <1>3, <3>1
  <2>3. callstack' \in Seq(Names)
    BY <1>2, <1>4
  <2> QED
    BY <1>1, <1>2, <1>10, <2>1, <2>2, <2>3 DEF Types
<1>15. ContextPart'
  <2>1. ContextFollows'
    <3>1. SUFFICES ASSUME \A k \in 1 .. Depth - 1 : ~stack[k].dirty
                   PROVE  callstack' = EnteredNames(stack, External)[Depth - 1]
      BY <1>11 DEF ContextFollows
    <3>2. Top.lcs = EnteredNames(stack, External)[Depth - 1]
      BY <1>1, <1>2, <1>3, <3>1 DEF ContextPart
    <3> QED
      BY <1>2, <3>2
  <2> QED
    BY <1>11, <2>1 DEF ContextPart
<1>16. FramesFollow'
  <2> DEFINE hidden == External \cup {"wrapper"}
             below == EnteredNames(stack, hidden)[Depth - 1]
  <2>1. ~lost => frames = EnteredNames(stack, hidden)[Depth]
    BY <1>1 DEF FramesFollow
  <2>2. EnteredNames(stack', hidden)[Depth'] = below /\ below \in Seq(Names)
    BY <1>11
  <2>3. EnteredNames(stack, hidden)[Depth] = IF Framed(f) THEN Append(below, f.name) ELSE below
    BY <1>2, <1>11, <1>12
  <2> HIDE DEF hidden, below
  <2>4. Front(Append(below, f.name)) = below
    BY <2>2, <1>12 DEF Front
  <2>5. ~lost' => frames' = EnteredNames(stack', hidden)[Depth']
    BY <1>2, <2>1, <2>2, <2>3, <2>4
  <2> QED
    BY <2>5 DEF FramesFollow, hidden
<1> QED
  BY <1>13, <1>14, <1>15, <1>16 DEF Inv

LEMMA ReturnNativeInv ==
    ASSUME Inv, NEW v \in Values(Top), NEW writes \in BOOLEAN, ReturnNative(v, writes)
    PROVE  Inv'
<1> DEFINE f == Top.fn
           old == stack[Depth - 1]
           label == IF writes THEN v.label ELSE old.labelreturn
           custom == [old EXCEPT !.pc = "run", !.labelreturn = label,
                                 !.res = Value(label, IF writes THEN v.exp ELSE Unknown)]
           c == IF f.kind = "custom" THEN custom ELSE Returned(old, f, "call", Value(0, Unknown))
<1>1. Types /\ OrderPart /\ FramePart /\ ContextPart /\ FramesFollow /\ LabelPart
  BY DEF Inv
<1>2. /\ ~slip /\ Top.pc = "run" /\ ~Compiled(f)
      /\ UNCHANGED <<arg_tls, retval_tls, callstack, frames, calls, lost, slip>>
  BY DEF ReturnNative, Running
<1>3. /\ Depth \in Nat /\ Depth = Len(stack) /\ Top = stack[Depth] /\ Top \in AnyFrame
      /\ stack \in Seq(AnyFrame) /\ Depth \in 1 .. Depth /\ Depth > 0 /\ DOMAIN stack = 1 .. Depth
      /\ \A k \in 1 .. Depth : stack[k] \in AnyFrame
  BY <1>1, StackFacts DEF Types
<1>4. f \in Function /\ f.kind \in External
  BY <1>2, <1>3, AnyFrameFacts, KindFacts
<1>5. Top.from = "call" /\ ~Top.dirty
  BY <1>1, <1>2, <1>3 DEF FramePart
<1>6. Depth > 1
  <2>1. f.kind # "instrumented"
    BY <1>4 DEF External
  <2>2. Depth # 1
    BY <1>1, <1>3, <2>1 DEF OrderPart
  <2> QED
    BY <1>3, <2>2
<1>7. old.pc = "call" /\ old \in AnyFrame /\ Depth - 1 \in 1 .. Depth
  <2>1. Depth - 1 \in 1 .. Depth - 1 /\ Depth - 1 + 1 = Depth /\ Depth - 1 \in 1 .. Depth
    BY <1>3, <1>6
  <2> QED
    BY <1>1, <1>3, <1>5, <2>1 DEF OrderPart
<1>8. v \in AnyValue /\ Good(v) /\ v.label \in Int /\ v.exp \in Int
  <2>1. \A x \in Loaded(Top) : Good(x)
    BY <1>1, <1>2, <1>3 DEF LabelPart
  <2>2. v \in AnyValue /\ Good(v)
    BY <1>2, <1>3, <2>1, ValuesFacts
  <2> QED
    BY <2>2 DEF AnyValue
<1>9. stack' = [Front(stack) EXCEPT ![Depth - 1] = c]
  BY DEF ReturnNative
<1>10. Pops(c)
  <2>1. CASE f.kind = "custom"
    <3>1. label \in Int
      BY <1>7, <1>8 DEF AnyFrame
    <3> DEFINE res == Value(label, IF writes THEN v.exp ELSE Unknown)
    <3>2. res \in AnyValue /\ Good(res)
      BY <3>1, <1>8 DEF AnyValue, Value, Unknown, Good
    <3>3. custom = [old EXCEPT !.pc = "run", !.labelreturn = label, !.res = res]
      OBVIOUS
    <3> HIDE DEF res, label, old
    <3>4. /\ custom \in AnyFrame /\ custom.fn = old.fn /\ custom.args = old.args /\ custom.res = res
          /\ custom.lcs = old.lcs /\ custom.from = old.from /\ custom.dirty = old.dirty
          /\ custom.pc = "run"
      BY <1>7, <3>1, <3>2, <3>3 DEF AnyFrame
    <3>5. c = custom
      BY <2>1
    <3> HIDE DEF custom, c
    <3>6. \A x \in Loaded(old) : Good(x)
      BY <1>1, <1>2, <1>7 DEF LabelPart, old
    <3>7. \A x \in Loaded(custom) : Good(x)
      BY <1>7, <3>2, <3>4, <3>6 DEF Loaded
    <3>8. Keeps(custom, old)
      BY <1>7, <3>4 DEF Keeps
    <3> QED
      BY <1>2, <1>6, <1>9, <3>4, <3>5, <3>7, <3>8 DEF Pops, old
  <2>2. CASE f.kind # "custom"
    <3> DEFINE u == Value(0, Unknown)
    <3>1. u \in AnyValue /\ u.exp = Unknown
      BY DEF AnyValue, Value, Unknown
    <3>2. Good(Value(retval_tls', u.exp))
      BY <3>1 DEF Good, Value
    <3>3. c = Returned(old, f, "call", u)
      BY <2>2
    <3> HIDE DEF u, f, c
    <3> QED
      BY <1>2, <1>4, <1>6, <1>7, <1>9, <3>1, <3>2, <3>3, ReturnedPops DEF f
  <2> QED
    BY <2>1, <2>2
<1> HIDE DEF c, old, custom, label
<1>11. /\ stack' \in Seq(AnyFrame) /\ Depth' = Depth - 1
  BY <1>1, <1>10, PopShape
<1>12. /\ \A hidden : EnteredNames(stack', hidden)[Depth'] = EnteredNames(stack, hidden)[Depth - 1]
       /\ \A hidden : EnteredNames(stack, hidden)[Depth] =
            IF f.kind \in hidden \/ Top.pc = "entry" THEN EnteredNames(stack, hidden)[Depth - 1]
            ELSE Append(EnteredNames(stack, hidden)[Depth - 1], f.name)
       /\ \A k \in 1 .. Depth' :
            Compiled(stack'[k].fn) /\ stack'[k].pc # "entry" /\ (\A j \in 1 .. k - 1 : ~stack'[j].dirty) =>
                stack'[k].lcs = EnteredNames(stack', External)[k - 1]
       /\ (\A k \in DOMAIN stack' : ~stack'[k].dirty) => \A k \in 1 .. Depth - 1 : ~stack[k].dirty
  BY <1>10, PopNames
<1>13. \A hidden : External \subseteq hidden =>
         EnteredNames(stack', hidden)[Depth'] = EnteredNames(stack, hidden)[Depth]
  BY <1>4, <1>12
<1>14. OrderPart' /\ FramePart' /\ LabelPart'
  BY <1>2, <1>10, PopOrder
<1>15. Types'
  BY <1>1, <1>2, <1>11 DEF Types
<1>16. ContextPart'
  <2>1. ContextFollows'
    <3>1. SUFFICES ASSUME \A k \in 1 .. Depth - 1 : ~stack[k].dirty
                   PROVE  callstack' = EnteredNames(stack', External)[Depth']
      BY <1>12 DEF ContextFollows
    <3>2. \A k \in 1 .. Depth : k = Depth \/ k \in 1 .. Depth - 1
      BY <1>3
    <3>3. \A k \in DOMAIN stack : ~stack[k].dirty
      BY <1>3, <1>5, <3>1, <3>2
    <3> QED
      BY <1>1, <1>2, <1>13, <3>3 DEF ContextPart, ContextFollows
  <2> QED
    BY <1>12, <2>1 DEF ContextPart
<1>17. FramesFollow'
  BY <1>1, <1>2, <1>13 DEF FramesFollow
<1> QED
  BY <1>14, <1>15, <1>16, <1>17 DEF Inv

-----------------------------------------------------------------------------
(* Exceptions and longjmp. *)

LEMMA MinIs ==
    ASSUME NEW S, S \subseteq Nat, S # {}
    PROVE  Min(S) \in S /\ \A k \in S : Min(S) <= k
<1>1. PICK m \in S : \A k \in S : m <= k
  BY Least
<1> QED
  BY <1>1 DEF Min

LEMMA MaxIs ==
    ASSUME NEW n \in Nat, NEW S, S \subseteq 1 .. n, S # {}
    PROVE  Max(S) \in S /\ \A k \in S : k <= Max(S)
<1> DEFINE T == {n - k : k \in S}
<1>1. T \subseteq Nat /\ T # {}
  <2>1. \A k \in S : n - k \in Nat
    OBVIOUS
  <2> QED
    BY <2>1, Zenon
<1>2. PICK d \in T : \A e \in T : d <= e
  BY <1>1, Least
<1>3. PICK m \in S : d = n - m
  BY <1>2
<1>4. \A k \in S : m >= k
  <2>1. \A k \in S : n - k \in T /\ k \in Int /\ m \in Int
    OBVIOUS
  <2> HIDE DEF T
  <2> QED
    BY <1>2, <1>3, <2>1
<1>5. \E x \in S : \A y \in S : x >= y
  BY <1>4
<1>6. Max(S) \in S /\ \A y \in S : Max(S) >= y
  BY <1>5 DEF Max
<1> QED
  BY <1>6

\* The functions above the one that catches, and the one whose return restores the
\* context.
LEMMA UnwoundFacts ==
    ASSUME Inv, Running, Compiled(Top.fn), NEW k \in DOMAIN stack, k < Depth
    PROVE  /\ k \in Nat /\ k > 0 /\ k \in 1 .. Depth
           /\ Unwound(k) \subseteq k + 1 .. Depth /\ Depth \in Unwound(k)
           /\ Min(Unwound(k)) \in Unwound(k) /\ (\A j \in Unwound(k) : Min(Unwound(k)) <= j)
           /\ Restorer(k) \in 1 .. k /\ Compiled(stack[Restorer(k)].fn)
<1>1. Types /\ OrderPart
  BY DEF Inv
<1>2. /\ Depth \in Nat /\ Depth > 0 /\ Depth = Len(stack) /\ Top = stack[Depth] /\ DOMAIN stack = 1 .. Depth
      /\ Top.pc = "run"
  BY <1>1, StackFacts DEF Running
<1>3. k \in Nat /\ k > 0 /\ k \in 1 .. Depth /\ Depth \in k + 1 .. Depth
  BY <1>2
<1>4. Unwound(k) \subseteq k + 1 .. Depth /\ Depth \in Unwound(k)
  BY <1>2, <1>3 DEF Unwound
<1>5. Unwound(k) \subseteq Nat /\ Unwound(k) # {}
  BY <1>2, <1>3, <1>4
<1>6. Min(Unwound(k)) \in Unwound(k) /\ (\A j \in Unwound(k) : Min(Unwound(k)) <= j)
  BY <1>5, MinIs
<1> DEFINE R == {j \in 1 .. k : Compiled(stack[j].fn)}
<1>7. 1 \in R
  <2>1. stack[1].fn.kind = "instrumented"
    BY <1>1 DEF OrderPart
  <2> QED
    BY <1>3, <2>1 DEF Compiled, External
<1>8. R \subseteq 1 .. k /\ R # {}
  BY <1>7
<1>9. Max(R) \in R
  BY <1>3, <1>8, MaxIs
<1>10. Restorer(k) \in R
  BY <1>9 DEF Restorer
<1> QED
  BY <1>3, <1>4, <1>6, <1>10

LEMMA UnwindInv ==
    ASSUME Inv, NEW k \in DOMAIN stack, NEW throw \in BOOLEAN, Unwind(k, throw)
    PROVE  Inv'
<1> DEFINE resumed == {j \in Unwound(k) \ {Depth} : throw /\ stack[j].fn.cleanup}
           popped == {j \in resumed : Framed(stack[j].fn)}
           left == {j \in Unwound(k) \ resumed : Framed(stack[j].fn)}
           r == Restorer(k)
           m == Min(Unwound(k))
<1>1. Types /\ OrderPart /\ FramePart /\ ContextPart /\ FramesFollow /\ LabelPart
  BY DEF Inv
<1>2. /\ Running /\ Compiled(Top.fn) /\ k < Depth
      /\ \A j \in k + 1 .. Depth : ~stack[j].fn.catches /\ stack[j].from # "signal"
      /\ stack' = [SubSeq(stack, 1, k) EXCEPT ![k].pc = "run", ![r].dirty = @ \/ m \notin resumed]
      /\ callstack' = IF resumed = {} THEN callstack ELSE stack[Min(resumed)].lcs
      /\ frames' = SubSeq(frames, 1, Len(frames) - Cardinality(popped))
      /\ lost' = (lost \/ left # {})
      /\ UNCHANGED <<arg_tls, retval_tls, slip>>
  BY DEF Unwind, Restored
<1>3. /\ k \in Nat /\ k > 0 /\ k \in 1 .. Depth
      /\ Unwound(k) \subseteq k + 1 .. Depth /\ Depth \in Unwound(k)
      /\ m \in Unwound(k) /\ (\A j \in Unwound(k) : m <= j)
      /\ r \in 1 .. k /\ Compiled(stack[r].fn)
  BY <1>2, UnwoundFacts
<1>4. /\ Depth \in Nat /\ Depth = Len(stack) /\ Top = stack[Depth] /\ DOMAIN stack = 1 .. Depth
      /\ stack \in Seq(AnyFrame) /\ frames \in Seq(Names) /\ callstack \in Seq(Names)
      /\ (\A j \in 1 .. Depth : stack[j] \in AnyFrame) /\ ~slip
  BY <1>1, <1>2, StackFacts DEF Types, Running
<1>5. \A j \in 1 .. k : j \in 1 .. Depth /\ j \in 1 .. Depth - 1
  BY <1>2, <1>3, <1>4
<1>6. stack[k].pc = "call"
  <2>1. k \in 1 .. Depth - 1 /\ k + 1 \in k + 1 .. Depth
    BY <1>2, <1>3, <1>4
  <2> QED
    BY <1>1, <1>2, <2>1 DEF OrderPart
<1> DEFINE X == m \notin resumed
           s == SubSeq(stack, 1, k)
<1>7. s \in Seq(AnyFrame) /\ Len(s) = k /\ \A j \in 1 .. k : s[j] = stack[j]
  BY <1>2, <1>3, <1>4
<1> HIDE DEF resumed, r, m, s, X
<1> DEFINE t == [s EXCEPT ![k] = [s[k] EXCEPT !.pc = "run"]]
<1>8. /\ DOMAIN stack' = 1 .. k
      /\ \A j \in 1 .. k : t[j] = IF j = k THEN [s[j] EXCEPT !.pc = "run"] ELSE s[j]
      /\ \A j \in 1 .. k : stack'[j] = IF j = r THEN [t[j] EXCEPT !.dirty = t[j].dirty \/ X] ELSE t[j]
      /\ stack' = [j \in 1 .. k |-> stack'[j]]
  <2>1. stack' = [t EXCEPT ![r].dirty = @ \/ X]
    BY <1>2 DEF s, X
  <2>2. stack' = [t EXCEPT ![r] = [t[r] EXCEPT !.dirty = t[r].dirty \/ X]]
    BY <2>1
  <2>3. DOMAIN s = 1 .. k /\ s = [j \in 1 .. k |-> s[j]]
    BY <1>7
  <2>4. DOMAIN t = 1 .. k /\ t = [j \in 1 .. k |-> t[j]]
    BY <2>3
  <2>5. \A j \in 1 .. k : t[j] = IF j = k THEN [s[j] EXCEPT !.pc = "run"] ELSE s[j]
    BY <2>3
  <2> HIDE DEF t
  <2>6. DOMAIN stack' = 1 .. k /\ stack' = [j \in 1 .. k |-> stack'[j]]
    BY <2>2, <2>4
  <2>7. \A j \in 1 .. k : stack'[j] = IF j = r THEN [t[j] EXCEPT !.dirty = t[j].dirty \/ X] ELSE t[j]
    BY <2>2, <2>4
  <2> QED
    BY <2>5, <2>6, <2>7
<1> HIDE DEF t
<1>9. ASSUME NEW j \in 1 .. k
      PROVE  /\ stack'[j] \in AnyFrame
             /\ stack'[j].fn = stack[j].fn /\ stack'[j].args = stack[j].args /\ stack'[j].res = stack[j].res
             /\ stack'[j].lcs = stack[j].lcs /\ stack'[j].from = stack[j].from
             /\ stack'[j].pc = IF j = k THEN "run" ELSE stack[j].pc
             /\ stack'[j].dirty <=> stack[j].dirty \/ (j = r /\ X)
  <2>1. stack[j] \in AnyFrame /\ s[j] = stack[j]
    BY <1>4, <1>5, <1>7
  <2>2. CASE j # k /\ j # r
    BY <1>8, <2>1, <2>2
  <2>3. CASE j = k /\ j # r
    <3>1. stack'[j] = [stack[j] EXCEPT !.pc = "run"]
      BY <1>8, <2>1, <2>3
    <3> QED
      BY <2>1, <2>3, <3>1 DEF AnyFrame
  <2>4. CASE j # k /\ j = r
    <3>1. t[j] = stack[j]
      BY <1>8, <2>1, <2>4
    <3>2. stack'[j] = [t[j] EXCEPT !.dirty = t[j].dirty \/ X]
      BY <1>8, <2>4, Zenon
    <3> DEFINE d == t[j].dirty \/ X
    <3>3. d \in BOOLEAN /\ (d <=> stack[j].dirty \/ X)
      BY <3>1
    <3>4. stack'[j] = [stack[j] EXCEPT !.dirty = d]
      BY <3>1, <3>2, Zenon
    <3> HIDE DEF d
    <3>5. stack'[j] \in AnyFrame /\ stack'[j].dirty = d
      BY <2>1, <3>3, <3>4 DEF AnyFrame
    <3> QED
      BY <2>1, <2>4, <3>3, <3>4, <3>5 DEF AnyFrame
  <2>5. CASE j = k /\ j = r
    <3>1. t[j] = [stack[j] EXCEPT !.pc = "run"]
      BY <1>8, <2>1, <2>5
    <3>2. stack'[j] = [t[j] EXCEPT !.dirty = t[j].dirty \/ X]
      BY <1>8, <2>5, Zenon
    <3> QED
      BY <2>1, <2>5, <3>1, <3>2 DEF AnyFrame
  <2> QED
    BY <2>2, <2>3, <2>4, <2>5
<1>10. stack' \in Seq(AnyFrame) /\ Len(stack') = k /\ Depth' = k /\ DOMAIN stack' = 1 .. k /\ Top' = stack'[k]
  <2>1. DOMAIN stack' = 1 .. k
    BY <1>8
  <2>2. stack' = [j \in 1 .. k |-> stack'[j]]
    BY <1>8
  <2>3. stack' \in Seq(AnyFrame) /\ Len(stack') = k
    BY <1>3, <1>9, <2>1, <2>2
  <2> QED
    BY <2>1, <2>3 DEF Depth, Top, Last
<1>11. \A j \in 1 .. k : Keeps(stack'[j], stack[j])
  BY <1>6, <1>9 DEF Keeps
<1>12. resumed \subseteq Unwound(k)
  BY DEF resumed
<1>13. IsFiniteSet(popped) /\ Cardinality(popped) \in Nat
  <2>1. IsFiniteSet(k + 1 .. Depth)
    BY <1>3, <1>4, FS_Interval
  <2>2. popped \subseteq k + 1 .. Depth
    BY <1>3, <1>12
  <2> HIDE DEF popped
  <2> QED
    BY <2>1, <2>2, FS_Subset, FS_CardinalityType
<1>14. Types'
  <2>1. callstack' \in Seq(Names)
    <3>1. CASE resumed = {}
      BY <1>2, <1>4, <3>1
    <3>2. CASE resumed # {}
      <4>1. resumed \subseteq Nat
        BY <1>3, <1>4, <1>12
      <4>2. Min(resumed) \in resumed
        BY <3>2, <4>1, MinIs
      <4>3. Min(resumed) \in k + 1 .. Depth
        BY <1>3, <1>12, <4>2
      <4>4. \A j \in k + 1 .. Depth : j \in 1 .. Depth
        BY <1>3, <1>4
      <4> QED
        BY <1>2, <1>4, <3>2, <4>3, <4>4, AnyFrameFacts
    <3> QED
      BY <3>1, <3>2
  <2>2. frames' \in Seq(Names)
    <3>1. Len(frames) - Cardinality(popped) \in Int /\ Len(frames) - Cardinality(popped) <= Len(frames)
      BY <1>4, <1>13
    <3> HIDE DEF popped
    <3> QED
      BY <1>2, <1>4, <3>1
  <2>3. lost' \in BOOLEAN
    BY <1>2, SMT
  <2> QED
    BY <1>1, <1>2, <1>10, <2>1, <2>2, <2>3 DEF Types
<1>15. OrderPart'
  <2>1. stack'[1].fn.kind = "instrumented"
    BY <1>1, <1>3, <1>9 DEF OrderPart
  <2>2. ASSUME NEW j \in 1 .. k - 1
        PROVE  /\ stack'[j].pc = "call" \/ stack'[j + 1].from = "signal"
               /\ stack'[j].pc \in {"run", "call"}
    <3>1. j \in 1 .. k /\ j + 1 \in 1 .. k /\ j # k
      BY <1>3
    <3>2. stack'[j].pc = stack[j].pc /\ stack'[j + 1].from = stack[j + 1].from
      BY <1>9, <3>1
    <3> QED
      BY <1>1, <1>4, <1>5, <3>1, <3>2 DEF OrderPart
  <2> QED
    BY <1>3, <1>10, <2>1, <2>2 DEF OrderPart
<1>16. FramePart'
  <2>1. ASSUME NEW j \in 1 .. k
        PROVE  /\ ~Compiled(stack'[j].fn) => /\ stack'[j].from = "call" /\ stack'[j].pc # "entry"
                                             /\ ~stack'[j].dirty
               /\ stack'[j].pc # "entry"
               /\ stack'[j].fn.kind = "wrapper" =>
                      /\ Len(stack'[j].args) = Len(stack'[j].fn.params)
                      /\ \A n \in stack'[j].fn.calls : Fn(n).params = stack'[j].fn.params
    <3>1. stack[j].pc \in {"run", "call"}
      BY <1>1, <1>4, <1>5 DEF OrderPart
    <3>2. /\ ~Compiled(stack[j].fn) => /\ stack[j].from = "call" /\ ~stack[j].dirty
          /\ stack[j].fn.kind = "wrapper" =>
                 /\ Len(stack[j].args) = Len(stack[j].fn.params)
                 /\ \A n \in stack[j].fn.calls : Fn(n).params = stack[j].fn.params
      BY <1>1, <1>5 DEF FramePart
    <3> QED
      BY <1>3, <1>9, <3>1, <3>2
  <2> QED
    BY <1>10, <2>1 DEF FramePart
<1>17. LabelPart'
  <2>1. ASSUME NEW j \in 1 .. k, NEW v \in Loaded(stack'[j])
        PROVE  Good(v)
    <3>1. Loaded(stack'[j]) = Loaded(stack[j])
      BY <1>6, <1>9 DEF Loaded
    <3> QED
      BY <1>1, <1>4, <1>5, <2>1, <3>1 DEF LabelPart
  <2>2. Top'.pc = "run"
    BY <1>3, <1>9, <1>10
  <2> QED
    BY <1>10, <2>1, <2>2 DEF LabelPart
<1>18. k <= Len(stack) /\ k <= Len(stack') /\ k \in 0 .. k /\ k \in 0 .. Len(stack)
  BY <1>2, <1>3, <1>4, <1>10
<1>19. \A hidden : EnteredNames(stack', hidden)[k] = EnteredNames(stack, hidden)[k]
  BY <1>3, <1>4, <1>10, <1>11, <1>18, NamesKept
<1>20. \A j \in 1 .. Len(stack) : stack[j].fn.name \in Names
  BY <1>4, AnyFrameFacts, KindFacts
<1>21. ContextPart'
  <2>1. \A j \in 1 .. k :
          Compiled(stack'[j].fn) /\ stack'[j].pc # "entry" /\ (\A i \in 1 .. j - 1 : ~stack'[i].dirty) =>
              stack'[j].lcs = EnteredNames(stack', External)[j - 1]
    BY <1>1, <1>3, <1>4, <1>10, <1>11, <1>18, ContextKept
  <2>2. ASSUME \A j \in 1 .. k : ~stack'[j].dirty
        PROVE  callstack' = EnteredNames(stack', External)[k]
    <3>1. m \in resumed
      BY <1>3, <1>9, <2>2 DEF X
    <3>2. m \in Nat /\ m \in k + 1 .. Depth /\ m \in 1 .. Depth /\ m - 1 \in k .. Len(stack)
      BY <1>3, <1>4
    <3>3. Min(resumed) = m
      <4>1. resumed \subseteq Nat
        BY <1>3, <1>4, <1>12
      <4>2. Min(resumed) \in resumed /\ \A j \in resumed : Min(resumed) <= j
        BY <3>1, <4>1, MinIs
      <4>3. m <= Min(resumed) /\ Min(resumed) <= m /\ Min(resumed) \in Nat
        BY <1>3, <1>12, <3>1, <4>1, <4>2
      <4> QED
        BY <3>2, <4>3
    <3>4. callstack' = stack[m].lcs
      BY <1>2, <3>1, <3>3
    <3>5. \A j \in k + 1 .. m - 1 : ~Compiled(stack[j].fn) \/ stack[j].pc = "entry"
      <4>1. \A j \in k + 1 .. m - 1 : j \in k + 1 .. Depth /\ ~(m <= j)
        BY <1>3, <1>4, <3>2
      <4>2. \A j \in k + 1 .. m - 1 : j \notin Unwound(k)
        BY <1>3, <4>1
      <4> QED
        BY <4>1, <4>2 DEF Unwound
    <3>6. \A j \in 1 .. m - 1 : ~stack[j].dirty
      <4>1. ASSUME NEW j \in 1 .. m - 1
            PROVE  ~stack[j].dirty
        <5>1. CASE j \in 1 .. k
          BY <1>9, <2>2, <5>1
        <5>2. CASE j \notin 1 .. k
          <6>1. j \in k + 1 .. m - 1 /\ j \in 1 .. Depth
            BY <1>3, <3>2, <5>2
          <6> QED
            BY <1>1, <3>5, <6>1 DEF FramePart
        <5> QED
          BY <5>1, <5>2
      <4> QED
        BY <4>1
    <3>7. Compiled(stack[m].fn) /\ stack[m].pc # "entry"
      BY <1>3 DEF Unwound
    <3>8. stack[m].lcs = EnteredNames(stack, External)[m - 1]
      BY <1>1, <3>2, <3>6, <3>7 DEF ContextPart
    <3>9. EnteredNames(stack, External)[m - 1] = EnteredNames(stack, External)[k]
      <4> DEFINE a == EnteredNames(stack, External)
                 shown == {j \in k + 1 .. m - 1 : stack[j].fn.kind \notin External /\ stack[j].pc # "entry"}
      <4>1. shown = {}
        BY <3>5 DEF Compiled
      <4>2. Cardinality(shown) = 0
        BY <4>1, FS_EmptySet
      <4>20. \A n \in k .. Len(stack) :
            LET some == {j \in k + 1 .. n : stack[j].fn.kind \notin External /\ stack[j].pc # "entry"}
            IN  /\ IsFiniteSet(some)
                /\ Len(EnteredNames(stack, External)[n]) = Len(EnteredNames(stack, External)[k]) + Cardinality(some)
                /\ SubSeq(EnteredNames(stack, External)[n], 1, Len(EnteredNames(stack, External)[k]))
                     = EnteredNames(stack, External)[k]
        BY <1>4, <1>18, <1>20, NamesPrefix, Zenon
      <4>3. /\ Len(a[m - 1]) = Len(a[k]) + Cardinality(shown)
            /\ SubSeq(a[m - 1], 1, Len(a[k])) = a[k]
        BY <3>2, <4>20, Zenon
      <4>4. a[m - 1] \in Seq(Names) /\ a[k] \in Seq(Names)
        <5>1. m - 1 \in 0 .. Len(stack)
          BY <1>3, <3>2
        <5> QED
          BY <1>4, <1>18, <1>20, <5>1, NamesType
      <4> HIDE DEF a, shown
      <4>5. Len(a[m - 1]) = Len(a[k])
        BY <4>2, <4>3, <4>4
      <4>6. SubSeq(a[m - 1], 1, Len(a[m - 1])) = a[m - 1]
        BY <4>4
      <4> QED
        BY <4>3, <4>5, <4>6 DEF a
    <3> QED
      BY <1>19, <3>4, <3>8, <3>9
  <2> QED
    BY <1>10, <2>1, <2>2 DEF ContextPart, ContextFollows
<1>22. FramesFollow'
  <2> DEFINE hidden == External \cup {"wrapper"}
             a == EnteredNames(stack, hidden)
             shown == {j \in k + 1 .. Depth : stack[j].fn.kind \notin hidden /\ stack[j].pc # "entry"}
  <2>1. SUFFICES ASSUME ~lost'
                 PROVE  frames' = a[k]
    BY <1>10, <1>19 DEF FramesFollow
  <2>2. ~lost /\ left = {}
    BY <1>2, <2>1
  <2>3. frames = a[Depth]
    BY <1>1, <2>2 DEF FramesFollow
  <2>4. shown = popped
    <3>1. ASSUME NEW j \in k + 1 .. Depth
          PROVE  j \in shown <=> j \in Unwound(k) /\ Framed(stack[j].fn)
      <4>1. stack[j].fn \in Function
        <5>1. j \in 1 .. Depth
          BY <1>3, <1>4
        <5> QED
          BY <1>4, <5>1, AnyFrameFacts
      <4>2. stack[j].fn.kind \notin hidden <=> Compiled(stack[j].fn) /\ Framed(stack[j].fn)
        BY <4>1, KindFacts
      <4> HIDE DEF hidden
      <4> QED
        BY <4>2 DEF Unwound
    <3>2. \A j \in Unwound(k) : Framed(stack[j].fn) => j \in resumed
      BY <2>2
    <3>3. \A j \in shown : j \in k + 1 .. Depth
      OBVIOUS
    <3>4. \A j \in popped : j \in k + 1 .. Depth /\ j \in Unwound(k) /\ Framed(stack[j].fn)
      BY <1>3, <1>12
    <3> HIDE DEF shown
    <3> QED
      BY <3>1, <3>2, <3>3, <3>4
  <2>5. Depth \in k .. Len(stack) /\ Depth \in 0 .. Len(stack)
    BY <1>3, <1>4
  <2>50. \A n \in k .. Len(stack) :
        LET some == {j \in k + 1 .. n : stack[j].fn.kind \notin hidden /\ stack[j].pc # "entry"}
        IN  /\ IsFiniteSet(some)
            /\ Len(EnteredNames(stack, hidden)[n]) = Len(EnteredNames(stack, hidden)[k]) + Cardinality(some)
            /\ SubSeq(EnteredNames(stack, hidden)[n], 1, Len(EnteredNames(stack, hidden)[k]))
                 = EnteredNames(stack, hidden)[k]
    BY <1>4, <1>18, <1>20, NamesPrefix, Zenon
  <2>6. /\ Len(a[Depth]) = Len(a[k]) + Cardinality(shown)
        /\ SubSeq(a[Depth], 1, Len(a[k])) = a[k]
    BY <2>5, <2>50, Zenon
  <2>7. a[k] \in Seq(Names)
    BY <1>4, <1>18, <1>20, NamesType
  <2> HIDE DEF a, shown, popped
  <2>8. Len(a[Depth]) - Cardinality(popped) = Len(a[k])
    <3>1. Len(a[k]) \in Nat
      BY <2>7
    <3> QED
      BY <1>13, <2>4, <2>6, <3>1
  <2> QED
    BY <1>2, <2>3, <2>6, <2>8
<1> QED
  BY <1>14, <1>15, <1>16, <1>17, <1>21, <1>22 DEF Inv

-----------------------------------------------------------------------------
(* The invariant. *)

LEMMA InvInit ==
    ASSUME Init
    PROVE  Inv
<1> DEFINE args == [i \in DOMAIN Labels |-> Value(Labels[i], Labels[i])]
           fr == [Frame(Fn(Main), args, "call") EXCEPT !.pc = "run"]
<1>1. /\ Labels \in Seq(Nat \ {0}) /\ ArgTLSSize \in Nat
      /\ Main \in Names /\ Fn(Main) \in Function /\ Fn(Main).name = Main /\ Fn(Main).kind = "instrumented"
  BY CallsAssumption, Programs
<1>2. args \in Seq(AnyValue) /\ \A i \in 1 .. Len(args) : Good(args[i])
  <2>1. \A i \in 1 .. Len(Labels) : Value(Labels[i], Labels[i]) \in AnyValue /\ Good(Value(Labels[i], Labels[i]))
    BY <1>1 DEF Value, AnyValue, Good
  <2>2. DOMAIN Labels = 1 .. Len(Labels) /\ Len(Labels) \in Nat
    BY <1>1
  <2>3. args \in [1 .. Len(Labels) -> AnyValue] /\ Len(args) = Len(Labels)
    BY <2>1, <2>2
  <2> QED
    BY <2>1, <2>2, <2>3
<1> HIDE DEF args
<1>3. /\ fr \in AnyFrame /\ fr.fn = Fn(Main) /\ fr.args = args /\ fr.res = Zero /\ fr.pc = "run"
      /\ ~fr.dirty /\ fr.from = "call" /\ fr.lcs = <<>>
  <2> DEFINE new == Frame(Fn(Main), args, "call")
  <2>1. new \in AnyFrame /\ new.fn = Fn(Main) /\ new.args = args /\ new.res = Zero /\ ~new.dirty /\ new.from = "call"
    BY <1>1, <1>2, FrameFacts
  <2>2. new.lcs = <<>>
    BY DEF Frame
  <2> HIDE DEF new
  <2>3. fr = [new EXCEPT !.pc = "run"]
    BY DEF new
  <2> HIDE DEF fr
  <2> QED
    BY <2>1, <2>2, <2>3 DEF AnyFrame
<1>4. stack = <<fr>>
  BY DEF Init, args
<1> HIDE DEF fr
<1>5. stack \in Seq(AnyFrame) /\ Len(stack) = 1 /\ stack[1] = fr
  BY <1>3, <1>4
<1>6. Depth = 1 /\ Top = fr /\ DOMAIN stack = 1 .. 1
  BY <1>5 DEF Depth, Top, Last
<1>7. \A k \in 1 .. 1 : k = 1
  OBVIOUS
<1>8. ASSUME NEW hidden, "instrumented" \notin hidden
      PROVE  EnteredNames(stack, hidden)[0] = <<>> /\ EnteredNames(stack, hidden)[1] = <<Main>>
  <2>1. /\ EnteredNames(stack, hidden)[0] = <<>>
        /\ \A k \in 1 .. Len(stack) :
              EnteredNames(stack, hidden)[k] =
                  IF stack[k].fn.kind \in hidden \/ stack[k].pc = "entry" THEN EnteredNames(stack, hidden)[k - 1]
                  ELSE Append(EnteredNames(stack, hidden)[k - 1], stack[k].fn.name)
    BY <1>5, NamesAt
  <2>2. EnteredNames(stack, hidden)[1] = Append(EnteredNames(stack, hidden)[0], Main)
    <3>1. stack[1].fn.kind = "instrumented" /\ stack[1].pc = "run" /\ stack[1].fn.name = Main /\ 1 \in 1 .. Len(stack)
      BY <1>1, <1>3, <1>5
    <3>2. EnteredNames(stack, hidden)[1] = Append(EnteredNames(stack, hidden)[1 - 1], stack[1].fn.name)
      BY <1>8, <2>1, <3>1
    <3>3. 1 - 1 = 0
      OBVIOUS
    <3> QED
      BY <3>1, <3>2, <3>3, Zenon
  <2> QED
    BY <1>1, <2>1, <2>2
<1>9. Compiled(Fn(Main))
  BY <1>1, KindFacts
<1>10. Types
  <2>1. arg_tls \in [1 .. ArgTLSSize -> Int] /\ retval_tls \in Int
    BY DEF Init
  <2>2. callstack \in Seq(Names) /\ frames \in Seq(Names)
    BY <1>1 DEF Init
  <2>3. lost \in BOOLEAN /\ slip \in BOOLEAN
    BY DEF Init
  <2> QED
    BY <1>5, <2>1, <2>2, <2>3 DEF Types
<1>11. OrderPart
  BY <1>1, <1>3, <1>5, <1>6 DEF OrderPart
<1>12. FramePart
  BY <1>1, <1>3, <1>5, <1>6, <1>7, <1>9 DEF FramePart
<1>13. ContextPart
  <2>1. EnteredNames(stack, External)[0] = <<>> /\ EnteredNames(stack, External)[1] = <<Main>>
    BY <1>8 DEF External
  <2> QED
    <3>1. callstack = <<Main>>
      BY DEF Init
    <3>2. ContextFollows
      BY <1>6, <2>1, <3>1 DEF ContextFollows
    <3>3. ASSUME NEW k \in 1 .. Depth
          PROVE  stack[k].lcs = EnteredNames(stack, External)[k - 1]
      <4>1. k = 1 /\ k - 1 = 0
        BY <1>6
      <4> QED
        BY <1>3, <1>5, <2>1, <4>1
    <3> QED
      BY <3>2, <3>3 DEF ContextPart
<1>14. FramesFollow
  <2>1. EnteredNames(stack, External \cup {"wrapper"})[1] = <<Main>>
    BY <1>8 DEF External
  <2> QED
    BY <1>6, <2>1 DEF Init, FramesFollow
<1>15. LabelPart
  <2>1. Loaded(fr) = Range(args) \cup {Zero}
    BY <1>3 DEF Loaded
  <2>2. \A v \in Range(args) : Good(v)
    BY <1>2 DEF Range
  <2>3. \A v \in Loaded(fr) : Good(v)
    BY <2>1, <2>2, ZeroFacts
  <2> QED
    BY <1>3, <1>5, <1>6, <1>7, <2>3 DEF LabelPart
<1> QED
  BY <1>10, <1>11, <1>12, <1>13, <1>14, <1>15 DEF Inv

LEMMA InvStutter ==
    ASSUME Inv, UNCHANGED vars
    PROVE  Inv'
<1>1. /\ stack' = stack /\ arg_tls' = arg_tls /\ retval_tls' = retval_tls /\ callstack' = callstack
      /\ frames' = frames /\ lost' = lost /\ slip' = slip
  BY DEF vars
<1>2. Depth' = Depth /\ Top' = Top
  BY <1>1 DEF Depth, Top
<1>3. \A f, i : LoadArg(f, i)' = LoadArg(f, i)
  BY <1>1 DEF LoadArg
<1>4. Types' /\ OrderPart' /\ FramePart'
  BY <1>1, <1>2 DEF Inv, Types, OrderPart, FramePart
<1>5. ContextPart' /\ FramesFollow'
  BY <1>1, <1>2 DEF Inv, ContextPart, ContextFollows, FramesFollow
<1>6. LabelPart'
  BY <1>1, <1>2, <1>3 DEF Inv, LabelPart
<1> QED
  BY <1>4, <1>5, <1>6 DEF Inv

\* However a frame is pushed.
LEMMA PushesInv ==
    ASSUME Inv, \E fr : Pushes(fr)
    PROVE  Inv'
<1>1. PICK fr : Pushes(fr)
  OBVIOUS
<1>2. Types' /\ OrderPart' /\ FramePart'
  BY <1>1, PushOrder
<1>3. ContextPart' /\ FramesFollow'
  BY <1>1, PushNames
<1>4. LabelPart'
  BY <1>1, PushLabels
<1> QED
  BY <1>2, <1>3, <1>4 DEF Inv

LEMMA InvStep ==
    ASSUME Inv, Next
    PROVE  Inv'
<1>1. CASE Running /\ \E f \in {Fn(n) : n \in Top.fn.calls} :
                          \/ \E how \in {"call", "invoke", "indirect"}, args \in ArgsFor(Top, f) :
                                 CallTLS(f, how, args) \/ CallWrapped(f, how, args)
                          \/ CallNative(f)
  <2>1. PICK n \in Top.fn.calls :
               \/ \E how \in {"call", "invoke", "indirect"}, args \in ArgsFor(Top, Fn(n)) :
                      CallTLS(Fn(n), how, args) \/ CallWrapped(Fn(n), how, args)
               \/ CallNative(Fn(n))
    BY <1>1, Zenon
  <2>2. CASE CallNative(Fn(n))
    BY <1>1, <2>2, CallNativePushes, PushesInv
  <2>3. ASSUME NEW how \in {"call", "invoke", "indirect"}, NEW args \in ArgsFor(Top, Fn(n)),
               CallTLS(Fn(n), how, args)
        PROVE  Inv'
    BY <1>1, <2>3, CallTLSPushes, PushesInv
  <2>4. ASSUME NEW how \in {"call", "invoke", "indirect"}, NEW args \in ArgsFor(Top, Fn(n)),
               CallWrapped(Fn(n), how, args)
        PROVE  Inv'
    BY <1>1, <2>4, CallWrappedPushes, PushesInv
  <2> QED
    BY <2>1, <2>2, <2>3, <2>4
<1>2. ASSUME NEW f \in Fns, Signal(f)
      PROVE  Inv'
  BY <1>2, SignalPushes, PushesInv
<1>3. CASE Enter
  BY <1>3, EnterInv
<1>4. CASE LoadResult
  BY <1>4, LoadResultInv
<1>5. ASSUME NEW v \in Values(Top), Return(v)
      PROVE  Inv'
  BY <1>5, ReturnInv
<1>6. ASSUME NEW v \in Values(Top), NEW writes \in BOOLEAN, ReturnNative(v, writes)
      PROVE  Inv'
  BY <1>6, ReturnNativeInv
<1>7. ASSUME NEW k \in DOMAIN stack, NEW throw \in BOOLEAN, Unwind(k, throw)
      PROVE  Inv'
  BY <1>7, UnwindInv
<1> QED
  BY <1>1, <1>2, <1>3, <1>4, <1>5, <1>6, <1>7 DEF Next

\* The invariant holds in every run of every program.
THEOREM CallsInvariant == Spec => []Inv
<1>1. Init => Inv
  BY InvInit
<1>2. Inv /\ [Next]_vars => Inv'
  BY InvStep, InvStutter
<1> QED
  BY <1>1, <1>2, PTL DEF Spec

-----------------------------------------------------------------------------

\* However calls, callbacks, handlers, exceptions, wrappers and arguments that do not
\* fit follow one another, what instrumented code has loaded carries the label of
\* its value, unless a signal came between a store to __dfsan_arg_tls or
\* __dfsan_retval_tls and its load (visitCallBase, getShadowForTLSArgument,
\* visitReturnInst).
THEOREM LabelsAreFollowed == Spec => []LabelsFollow
<1>1. Inv => LabelsFollow
  <2> SUFFICES ASSUME Inv PROVE LabelsFollow
    OBVIOUS
  <2>1. DOMAIN stack = 1 .. Depth
    BY StackFacts DEF Inv
  <2> QED
    BY <2>1 DEF Inv, LabelPart, LabelsFollow, Good
<1> QED
  BY <1>1, CallsInvariant, PTL

\* Outside the function that caught an exception or that setjmp returned to again,
\* __taint_trace_callstack combines the functions that are entered and have not
\* returned, in their order (addContextRecording).
THEOREM ContextIsFollowed == Spec => []ContextFollows
<1>1. Inv => ContextFollows
  BY DEF Inv, ContextPart
<1> QED
  BY <1>1, CallsInvariant, PTL

\* As long as every function that was left had returned or had a landing pad, the
\* runtime's stack frames are those of the functions that are entered, without the
\* wrappers dfsw$f (addFrameTracing).
THEOREM FramesAreFollowed == Spec => []FramesFollow
<1>1. Inv => FramesFollow
  BY DEF Inv
<1> QED
  BY <1>1, CallsInvariant, PTL
=============================================================================
