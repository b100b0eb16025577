----------------------------- MODULE UnionTable -----------------------------
(***************************************************************************)
(* The union table of the runtime under concurrent threads: label slots    *)
(* handed out by an atomic counter, and the lock-free hash table that lets *)
(* __taint_union reuse the label of an expression it has seen before.      *)
(*                                                                         *)
(* One action per atomic access.  A hash table entry is immutable once it  *)
(* is in a bucket and is never freed, so a pointer to an entry is modelled *)
(* by the list it heads: bucket[b] is the list behind the head pointer of  *)
(* bucket b, and a compare-and-swap compares two such lists.  The walk of  *)
(* lookup is one step, at the load of the head pointer.                    *)
(***************************************************************************)
EXTENDS TaintUnion, Sequences, FiniteSets

CONSTANTS
    Threads,            \* threads of the instrumented program
    Inputs,             \* number of input bytes labelled by InitializeTaintFile
    alloca_stack_top,   \* first label that is not available (bounds are off)
    NumBuckets,         \* hashtable_buckets
    HeapEntries,        \* entries the hash table allocator has room for
    Ops,                \* operators the program uses
    HashValues,         \* the words xxhash works on
    Sizes,              \* operand sizes in bits
    Values,             \* concrete operand values
    Globals,            \* addresses of global objects
    Stdin               \* offsets of input bytes that are labelled when read

\* What the third word of the hash is made of: operator and size.
Codes == (ValidOps \cup {RawOp}) \X (Sizes \cup {ByteBits, AllocaCode})

ASSUME TableAssumption ==
    /\ ByteBits \in Nat \ {0}
    /\ Inputs \in Nat
    /\ alloca_stack_top \in Nat
    /\ Inputs < alloca_stack_top
    /\ kInitializingLabel \in Nat
    /\ alloca_stack_top <= kInitializingLabel
    /\ NumBuckets \in Nat \ {0}
    /\ HeapEntries \in Nat
    /\ Sizes \subseteq Nat \ {0}
    /\ HashValues \subseteq Nat
    /\ 0 .. Inputs \subseteq HashValues
    /\ Values \subseteq HashValues
    /\ Globals \subseteq HashValues
    /\ Stdin \subseteq HashValues
    /\ XXHash \in [HashValues \X HashValues \X Codes -> HashValues]

VARIABLES
    info,       \* __dfsan_label_info: the slot of every label
    last,       \* __dfsan_last_label
    bucket,     \* the list behind the head pointer of every bucket
    heap,       \* entries handed out by allocator_alloc
    dead,       \* some thread called Die()
    pc,         \* where each thread is
    key,        \* the label_info each thread is working on
    label,      \* the label each thread has taken, or returns
    snap,       \* the head pointer each thread has read (p in insert)
    held        \* labels the program has been given

vars == <<info, last, bucket, heap, dead, pc, key, label, snap, held>>

Labels == 0 .. alloca_stack_top

Buckets == 0 .. NumBuckets - 1

\* union_hashtable::hash
BucketOf(k) == k.hash % NumBuckets

\* An input byte is not entered in the hash table.
IsInput(k) == k.op = RawOp

-----------------------------------------------------------------------------

Init ==
    /\ info = [l \in Labels |-> IF l = CONST_LABEL THEN ConstInfo
                                ELSE IF l <= Inputs THEN InputInfo(l - 1)
                                ELSE Blank]
    /\ last = Inputs
    /\ bucket = [b \in Buckets |-> <<>>]
    /\ heap = 0
    /\ dead = FALSE
    /\ pc = [t \in Threads |-> "idle"]
    /\ key = [t \in Threads |-> Blank]
    /\ label = [t \in Threads |-> CONST_LABEL]
    /\ snap = [t \in Threads |-> <<>>]
    /\ held = (0 .. Inputs) \cup {kInitializingLabel}

\* The process is alive and thread t is at p.
At(t, p) == ~dead /\ pc[t] = p

\* The thread's call returns label l.
Return(t, l) ==
    /\ pc' = [pc EXCEPT ![t] = "idle"]
    /\ label' = [label EXCEPT ![t] = l]
    /\ held' = held \cup {l}

\* The thread's call continues at pc p with the label_info k.
Enter(t, p, k) ==
    /\ At(t, "idle")
    /\ pc' = [pc EXCEPT ![t] = p]
    /\ key' = [key EXCEPT ![t] = k]
    /\ label' = [label EXCEPT ![t] = CONST_LABEL]
    /\ UNCHANGED <<info, last, bucket, heap, dead, snap, held>>

\* __taint_union, up to the lookup: early returns and simplifications read
\* only the slots of labels the program holds.
CallUnion(t, c) ==
    \/ /\ Immediate(info, c) = NoLabel
       /\ Enter(t, "lookup", KeyOf(info, c))
    \/ /\ Immediate(info, c) # NoLabel
       /\ At(t, "idle")
       /\ key' = [key EXCEPT ![t] = Blank]
       /\ Return(t, Immediate(info, c))
       /\ UNCHANGED <<info, last, bucket, heap, dead, snap>>

\* __taint_trace_global, up to the lookup.
CallGlobal(t, addr) == Enter(t, "lookup", GlobalKey(addr, 8))

\* dfsan_create_label: a byte of stdin, labelled when it is read.
CallCreate(t, offset) == Enter(t, "alloc", InputInfo(offset))

\* Mutant: entries are compared by hash only.
MatchesHashOnly(list, k) == {i \in DOMAIN list : info[list[i]].hash = k.hash}

\* Mutant: the comparison includes a field that never agrees.
MatchesNothing(list, k) == {i \in DOMAIN list : FALSE}

\* The positions of a list whose entry has the key.
Matches(list, k) == {i \in DOMAIN list : SameKey(info[list[i]], k)}

\* union_hashtable::lookup: the first entry of the bucket with the key.
Lookup(t) ==
    LET list == bucket[BucketOf(key[t])]
    IN  /\ At(t, "lookup")
        /\ \/ /\ Matches(list, key[t]) = {}
              /\ pc' = [pc EXCEPT ![t] = "alloc"]
              /\ UNCHANGED <<label, held>>
           \/ \E i \in Matches(list, key[t]) :
              /\ \A j \in Matches(list, key[t]) : i <= j
              /\ Return(t, list[i])
        /\ UNCHANGED <<info, last, bucket, heap, dead, key, snap>>

\* Mutant: the label is not checked against the end of the table.
AllocUnchecked(t) ==
    /\ At(t, "alloc")
    /\ last' = last + 1
    /\ label' = [label EXCEPT ![t] = last + 1]
    /\ pc' = [pc EXCEPT ![t] = "write"]
    /\ UNCHANGED <<info, bucket, heap, dead, key, snap, held>>

\* Mutant: the counter is read but not advanced.
AllocNoAdvance(t) ==
    /\ At(t, "alloc")
    /\ label' = [label EXCEPT ![t] = last + 1]
    /\ pc' = [pc EXCEPT ![t] = "write"]
    /\ UNCHANGED <<info, last, bucket, heap, dead, key, snap, held>>

\* Mutant: the value before the addition is taken as the label.
AllocOldValue(t) ==
    /\ At(t, "alloc")
    /\ last' = last + 1
    /\ IF last + 1 >= alloca_stack_top
       THEN dead' = TRUE /\ UNCHANGED <<pc, label>>
       ELSE /\ label' = [label EXCEPT ![t] = last]
            /\ pc' = [pc EXCEPT ![t] = "write"]
            /\ UNCHANGED dead
    /\ UNCHANGED <<info, bucket, heap, key, snap, held>>

\* The fetch-and-add on __dfsan_last_label and dfsan_check_label.
Alloc(t) ==
    /\ At(t, "alloc")
    /\ last' = last + 1
    /\ IF last + 1 >= alloca_stack_top
       THEN dead' = TRUE /\ UNCHANGED <<pc, label>>
       ELSE /\ label' = [label EXCEPT ![t] = last + 1]
            /\ pc' = [pc EXCEPT ![t] = "write"]
            /\ UNCHANGED dead
    /\ UNCHANGED <<info, bucket, heap, key, snap, held>>

\* The memcpy into the slot.  An input byte is returned as it is.
Write(t) ==
    /\ At(t, "write")
    /\ info' = [info EXCEPT ![label[t]] = key[t]]
    /\ IF IsInput(key[t])
       THEN Return(t, label[t])
       ELSE pc' = [pc EXCEPT ![t] = "entry"] /\ UNCHANGED <<label, held>>
    /\ UNCHANGED <<last, bucket, heap, dead, key, snap>>

\* union_hashtable::insert: take an entry from the allocator, which dies when
\* it is exhausted.
Entry(t) ==
    /\ At(t, "entry")
    /\ heap' = heap + 1
    /\ IF heap + 1 > HeapEntries
       THEN dead' = TRUE /\ UNCHANGED pc
       ELSE pc' = [pc EXCEPT ![t] = "head"] /\ UNCHANGED dead
    /\ UNCHANGED <<info, last, bucket, key, label, snap, held>>

\* Load the head pointer of the bucket.
LoadHead(t) ==
    /\ At(t, "head")
    /\ snap' = [snap EXCEPT ![t] = bucket[BucketOf(key[t])]]
    /\ pc' = [pc EXCEPT ![t] = "cas"]
    /\ UNCHANGED <<info, last, bucket, heap, dead, key, label, held>>

\* Mutant: the head pointer is stored without comparing.
CasStore(t) ==
    LET b == BucketOf(key[t])
    IN  /\ At(t, "cas")
        /\ bucket' = [bucket EXCEPT ![b] = <<label[t]>> \o snap[t]]
        /\ Return(t, label[t])
        /\ snap' = [snap EXCEPT ![t] = <<>>]
        /\ UNCHANGED <<info, last, heap, dead, key>>

\* Mutant: a failed compare-and-swap does not reload the head.
CasStale(t) ==
    LET b == BucketOf(key[t])
    IN  /\ At(t, "cas")
        /\ bucket[b] = snap[t]
        /\ bucket' = [bucket EXCEPT ![b] = <<label[t]>> \o snap[t]]
        /\ Return(t, label[t])
        /\ snap' = [snap EXCEPT ![t] = <<>>]
        /\ UNCHANGED <<info, last, heap, dead, key>>

\* The compare-and-swap: on failure it has loaded the current head.
Cas(t) ==
    LET b == BucketOf(key[t])
    IN  /\ At(t, "cas")
        /\ IF bucket[b] = snap[t]
           THEN /\ bucket' = [bucket EXCEPT ![b] = <<label[t]>> \o snap[t]]
                /\ Return(t, label[t])
                /\ snap' = [snap EXCEPT ![t] = <<>>]
           ELSE /\ snap' = [snap EXCEPT ![t] = bucket[b]]
                /\ UNCHANGED <<bucket, pc, label, held>>
        /\ UNCHANGED <<info, last, heap, dead, key>>

\* The calls the instrumented program can make with the labels it holds.
UnionCalls ==
    [l1 : held, l2 : held, op : Ops, size : Sizes, op1 : Values, op2 : Values]

Step(t) ==
    \/ Lookup(t)
    \/ Alloc(t)
    \/ Write(t)
    \/ Entry(t)
    \/ LoadHead(t)
    \/ Cas(t)

\* The process has exited.
Exited == dead /\ UNCHANGED vars

Next ==
    \/ \E t \in Threads, c \in UnionCalls : CallUnion(t, c)
    \/ \E t \in Threads, addr \in Globals : CallGlobal(t, addr)
    \/ \E t \in Threads, offset \in Stdin : CallCreate(t, offset)
    \/ \E t \in Threads : Step(t)
    \/ Exited

\* A thread inside the runtime is never descheduled for ever; the program may
\* stop calling the runtime.
Spec == Init /\ [][Next]_vars /\ \A t \in Threads : WF_vars(Step(t))
-----------------------------------------------------------------------------
(* Properties. *)

Infos == [l1 : Labels, l2 : Labels, op : ValidOps \cup {RawOp}, size : Nat,
          op1 : Nat, op2 : Nat, hash : HashValues]

\* Every variable keeps its type: slots, lists of labels, thread positions.
TypeOK ==
    /\ info \in [Labels -> Infos]
    /\ last \in Nat
    /\ bucket \in [Buckets -> Seq(Labels)]
    /\ heap \in Nat
    /\ dead \in BOOLEAN
    /\ pc \in [Threads -> {"idle", "lookup", "alloc", "write", "entry", "head", "cas"}]
    /\ key \in [Threads -> Infos]
    /\ label \in [Threads -> Labels \cup {kInitializingLabel}]
    /\ snap \in [Threads -> Seq(Labels)]
    /\ held \subseteq Labels \cup {kInitializingLabel}

\* The labels that are defined: the program holds them and they are neither
\* the constant label, nor an initial input byte, nor the uninitialised one.
Defined == held \ ((0 .. Inputs) \cup {kInitializingLabel})

\* The operands of a label the program holds are labels the program holds and
\* are smaller than the label itself (the assertion after dfsan_check_label).
\* The parsers rely on it: they build their caches in one scan over
\* increasing labels.
OperandsFirst ==
    \A l \in Defined :
        /\ l <= last
        /\ {info[l].l1, info[l].l2} \subseteq held
        /\ info[l].l1 < l
        /\ info[l].l2 < l

\* No insertion is lost: a computed label the program holds is found in the
\* bucket of its hash, whatever insertions it raced with.
NoLostLabel ==
    \A l \in Defined :
        \/ IsInput(info[l])
        \/ \E i \in DOMAIN bucket[BucketOf(info[l])] : bucket[BucketOf(info[l])][i] = l

\* A call returns a label for the expression it was asked for, whether it was
\* found or added, and never a slot another thread has yet to fill.
ReturnsItsExpression ==
    \A t \in Threads :
        pc[t] = "idle" /\ key[t] # Blank => SameKey(info[label[t]], key[t])

\* Hash-consing under races: only threads that looked up before the first
\* insertion can add an expression again, so it has at most one label for
\* each thread.
FewDuplicates ==
    \A l \in Defined :
        IsInput(info[l]) \/
        Cardinality({m \in Defined : SameKey(info[m], info[l])}) <= Cardinality(Threads)

\* The slot of a label that the program holds is never written again.
SlotsStable == [][\A l \in held \ {kInitializingLabel} : info'[l] = info[l]]_vars

\* Lock freedom is enough for every call to return: the compare-and-swap loop
\* can only be disturbed by insertions, and labels run out.
CallsReturn == \A t \in Threads : pc[t] # "idle" ~> pc[t] = "idle" \/ dead

\* Not an expression.
NoExpr == [Blank EXCEPT !.op = "none"]

\* The table as its users see it: labels held by the program name the
\* expressions in their slots; a thread waits for its expression while it is
\* inside the runtime.
Store == INSTANCE LabelStore WITH
    Given <- (0 .. Inputs) \cup {kInitializingLabel},
    Expressions <- Infos,
    Same <- SameKey,
    None <- NoExpr,
    names <- [l \in Defined |-> info[l]],
    asked <- [t \in Threads |-> IF pc[t] = "idle" THEN NoExpr ELSE key[t]],
    answer <- [t \in Threads |-> IF pc[t] = "idle" THEN label[t] ELSE CONST_LABEL]

\* The lock-free table implements the atomic store of names: lookups that race
\* with insertions, failed compare-and-swaps and half-written slots are never
\* seen by a caller.
ImplementsStore == Store!Spec
=============================================================================
