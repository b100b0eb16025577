---------------------------- MODULE ObjectBounds ----------------------------
(***************************************************************************)
(* Bounds tracking (trace_bounds): every memory object has a label whose   *)
(* slot holds its bounds.  Heap objects get their labels from the union    *)
(* table, from label 1 upwards; stack objects from the other end of the    *)
(* slots, downwards, given back when their function returns.  A pointer    *)
(* carries the label of its object, in a register and through memory, and  *)
(* __taint_check_bounds judges an access by the slot of that label.        *)
(*                                                                         *)
(* One thread ("FIXME: single thread", dfsan.cpp:56).  The program's own   *)
(* view of its objects is kept beside the slots, to compare with.          *)
(***************************************************************************)
EXTENDS Integers, Sequences, FiniteSets

CONSTANTS
    MAX_SAVED_STACK_ENTRIES,
    NumLabels,          \* first value of __alloca_stack_top
    WordBytes,          \* bytes of a pointer
    Sizes,              \* sizes of objects
    MaxObjects,         \* bound on the objects a behaviour creates
    MaxDepth,           \* bound on the calls that are active
    MaxUnwinds,         \* bound on the calls left without a return
    StackLimit          \* bound on the stack objects that are active

ASSUME BoundsAssumption ==
    /\ MAX_SAVED_STACK_ENTRIES \in Nat \ {0}
    /\ NumLabels \in Nat \ {0}
    /\ WordBytes \in Nat \ {0, 1}
    /\ Sizes \subseteq Nat \ {0}
    /\ {MaxObjects, MaxDepth, MaxUnwinds, StackLimit} \subseteq Nat

VARIABLES
    info,       \* the slots of labels
    last,       \* __dfsan_last_label
    top,        \* __alloca_stack_top
    saved,      \* __saved_alloca_stack_top
    index,      \* __current_saved_stack_index
    dead,       \* dfsan_check_label called Die()
    depth,      \* active calls
    unwound,    \* calls that were left without a return
    objs,       \* the objects of the program
    reg,        \* a pointer in a register: its object and its label
    cell        \* a pointer in memory: its object and the label of every byte

vars == <<info, last, top, saved, index, dead, depth, unwound, objs, reg, cell>>

Labels == 0 .. NumLabels - 1

CONST_LABEL == 0

Raw == [op |-> "raw", lo |-> 0, hi |-> 0, l1 |-> 0, byte |-> 0]

Bounds(lo, hi) == [Raw EXCEPT !.op = "Alloca", !.lo = lo, !.hi = hi]

\* Null is object 0.
Null == 0

Objects == 1 .. Len(objs)

Active == {o \in Objects : objs[o].where = "stack" /\ objs[o].state = "live"}

Init ==
    /\ info = [l \in Labels |-> Raw]
    /\ last = CONST_LABEL
    /\ top = NumLabels
    /\ saved = [i \in 0 .. MAX_SAVED_STACK_ENTRIES |-> 0]
    /\ index = 0
    /\ dead = FALSE
    /\ depth = 0
    /\ unwound = 0
    /\ objs = <<>>
    /\ reg = [obj |-> Null, label |-> CONST_LABEL]
    /\ cell = [obj |-> Null, labels |-> [i \in 1 .. WordBytes |-> CONST_LABEL]]

-----------------------------------------------------------------------------
(* Functions and their local variables. *)

\* A function starts.  The array has one slot less than the guard lets it use.
Push ==
    /\ ~dead
    /\ depth < MaxDepth
    /\ depth' = depth + 1
    /\ IF index < MAX_SAVED_STACK_ENTRIES
       THEN /\ saved' = [saved EXCEPT ![index + 1] = top]
            /\ index' = index + 1
       ELSE UNCHANGED <<saved, index>>
    /\ UNCHANGED <<info, last, top, dead, unwound, objs, reg, cell>>

\* The local variables of the current function are gone.
LocalsGone ==
    objs' = [o \in Objects |->
               IF o \in Active /\ objs[o].depth = depth
               THEN [objs[o] EXCEPT !.state = "gone"] ELSE objs[o]]

\* What a read of the array gives: outside it, anything.
SavedTops(i) ==
    IF i \in 0 .. MAX_SAVED_STACK_ENTRIES - 1 THEN {saved[i]} ELSE 0 .. NumLabels

\* Mutant: the index is not moved back.
PopNoIndex ==
    /\ ~dead
    /\ depth > 0
    /\ top' \in SavedTops(index)
    /\ depth' = depth - 1
    /\ LocalsGone
    /\ UNCHANGED <<info, last, saved, index, dead, unwound, reg, cell>>

\* Mutant: every return empties the stack.
PopToBottom ==
    /\ ~dead
    /\ depth > 0
    /\ top' = NumLabels
    /\ index' = index - 1
    /\ depth' = depth - 1
    /\ LocalsGone
    /\ UNCHANGED <<info, last, saved, dead, unwound, reg, cell>>

\* It returns.
Pop ==
    /\ ~dead
    /\ depth > 0
    /\ top' \in SavedTops(index)
    /\ index' = index - 1
    /\ depth' = depth - 1
    /\ LocalsGone
    /\ UNCHANGED <<info, last, saved, dead, unwound, reg, cell>>

\* It is left by an exception or by longjmp: the instrumentation is only at
\* return instructions.
Unwind ==
    /\ ~dead
    /\ depth > 0
    /\ unwound < MaxUnwinds
    /\ unwound' = unwound + 1
    /\ depth' = depth - 1
    /\ LocalsGone
    /\ UNCHANGED <<info, last, top, saved, index, dead, reg, cell>>

\* Addresses: the stack grows from 100; heap addresses are not used again,
\* because free() does not free while bounds are traced.
MaxSize == CHOOSE s \in Sizes : \A r \in Sizes : s >= r
StackAddr == 100 + MaxSize * Cardinality(Active)
HeapAddr == 1000 + MaxSize * Len(objs)

NewObject(where, base, size, l) ==
    Append(objs, [where |-> where, base |-> base, size |-> size, label |-> l,
                  state |-> "live", depth |-> depth])

\* A local variable, or alloca().  There is no check against the labels of the
\* union table; the bound top > 1 only keeps the model within its slots.
Alloca(size) ==
    /\ ~dead
    /\ depth > 0
    /\ Len(objs) < MaxObjects
    /\ Cardinality(Active) < StackLimit
    /\ top > 1
    /\ top' = top - 1
    /\ info' = [info EXCEPT ![top - 1] = Bounds(StackAddr, StackAddr + size)]
    /\ objs' = NewObject("stack", StackAddr, size, top - 1)
    /\ reg' = [obj |-> Len(objs) + 1, label |-> top - 1]
    /\ UNCHANGED <<last, saved, index, dead, depth, unwound, cell>>

-----------------------------------------------------------------------------
(* The heap. *)

\* dfsan_check_label on n labels taken one after another.
TakeLabels(n) ==
    IF last + n < top
    THEN last' = last + n /\ UNCHANGED dead
    ELSE dead' = TRUE /\ last' = top

\* What every allocator does with the memory it got: bounds for it, whose label goes
\* with the pointer.  The address is new, so the entry is not in the union table yet.
\* old has the slots that are changed besides.
Allocated(size, old) ==
    /\ Len(objs) < MaxObjects
    /\ TakeLabels(1)
    /\ info' = IF dead' THEN info
               ELSE [old EXCEPT ![last'] = Bounds(HeapAddr, HeapAddr + size)]
    /\ reg' = [obj |-> Len(objs) + 1, label |-> last']

\* malloc and the others that only allocate.
Malloc(size) ==
    /\ ~dead
    /\ Allocated(size, info)
    /\ objs' = NewObject("heap", HeapAddr, size, last')
    /\ UNCHANGED <<top, saved, index, depth, unwound, cell>>

\* The slot of a label that is freed.
Freed(l) == IF info[l].op = "Alloca" THEN [info[l] EXCEPT !.op = "Free"] ELSE info[l]

\* The pointer is to the heap, and free and realloc may be given it.
ToHeap(p) == p.obj # Null /\ objs[p.obj].where = "heap"

\* Mutant: the old buffer keeps its slot.
ReallocKeepsOld(size) ==
    /\ ~dead
    /\ ToHeap(reg)
    /\ Allocated(size, info)
    /\ objs' = [NewObject("heap", HeapAddr, size, last') EXCEPT ![reg.obj].state = "freed"]
    /\ UNCHANGED <<top, saved, index, depth, unwound, cell>>

\* realloc, when there is memory.
Realloc(size) ==
    /\ ~dead
    /\ ToHeap(reg)
    /\ Allocated(size, [info EXCEPT ![reg.label] = Freed(reg.label)])
    /\ objs' = [NewObject("heap", HeapAddr, size, last') EXCEPT ![reg.obj].state = "freed"]
    /\ UNCHANGED <<top, saved, index, depth, unwound, cell>>

\* realloc, when there is none: the old buffer is marked as freed all the same.
\* The program gets NULL, and keeps the buffer if it had not freed it.
ReallocFailed ==
    /\ ~dead
    /\ ToHeap(reg)
    /\ info' = [info EXCEPT ![reg.label] = Freed(reg.label)]
    /\ objs' = [objs EXCEPT ![reg.obj].state = IF @ = "live" THEN "kept" ELSE @]
    /\ reg' = [obj |-> Null, label |-> CONST_LABEL]
    /\ UNCHANGED <<last, top, saved, index, dead, depth, unwound, cell>>

\* free; a second free of the same object is reported (F_MEMERR_FREE).
Free ==
    /\ ~dead
    /\ ToHeap(reg)
    /\ info' = [info EXCEPT ![reg.label] = Freed(reg.label)]
    /\ objs' = [objs EXCEPT ![reg.obj].state = "freed"]
    /\ UNCHANGED <<last, top, saved, index, dead, depth, unwound, reg, cell>>

-----------------------------------------------------------------------------
(* Pointers in memory. *)

\* The labels of the bytes of label l, if they exist.
Pieces(l) == {e \in 1 .. last : info[e].op = "Extract" /\ info[e].l1 = l}

\* The program copies the pointer of object o.  A pointer to a local variable that
\* is gone is indeterminate in C: correct programs do not copy it.
MayCopy(o) == o \in Objects => objs[o].state # "gone"

\* Fast path 1 of a store: constants and bounds go to every byte.
WholeLabel(l) == l = CONST_LABEL \/ info[l].op = "Alloca"

\* __taint_union_store of a pointer; a label that is no longer bounds is split
\* into its bytes.
StorePointer ==
    /\ ~dead
    /\ MayCopy(reg.obj)
    /\ IF WholeLabel(reg.label)
       THEN /\ cell' = [obj |-> reg.obj, labels |-> [i \in 1 .. WordBytes |-> reg.label]]
            /\ UNCHANGED <<info, last, dead>>
       ELSE IF Pieces(reg.label) # {}
       THEN /\ cell' = [obj |-> reg.obj, labels |-> [i \in 1 .. WordBytes |->
                          CHOOSE e \in Pieces(reg.label) : info[e].byte = i]]
            /\ UNCHANGED <<info, last, dead>>
       ELSE /\ TakeLabels(WordBytes)
            /\ info' = IF dead' THEN info
                       ELSE [l \in Labels |->
                               IF l \in last + 1 .. last'
                               THEN [Raw EXCEPT !.op = "Extract", !.l1 = reg.label,
                                                !.byte = l - last]
                               ELSE info[l]]
            /\ cell' = IF dead' THEN cell
                       ELSE [obj |-> reg.obj, labels |-> [i \in 1 .. WordBytes |-> last + i]]
    /\ UNCHANGED <<top, saved, index, depth, unwound, objs, reg>>

\* Mutant: the bytes of one label are not put together.
LoadedLabelFirst(ls) == ls[1]

\* __taint_union_load of a pointer: the same bounds or constant in every byte;
\* the bytes of one label; else the slow path, which finds that the label of the
\* first byte is as wide as the pointer.
LoadedLabel(ls) ==
    LET e == info[ls[1]]
        split == \A i \in 1 .. WordBytes : /\ info[ls[i]].op = "Extract"
                                           /\ info[ls[i]].l1 = e.l1
                                           /\ info[ls[i]].byte = i
    IN  IF split THEN e.l1 ELSE ls[1]

LoadPointer ==
    /\ ~dead
    /\ MayCopy(cell.obj)
    /\ reg' = [obj |-> cell.obj, label |-> LoadedLabel(cell.labels)]
    /\ UNCHANGED <<info, last, top, saved, index, dead, depth, unwound, objs, cell>>

Next ==
    \/ Push
    \/ Pop
    \/ Unwind
    \/ \E size \in Sizes : Alloca(size) \/ Malloc(size) \/ Realloc(size)
    \/ ReallocFailed
    \/ Free
    \/ StorePointer
    \/ LoadPointer

Spec == Init /\ [][Next]_vars

-----------------------------------------------------------------------------
(* __taint_check_bounds. *)

\* Mutant: the end of the object is still inside.
VerdictPastEnd(l, addr, size) ==
    IF addr = 0                                 THEN "null"
    ELSE IF info[l].op = "Free"                 THEN "UAF"
    ELSE IF info[l].op # "Alloca"               THEN "none"
    ELSE IF addr < info[l].lo                   THEN "underflow"
    ELSE IF addr > info[l].hi                   THEN "overflow"
    ELSE "none"

\* What is reported for an access of size bytes at addr by a pointer with label l.
Verdict(l, addr, size) ==
    IF addr = 0                                 THEN "null"
    ELSE IF info[l].op = "Free"                 THEN "UAF"
    ELSE IF info[l].op # "Alloca"               THEN "none"
    ELSE IF addr < info[l].lo                   THEN "underflow"
    ELSE IF addr + size > info[l].hi            THEN "overflow"
    ELSE "none"

-----------------------------------------------------------------------------
(* Properties. *)

Pointers == [obj : 0 .. MaxObjects, label : 0 .. NumLabels]

\* Types, with the number of saved tops within the array.
TypeOK ==
    /\ DOMAIN info = Labels
    /\ last \in 0 .. NumLabels
    /\ top \in 1 .. NumLabels
    /\ index \in 0 .. MAX_SAVED_STACK_ENTRIES - 1
    /\ saved \in [0 .. MAX_SAVED_STACK_ENTRIES -> 0 .. NumLabels]
    /\ reg \in Pointers
    /\ \A i \in 1 .. WordBytes : cell.labels[i] \in 0 .. NumLabels

\* The slot of the label of an object belongs to that object for as long as the
\* object exists, and after it was freed: no later object is given the slot.  A
\* buffer kept after a realloc that failed is taken for a freed one.
SlotOwned ==
    ~dead => \A o \in Objects : objs[o].state # "gone" =>
        info[objs[o].label] =
            [Bounds(objs[o].base, objs[o].base + objs[o].size) EXCEPT
                !.op = IF objs[o].state = "live" THEN "Alloca" ELSE "Free"]

\* A pointer keeps the label of its object, in memory too, whether the object
\* was freed before the pointer was stored, between the store and the load, or
\* not at all.
PointersTracked ==
    ~dead => /\ reg.obj # Null => reg.label = objs[reg.obj].label
             /\ cell.obj # Null => LoadedLabel(cell.labels) = objs[cell.obj].label

\* Every access through the pointer is judged right: reported as use after free
\* when the object has been freed, as out of bounds when it leaves the object,
\* and not at all otherwise.  (A buffer kept after a failed realloc is excepted.)
ChecksExact ==
    ~dead /\ reg.obj # Null =>
        LET o == objs[reg.obj]
        IN  \A off \in -1 .. o.size + 1, n \in Sizes :
              LET v == Verdict(reg.label, o.base + off, n)
              IN  /\ o.state = "freed" => v = "UAF"
                  /\ o.state = "live" =>
                       v = CASE off < 0 -> "underflow"
                             [] off >= 0 /\ off + n > o.size -> "overflow"
                             [] OTHER -> "none"

\* No bad access is missed, even after reallocations that failed: one to a freed
\* object, or outside one the program has, is reported as an error of some kind.
NothingMissed ==
    ~dead /\ reg.obj # Null =>
        LET o == objs[reg.obj]
        IN  \A off \in -1 .. o.size + 1, n \in Sizes :
              \/ o.state = "freed"
              \/ o.state \in {"live", "kept"} /\ (off < 0 \/ off + n > o.size)
              => Verdict(reg.label, o.base + off, n) # "none"

\* The assertion at the start of __taint_union_store, for whatever pointer the
\* program stores next: its label is in one of the two regions.
StoreAssertion ==
    ~dead /\ MayCopy(reg.obj) => reg.label <= last \/ reg.label >= top
=============================================================================
