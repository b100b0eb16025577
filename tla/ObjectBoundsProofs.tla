------------------------- MODULE ObjectBoundsProofs -------------------------
(***************************************************************************)
(* Proofs about ObjectBounds for any number of labels, objects, sizes and  *)
(* calls, under what the code takes for granted: the calls fit into the    *)
(* array of saved tops, and the two regions of labels do not meet.         *)
(***************************************************************************)
EXTENDS ObjectBounds, SequenceTheorems, FiniteSetTheorems, TLAPS

\* The active calls, with those that were left without a return, fit into the array.
Shallow == MaxDepth + MaxUnwinds < MAX_SAVED_STACK_ENTRIES

\* There is a largest object.
Bounded == \E m \in Sizes : \A s \in Sizes : m >= s

\* Alloca does not look where the labels of the union table end: the labels of the
\* stack stay above them.
RegionsApart == ~dead => last < top

Slot == [op : {"raw", "Alloca", "Free", "Extract"}, lo : Int, hi : Int,
         l1 : 0 .. NumLabels, byte : Nat]

ObjType == [where : {"stack", "heap"}, base : {a \in Int : a > 1}, size : Nat,
            label : 0 .. NumLabels, state : {"live", "freed", "kept", "gone"}, depth : Nat]

StateType ==
    /\ info \in [Labels -> Slot]
    /\ last \in 0 .. NumLabels
    /\ top \in 1 .. NumLabels
    /\ saved \in [0 .. MAX_SAVED_STACK_ENTRIES -> 0 .. NumLabels]
    /\ depth \in 0 .. MaxDepth
    /\ unwound \in 0 .. MaxUnwinds
    /\ index = depth + unwound
    /\ \A i \in 1 .. index : saved[i] \in 1 .. NumLabels
    /\ dead \in BOOLEAN

ProgramType ==
    /\ objs \in Seq(ObjType)
    /\ Len(objs) <= MaxObjects
    /\ reg \in [obj : 0 .. Len(objs), label : 0 .. NumLabels]
    /\ cell \in [obj : 0 .. Len(objs), labels : [1 .. WordBytes -> 0 .. NumLabels]]

Exists(o) == objs[o].state # "gone"

\* Heap objects have labels of the union table.
HeapPart ==
    \A o \in Objects : objs[o].where = "heap" => Exists(o) /\ objs[o].label \in 1 .. last

\* Local variables have labels above the top, and above every top that a return may
\* restore while they are there.
StackPart ==
    \A o \in Objects : objs[o].where = "stack" /\ Exists(o) =>
        /\ objs[o].state = "live"
        /\ objs[o].label \in top .. NumLabels - 1
        /\ objs[o].depth <= depth
        /\ \A i \in objs[o].depth + unwound + 1 .. index : saved[i] <= objs[o].label

Distinct ==
    \A o, p \in Objects : Exists(o) /\ Exists(p) /\ o # p => objs[o].label # objs[p].label

\* What the slot of an object holds.
Entry(o) == [op |-> IF objs[o].state = "live" THEN "Alloca" ELSE "Free",
             lo |-> objs[o].base, hi |-> objs[o].base + objs[o].size, l1 |-> 0, byte |-> 0]

EntryPart == \A o \in Objects : Exists(o) => info[objs[o].label] = Entry(o)

LabelOf(o) == IF o = Null THEN CONST_LABEL ELSE objs[o].label

\* Slot e holds byte i of label l.
IsPiece(e, l, i) ==
    e \in 1 .. last /\ info[e].op = "Extract" /\ info[e].l1 = l /\ info[e].byte = i

\* A pointer in memory has the label of its object in every byte, or its pieces.
Stored(ls, l) == \/ \A i \in 1 .. WordBytes : ls[i] = l
                 \/ \A i \in 1 .. WordBytes : IsPiece(ls[i], l, i)

PointerPart == reg.label = LabelOf(reg.obj) /\ Stored(cell.labels, LabelOf(cell.obj))

\* A label that was split was split into all its bytes.
PiecePart ==
    \A e \in 1 .. last : info[e].op = "Extract" =>
        \A i \in 1 .. WordBytes : \E f \in 1 .. last : IsPiece(f, info[e].l1, i)

ObjectPart == HeapPart /\ StackPart /\ Distinct /\ EntryPart

Inv == StateType /\ ProgramType /\ (~dead => ObjectPart /\ PointerPart /\ PiecePart)

-----------------------------------------------------------------------------
(* What the operators give. *)

LEMMA BoundsIs ==
    \A lo, hi : Bounds(lo, hi) = [op |-> "Alloca", lo |-> lo, hi |-> hi, l1 |-> 0, byte |-> 0]
<1> TAKE lo, hi
<1> DEFINE e == [op |-> "Alloca", lo |-> lo, hi |-> hi, l1 |-> 0, byte |-> 0]
           b == Bounds(lo, hi)
           Fields == {"op", "lo", "hi", "l1", "byte"}
<1>1. DOMAIN b = Fields /\ DOMAIN e = Fields
  BY DEF Bounds, Raw
<1>2. /\ b["op"] = e["op"] /\ b["lo"] = e["lo"] /\ b["hi"] = e["hi"]
      /\ b["l1"] = e["l1"] /\ b["byte"] = e["byte"]
  BY DEF Bounds, Raw
<1>3. b = [x \in DOMAIN b |-> b[x]] /\ e = [x \in DOMAIN e |-> e[x]]
  BY DEF Bounds, Raw
<1> QED
  BY <1>1, <1>2, <1>3

LEMMA PieceIs ==
    \A l, k : [Raw EXCEPT !.op = "Extract", !.l1 = l, !.byte = k] =
              [op |-> "Extract", lo |-> 0, hi |-> 0, l1 |-> l, byte |-> k]
<1> TAKE l, k
<1> DEFINE e == [op |-> "Extract", lo |-> 0, hi |-> 0, l1 |-> l, byte |-> k]
           b == [Raw EXCEPT !.op = "Extract", !.l1 = l, !.byte = k]
           Fields == {"op", "lo", "hi", "l1", "byte"}
<1>1. DOMAIN b = Fields /\ DOMAIN e = Fields
  BY DEF Raw
<1>2. /\ b["op"] = e["op"] /\ b["lo"] = e["lo"] /\ b["hi"] = e["hi"]
      /\ b["l1"] = e["l1"] /\ b["byte"] = e["byte"]
  BY DEF Raw
<1>3. b = [x \in DOMAIN b |-> b[x]] /\ e = [x \in DOMAIN e |-> e[x]]
  BY DEF Raw
<1> QED
  BY <1>1, <1>2, <1>3

LEMMA LabelsType == /\ NumLabels \in Nat /\ NumLabels > 0 /\ WordBytes \in Nat /\ WordBytes > 1
                    /\ MAX_SAVED_STACK_ENTRIES \in Nat /\ MaxObjects \in Nat
                    /\ MaxDepth \in Nat /\ MaxUnwinds \in Nat
BY BoundsAssumption

\* Addresses are numbers, far from zero.
LEMMA Addresses ==
    ASSUME Bounded, objs \in Seq(ObjType)
    PROVE  /\ StackAddr \in Int /\ StackAddr > 1
           /\ HeapAddr \in Int /\ HeapAddr > 1
<1>1. MaxSize \in Nat
  BY BoundsAssumption DEF MaxSize, Bounded
<1>2. Cardinality(Active) \in Nat
  <2>1. IsFiniteSet(Objects)
    BY FS_Interval DEF Objects
  <2>2. Active \subseteq Objects
    BY DEF Active
  <2>3. IsFiniteSet(Active)
    BY <2>1, <2>2, FS_Subset
  <2> QED
    BY <2>3, FS_CardinalityType
<1>3. Len(objs) \in Nat
  OBVIOUS
<1>4. \A a, b \in Nat : a * b \in Nat
  OBVIOUS
<1>5. MaxSize * Cardinality(Active) \in Nat /\ MaxSize * Len(objs) \in Nat
  BY <1>1, <1>2, <1>3, <1>4
<1> QED
  BY <1>5 DEF StackAddr, HeapAddr

\* A pointer that is loaded has the label that was stored.
LEMMA LoadedIs ==
    ASSUME NEW ls, NEW l, Stored(ls, l)
    PROVE  LoadedLabel(ls) = l
<1>1. 1 \in 1 .. WordBytes /\ 2 \in 1 .. WordBytes /\ 1 # 2
  BY LabelsType
<1>2. CASE \A i \in 1 .. WordBytes : ls[i] = l
  <2>1. ls[1] = l /\ ls[2] = l
    BY <1>1, <1>2
  <2>2. ~(info[ls[1]].byte = 1 /\ info[ls[2]].byte = 2)
    BY <1>1, <2>1
  <2> QED
    BY <1>1, <2>1, <2>2 DEF LoadedLabel
<1>3. CASE \A i \in 1 .. WordBytes : IsPiece(ls[i], l, i)
  <2>1. \A i \in 1 .. WordBytes : info[ls[i]].op = "Extract" /\ info[ls[i]].l1 = l
                                  /\ info[ls[i]].byte = i
    BY <1>3 DEF IsPiece
  <2>2. info[ls[1]].l1 = l
    BY <1>1, <2>1
  <2> QED
    BY <2>1, <2>2 DEF LoadedLabel
<1> QED
  BY <1>2, <1>3 DEF Stored

LEMMA InitInv == Init => Inv
<1> SUFFICES ASSUME Init PROVE Inv
  OBVIOUS
<1>1. StateType
  <2>1. Raw \in Slot
    BY LabelsType DEF Raw, Slot
  <2>2. info \in [Labels -> Slot]
    BY <2>1 DEF Init
  <2>3. dead \in BOOLEAN
    BY DEF Init
  <2>4. index = 0 /\ depth = 0 /\ unwound = 0 /\ last = 0 /\ top = NumLabels
    BY DEF Init, CONST_LABEL
  <2>5. saved \in [0 .. MAX_SAVED_STACK_ENTRIES -> 0 .. NumLabels]
    BY LabelsType DEF Init
  <2>6. 1 .. index = {}
    BY <2>4
  <2> QED
    BY <2>2, <2>3, <2>4, <2>5, <2>6, LabelsType DEF StateType
<1>2. ProgramType
  <2>1. objs \in Seq(ObjType) /\ Len(objs) = 0
    BY DEF Init
  <2>2. /\ reg \in [obj : 0 .. 0, label : 0 .. NumLabels]
        /\ cell \in [obj : 0 .. 0, labels : [1 .. WordBytes -> 0 .. NumLabels]]
    BY LabelsType DEF Init, Null, CONST_LABEL
  <2> QED
    BY <2>1, <2>2, LabelsType DEF ProgramType
<1>3. Objects = {}
  BY DEF Init, Objects
<1>4. ObjectPart
  BY <1>3 DEF ObjectPart, HeapPart, StackPart, Distinct, EntryPart
<1>5. PointerPart
  BY DEF Init, PointerPart, Stored, LabelOf, Null
<1>6. PiecePart
  BY DEF Init, PiecePart, CONST_LABEL
<1> QED
  BY <1>1, <1>2, <1>4, <1>5, <1>6 DEF Inv

-----------------------------------------------------------------------------
(* Calls and returns. *)

\* Object o is the same but for its state.
Same(o) == /\ objs'[o].where = objs[o].where /\ objs'[o].base = objs[o].base
           /\ objs'[o].size = objs[o].size /\ objs'[o].label = objs[o].label
           /\ objs'[o].depth = objs[o].depth

\* The objects are the same but for local variables that are gone.
SomeGone ==
    /\ objs' \in Seq(ObjType) /\ Len(objs') = Len(objs)
    /\ \A o \in Objects : Same(o) /\ (Exists(o)' => objs'[o].state = objs[o].state)
    /\ \A o \in Objects : objs[o].where = "heap" => objs'[o].state = objs[o].state

LEMMA LocalsGoneFacts ==
    ASSUME objs \in Seq(ObjType), LocalsGone
    PROVE  /\ SomeGone
           /\ \A o \in Objects : objs[o].where = "stack" /\ Exists(o)' => objs[o].depth # depth
                                                                          \/ objs[o].state # "live"
<1> DEFINE New(o) == IF o \in Active /\ objs[o].depth = depth
                     THEN [objs[o] EXCEPT !.state = "gone"] ELSE objs[o]
<1>1. objs' = [o \in 1 .. Len(objs) |-> New(o)]
  BY DEF LocalsGone, Objects
<1>2. ASSUME NEW o \in Objects
      PROVE  /\ New(o) \in ObjType
             /\ New(o).where = objs[o].where /\ New(o).base = objs[o].base
             /\ New(o).size = objs[o].size /\ New(o).label = objs[o].label
             /\ New(o).depth = objs[o].depth
             /\ New(o).state # "gone" => New(o).state = objs[o].state
             /\ objs[o].where = "heap" => New(o).state = objs[o].state
             /\ objs[o].where = "stack" /\ New(o).state # "gone" =>
                    objs[o].depth # depth \/ objs[o].state # "live"
  <2>1. objs[o] \in ObjType
    BY DEF Objects
  <2> QED
    BY <2>1 DEF ObjType, Active
<1>3. Len(objs) \in Nat
  OBVIOUS
<1>4. objs' \in Seq(ObjType) /\ Len(objs') = Len(objs)
  <2>1. \A o \in 1 .. Len(objs) : New(o) \in ObjType
    BY <1>2 DEF Objects
  <2> HIDE DEF New
  <2>2. objs' \in [1 .. Len(objs) -> ObjType]
    BY <1>1, <2>1
  <2> QED
    BY <1>3, <2>2
<1>5. \A o \in Objects : objs'[o] = New(o)
  BY <1>1 DEF Objects
<1> HIDE DEF New
<1> QED
  BY <1>2, <1>4, <1>5 DEF SomeGone, Same, Exists

\* What such a step keeps.
LEMMA SomeGoneKeeps ==
    ASSUME ProgramType, SomeGone, UNCHANGED <<info, last, reg, cell>>
    PROVE  /\ ProgramType'
           /\ HeapPart => HeapPart'
           /\ Distinct => Distinct'
           /\ EntryPart => EntryPart'
           /\ PointerPart => PointerPart'
           /\ PiecePart => PiecePart'
<1>1. Objects' = Objects
  BY DEF Objects, SomeGone
<1>2. ProgramType'
  BY DEF ProgramType, SomeGone
<1>3. \A o \in Objects : Exists(o)' => Exists(o)
  BY DEF Exists, SomeGone
<1>4. HeapPart => HeapPart'
  BY <1>1 DEF HeapPart, SomeGone, Same, Exists
<1>5. Distinct => Distinct'
  BY <1>1, <1>3 DEF Distinct, SomeGone, Same
<1>6. EntryPart => EntryPart'
  <2>1. ASSUME NEW o \in Objects, Exists(o)'
        PROVE  Entry(o)' = Entry(o) /\ objs'[o].label = objs[o].label
    BY <2>1 DEF Entry, SomeGone, Same
  <2> QED
    BY <1>1, <1>3, <2>1 DEF EntryPart
<1>7. \A o \in 0 .. Len(objs) : LabelOf(o)' = LabelOf(o)
  BY DEF LabelOf, SomeGone, Same, Objects, Null, ProgramType
<1>8. PointerPart => PointerPart'
  <2>1. reg.obj \in 0 .. Len(objs) /\ cell.obj \in 0 .. Len(objs)
    BY DEF ProgramType
  <2>2. LabelOf(reg.obj)' = LabelOf(reg.obj) /\ LabelOf(cell.obj)' = LabelOf(cell.obj)
    BY <1>7, <2>1
  <2> QED
    BY <2>2 DEF PointerPart, Stored, IsPiece
<1>9. PiecePart => PiecePart'
  BY DEF PiecePart, IsPiece
<1> QED
  BY <1>2, <1>4, <1>5, <1>6, <1>8, <1>9

\* Nothing is gone.
LEMMA SameObjects ==
    ASSUME ProgramType, objs' = objs
    PROVE  SomeGone
BY DEF ProgramType, SomeGone, Same, Exists

LEMMA ObjectType ==
    ASSUME ProgramType, NEW o \in Objects
    PROVE  /\ objs[o] \in ObjType
           /\ objs[o].depth \in Nat /\ objs[o].label \in Int /\ objs[o].base \in Int
           /\ objs[o].base > 1 /\ objs[o].size \in Nat
<1>1. objs[o] \in ObjType
  BY DEF ProgramType, Objects
<1> QED
  BY <1>1, LabelsType DEF ObjType

\* What is known of a local variable.
LEMMA LocalVariable ==
    ASSUME ProgramType, StackPart, NEW o \in Objects, objs[o].where = "stack", Exists(o)
    PROVE  /\ objs[o].state = "live" /\ objs[o].label \in top .. NumLabels - 1
           /\ objs[o].depth <= depth /\ objs[o].depth \in Nat /\ objs[o].label \in Int
           /\ \A i \in objs[o].depth + unwound + 1 .. index : saved[i] <= objs[o].label
<1>1. objs[o].depth \in Nat /\ objs[o].label \in Int
  BY ObjectType
<1> QED
  BY <1>1, Zenon DEF StackPart

LEMMA PushInv ==
    ASSUME Shallow, Inv, Push
    PROVE  Inv'
<1>1. /\ ~dead /\ depth < MaxDepth /\ depth' = depth + 1
      /\ UNCHANGED <<info, last, top, dead, unwound, objs, reg, cell>>
  BY DEF Push
<1>2. /\ StateType /\ ProgramType /\ ObjectPart /\ PointerPart /\ PiecePart
  BY <1>1 DEF Inv
<1>3. depth \in Nat /\ unwound \in Nat /\ index \in Nat /\ index < MAX_SAVED_STACK_ENTRIES
      /\ top \in 1 .. NumLabels /\ index + 1 \in 0 .. MAX_SAVED_STACK_ENTRIES
  BY <1>1, <1>2, LabelsType DEF StateType, Shallow
<1>4. saved' = [saved EXCEPT ![index + 1] = top] /\ index' = index + 1
  BY <1>3 DEF Push
<1>5. saved \in [0 .. MAX_SAVED_STACK_ENTRIES -> 0 .. NumLabels]
  BY <1>2 DEF StateType
<1>6. /\ saved' \in [0 .. MAX_SAVED_STACK_ENTRIES -> 0 .. NumLabels]
      /\ saved'[index + 1] = top
      /\ \A i \in 1 .. index : saved'[i] = saved[i]
  BY <1>3, <1>4, <1>5, LabelsType
<1>7. StateType'
  <2>1. \A i \in 1 .. index' : saved'[i] \in 1 .. NumLabels
    <3> SUFFICES ASSUME NEW i \in 1 .. index + 1
                 PROVE  saved'[i] \in 1 .. NumLabels
      BY <1>4
    <3>1. i \in 1 .. index \/ i = index + 1
      BY <1>3
    <3> QED
      BY <1>2, <1>3, <1>6, <3>1 DEF StateType
  <2>2. depth' \in 0 .. MaxDepth /\ index' = depth' + unwound'
    BY <1>1, <1>2, <1>3, <1>4, LabelsType DEF StateType
  <2> QED
    BY <1>1, <1>2, <1>6, <2>1, <2>2 DEF StateType, Labels
<1>8. /\ ProgramType' /\ HeapPart' /\ Distinct' /\ EntryPart' /\ PointerPart' /\ PiecePart'
  BY <1>1, <1>2, SameObjects, SomeGoneKeeps DEF ObjectPart
<1>9. StackPart'
  <2> SUFFICES ASSUME NEW o \in Objects, objs[o].where = "stack", Exists(o)
               PROVE  /\ objs[o].state = "live"
                      /\ objs[o].label \in top .. NumLabels - 1
                      /\ objs[o].depth <= depth + 1
                      /\ \A i \in objs[o].depth + unwound + 1 .. index + 1 :
                            saved'[i] <= objs[o].label
    BY <1>1, <1>4 DEF StackPart, Objects, Exists
  <2>1. /\ objs[o].state = "live" /\ objs[o].label \in top .. NumLabels - 1
        /\ objs[o].depth <= depth /\ objs[o].depth \in Nat /\ objs[o].label \in Int
        /\ \A i \in objs[o].depth + unwound + 1 .. index : saved[i] <= objs[o].label
    BY <1>2, LocalVariable DEF ObjectPart
  <2>2. ASSUME NEW i \in objs[o].depth + unwound + 1 .. index + 1
        PROVE  saved'[i] <= objs[o].label
    <3>1. i = index + 1 \/ (i \in 1 .. index /\ i \in objs[o].depth + unwound + 1 .. index)
      BY <1>3, <2>1
    <3> QED
      BY <1>3, <1>6, <2>1, <3>1
  <2>3. objs[o].depth <= depth + 1
    BY <1>3, <2>1
  <2> QED
    BY <2>1, <2>2, <2>3
<1> QED
  BY <1>7, <1>8, <1>9 DEF Inv, ObjectPart

\* A call is over: whatever the top is moved to, the local variables that are left are
\* above it.
LEMMA PopInv ==
    ASSUME Shallow, Inv, Pop
    PROVE  Inv'
<1>1. /\ ~dead /\ depth > 0 /\ depth' = depth - 1 /\ index' = index - 1 /\ LocalsGone
      /\ top' \in SavedTops(index)
      /\ UNCHANGED <<info, last, saved, dead, unwound, reg, cell>>
  BY DEF Pop
<1>2. /\ StateType /\ ProgramType /\ ObjectPart /\ PointerPart /\ PiecePart
  BY <1>1 DEF Inv
<1>3. /\ depth \in Nat /\ unwound \in Nat /\ index = depth + unwound /\ index \in 1 .. index
      /\ index \in 0 .. MAX_SAVED_STACK_ENTRIES - 1
  BY <1>1, <1>2, LabelsType DEF StateType, Shallow
<1>4. top' = saved[index] /\ top' \in 1 .. NumLabels
  BY <1>1, <1>2, <1>3 DEF SavedTops, StateType
<1>5. StateType'
  <2>1. \A i \in 1 .. index' : saved'[i] \in 1 .. NumLabels
    <3>1. \A i \in 1 .. index - 1 : i \in 1 .. index
      BY <1>3
    <3> QED
      BY <1>1, <1>2, <3>1 DEF StateType
  <2>2. depth' \in 0 .. MaxDepth /\ index' = depth' + unwound'
    BY <1>1, <1>2, <1>3, LabelsType DEF StateType
  <2> QED
    BY <1>1, <1>2, <1>4, <2>1, <2>2 DEF StateType, Labels
<1>6. SomeGone /\ \A o \in Objects : objs[o].where = "stack" /\ Exists(o)' =>
                                        objs[o].depth # depth \/ objs[o].state # "live"
  BY <1>1, <1>2, LocalsGoneFacts DEF ProgramType
<1>7. /\ ProgramType' /\ HeapPart' /\ Distinct' /\ EntryPart' /\ PointerPart' /\ PiecePart'
  BY <1>1, <1>2, <1>6, SomeGoneKeeps DEF ObjectPart
<1>8. StackPart'
  <2>1. Objects' = Objects
    BY <1>6 DEF SomeGone, Objects
  <2> SUFFICES ASSUME NEW o \in Objects, objs[o].where = "stack", Exists(o)'
               PROVE  /\ objs[o].state = "live"
                      /\ objs[o].label \in top' .. NumLabels - 1
                      /\ objs[o].depth <= depth - 1
                      /\ \A i \in objs[o].depth + unwound + 1 .. index - 1 :
                            saved[i] <= objs[o].label
    BY <1>1, <1>6, <2>1 DEF StackPart, SomeGone, Same
  <2>2. Exists(o)
    BY <1>6 DEF SomeGone, Exists
  <2>3. /\ objs[o].state = "live" /\ objs[o].label \in top .. NumLabels - 1
        /\ objs[o].depth <= depth /\ objs[o].depth \in Nat /\ objs[o].label \in Int
        /\ \A i \in objs[o].depth + unwound + 1 .. index : saved[i] <= objs[o].label
    BY <1>2, <2>2, LocalVariable DEF ObjectPart
  <2>4. objs[o].depth # depth
    BY <1>6, <2>3
  <2>5. objs[o].depth <= depth - 1
    BY <1>3, <2>3, <2>4
  <2>6. index \in objs[o].depth + unwound + 1 .. index
    BY <1>3, <2>3, <2>5
  <2>7. saved[index] <= objs[o].label
    BY <2>3, <2>6
  <2>8. objs[o].label \in top' .. NumLabels - 1
    BY <1>2, <1>4, <2>3, <2>7, LabelsType DEF StateType
  <2>9. \A i \in objs[o].depth + unwound + 1 .. index - 1 :
           i \in objs[o].depth + unwound + 1 .. index
    BY <1>3, <2>3
  <2> QED
    BY <2>3, <2>5, <2>8, <2>9
<1> QED
  BY <1>5, <1>7, <1>8 DEF Inv, ObjectPart

LEMMA UnwindInv ==
    ASSUME Shallow, Inv, Unwind
    PROVE  Inv'
<1>1. /\ ~dead /\ depth > 0 /\ depth' = depth - 1 /\ unwound < MaxUnwinds
      /\ unwound' = unwound + 1 /\ LocalsGone
      /\ UNCHANGED <<info, last, top, saved, index, dead, reg, cell>>
  BY DEF Unwind
<1>2. /\ StateType /\ ProgramType /\ ObjectPart /\ PointerPart /\ PiecePart
  BY <1>1 DEF Inv
<1>3. depth \in Nat /\ unwound \in Nat /\ index = depth + unwound
  BY <1>2, LabelsType DEF StateType
<1>4. StateType'
  <2>1. depth' \in 0 .. MaxDepth /\ unwound' \in 0 .. MaxUnwinds /\ index' = depth' + unwound'
    BY <1>1, <1>2, <1>3, LabelsType DEF StateType
  <2> QED
    BY <1>1, <1>2, <2>1 DEF StateType, Labels
<1>5. SomeGone /\ \A o \in Objects : objs[o].where = "stack" /\ Exists(o)' =>
                                        objs[o].depth # depth \/ objs[o].state # "live"
  BY <1>1, <1>2, LocalsGoneFacts DEF ProgramType
<1>6. /\ ProgramType' /\ HeapPart' /\ Distinct' /\ EntryPart' /\ PointerPart' /\ PiecePart'
  BY <1>1, <1>2, <1>5, SomeGoneKeeps DEF ObjectPart
<1>7. StackPart'
  <2>1. Objects' = Objects
    BY <1>5 DEF SomeGone, Objects
  <2> SUFFICES ASSUME NEW o \in Objects, objs[o].where = "stack", Exists(o)'
               PROVE  /\ objs[o].state = "live"
                      /\ objs[o].label \in top .. NumLabels - 1
                      /\ objs[o].depth <= depth - 1
                      /\ \A i \in objs[o].depth + (unwound + 1) + 1 .. index :
                            saved[i] <= objs[o].label
    BY <1>1, <1>5, <2>1 DEF StackPart, SomeGone, Same
  <2>2. Exists(o)
    BY <1>5 DEF SomeGone, Exists
  <2>3. /\ objs[o].state = "live" /\ objs[o].label \in top .. NumLabels - 1
        /\ objs[o].depth <= depth /\ objs[o].depth \in Nat
        /\ \A i \in objs[o].depth + unwound + 1 .. index : saved[i] <= objs[o].label
    BY <1>2, <2>2, LocalVariable DEF ObjectPart
  <2>4. objs[o].depth # depth
    BY <1>5, <2>3
  <2>5. objs[o].depth <= depth - 1
    BY <1>3, <2>3, <2>4
  <2>6. \A i \in objs[o].depth + (unwound + 1) + 1 .. index :
           i \in objs[o].depth + unwound + 1 .. index
    BY <1>3, <2>3
  <2> QED
    BY <2>3, <2>5, <2>6
<1> QED
  BY <1>4, <1>6, <1>7 DEF Inv, ObjectPart

-----------------------------------------------------------------------------
(* What steps that change slots have in common. *)

\* Pieces stay, and no label becomes a piece.
LEMMA PiecesKept ==
    ASSUME last \in Nat, last' \in Nat, last <= last',
           \A e \in 1 .. last : info[e].op = "Extract" => info'[e] = info[e],
           \A e \in 1 .. last' : info'[e].op = "Extract" => e \in 1 .. last /\ info[e].op = "Extract"
    PROVE  /\ \A e, l, i : IsPiece(e, l, i) => IsPiece(e, l, i)'
           /\ PiecePart => PiecePart'
<1>1. ASSUME NEW e, NEW l, NEW i, IsPiece(e, l, i)
      PROVE  IsPiece(e, l, i)'
  <2>1. e \in 1 .. last /\ e \in 1 .. last'
    BY <1>1 DEF IsPiece
  <2> QED
    BY <1>1, <2>1 DEF IsPiece
<1>2. ASSUME PiecePart, NEW e \in 1 .. last', info'[e].op = "Extract", NEW i \in 1 .. WordBytes
      PROVE  \E f \in 1 .. last' : IsPiece(f, info[e].l1, i)'
  <2>1. e \in 1 .. last /\ info[e].op = "Extract" /\ info'[e] = info[e]
    BY <1>2
  <2>2. PICK f \in 1 .. last : IsPiece(f, info[e].l1, i)
    BY <1>2, <2>1 DEF PiecePart
  <2>3. IsPiece(f, info[e].l1, i)'
    BY <1>1, <2>1, <2>2
  <2>4. f \in 1 .. last'
    OBVIOUS
  <2> QED
    BY <2>3, <2>4
<1> QED
  BY <1>1, <1>2 DEF PiecePart

LEMMA CellKept ==
    ASSUME ProgramType, PointerPart, cell' = cell,
           \A o \in Objects : objs'[o].label = objs[o].label,
           \A e, l, i : IsPiece(e, l, i) => IsPiece(e, l, i)'
    PROVE  Stored(cell.labels, LabelOf(cell.obj))'
<1>1. cell.obj \in 0 .. Len(objs) /\ Len(objs) \in Nat
  BY DEF ProgramType
<1>2. LabelOf(cell.obj)' = LabelOf(cell.obj)
  BY <1>1 DEF LabelOf, Objects, Null
<1>3. CASE \A i \in 1 .. WordBytes : cell.labels[i] = LabelOf(cell.obj)
  BY <1>2, <1>3 DEF Stored
<1>4. CASE \A i \in 1 .. WordBytes : IsPiece(cell.labels[i], LabelOf(cell.obj), i)
  <2>1. \A i \in 1 .. WordBytes : IsPiece(cell.labels[i], LabelOf(cell.obj), i)'
    BY <1>2, <1>4
  <2> QED
    BY <2>1 DEF Stored
<1> QED
  BY <1>3, <1>4 DEF PointerPart, Stored

\* One more object, with a slot of its own.
Added(n, l) ==
    /\ n = Len(objs) + 1
    /\ objs' \in Seq(ObjType) /\ Len(objs') = n
    /\ \A o \in Objects : Same(o) /\ (Exists(o)' <=> Exists(o))
    /\ objs'[n].state # "gone" /\ objs'[n].label = l
    /\ info'[l] = Entry(n)'
    /\ \A o \in Objects : Exists(o) => /\ objs[o].label # l
                                       /\ info'[objs[o].label] = Entry(o)'

LEMMA AddedKeeps ==
    ASSUME ProgramType, Distinct, NEW n, NEW l, Added(n, l)
    PROVE  /\ Distinct' /\ EntryPart'
           /\ Objects' = Objects \cup {n} /\ n \notin Objects
<1>1. Len(objs) \in Nat /\ Len(objs') = n /\ n = Len(objs) + 1
  BY DEF ProgramType, Added
<1>2. Objects' = Objects \cup {n} /\ n \notin Objects
  BY <1>1 DEF Objects
<1>3. /\ \A o \in Objects : objs'[o].label = objs[o].label /\ (Exists(o)' <=> Exists(o))
      /\ \A o \in Objects : Exists(o) => objs[o].label # l /\ info'[objs[o].label] = Entry(o)'
      /\ objs'[n].label = l /\ info'[l] = Entry(n)'
  BY DEF Added, Same
<1>4. Distinct'
  BY <1>2, <1>3 DEF Distinct
<1>5. EntryPart'
  <2> SUFFICES ASSUME NEW o \in Objects', Exists(o)'
               PROVE  info'[objs'[o].label] = Entry(o)'
    BY DEF EntryPart
  <2>1. CASE o = n
    BY <1>3, <2>1
  <2>2. CASE o \in Objects
    BY <1>3, <2>2
  <2> QED
    BY <1>2, <2>1, <2>2
<1> QED
  BY <1>2, <1>4, <1>5

LEMMA NewObjectFacts ==
    ASSUME ProgramType, NEW w \in {"stack", "heap"}, NEW b \in Int, b > 1, NEW sz \in Nat,
           NEW l \in 0 .. NumLabels, depth \in Nat
    PROVE  /\ NewObject(w, b, sz, l) \in Seq(ObjType)
           /\ Len(NewObject(w, b, sz, l)) = Len(objs) + 1
           /\ \A o \in Objects : NewObject(w, b, sz, l)[o] = objs[o]
           /\ NewObject(w, b, sz, l)[Len(objs) + 1] =
                [where |-> w, base |-> b, size |-> sz, label |-> l, state |-> "live", depth |-> depth]
<1> DEFINE r == [where |-> w, base |-> b, size |-> sz, label |-> l, state |-> "live", depth |-> depth]
<1>1. r \in ObjType
  BY DEF ObjType
<1>2. objs \in Seq(ObjType)
  BY DEF ProgramType
<1>3. NewObject(w, b, sz, l) = Append(objs, r)
  BY DEF NewObject
<1> HIDE DEF r
<1>4. /\ Append(objs, r) \in Seq(ObjType) /\ Len(Append(objs, r)) = Len(objs) + 1
      /\ \A o \in 1 .. Len(objs) : Append(objs, r)[o] = objs[o]
      /\ Append(objs, r)[Len(objs) + 1] = r
  BY <1>1, <1>2, AppendProperties
<1> QED
  BY <1>3, <1>4 DEF Objects, r

-----------------------------------------------------------------------------
(* Allocation. *)

\* Objects that exist have labels of slots, those of the stack above those of the heap.
LEMMA Regions ==
    ASSUME StateType, ProgramType, ObjectPart, last < top, NEW o \in Objects, Exists(o)
    PROVE  /\ objs[o].label \in Labels /\ objs[o].label > 0
           /\ objs[o].where = "heap" => objs[o].label \in 1 .. last
           /\ objs[o].where = "stack" => objs[o].label >= top
<1>1. last \in Nat /\ top \in Nat /\ top <= NumLabels
  BY LabelsType DEF StateType
<1>2. objs[o].where \in {"stack", "heap"}
  BY ObjectType DEF ObjType
<1>3. CASE objs[o].where = "heap"
  <2>1. objs[o].label \in 1 .. last
    BY <1>3 DEF ObjectPart, HeapPart
  <2> QED
    BY <1>1, <1>3, <2>1, LabelsType DEF Labels
<1>4. CASE objs[o].where = "stack"
  <2>1. objs[o].label \in top .. NumLabels - 1
    BY <1>4, LocalVariable DEF ObjectPart
  <2>2. top > 0
    BY DEF StateType
  <2> QED
    BY <1>1, <1>4, <2>1, <2>2, LabelsType DEF Labels
<1> QED
  BY <1>2, <1>3, <1>4

LEMMA AllocaInv ==
    ASSUME Bounded, Inv, RegionsApart, RegionsApart', NEW size \in Sizes, Alloca(size)
    PROVE  Inv'
<1>1. /\ ~dead /\ depth > 0 /\ Len(objs) < MaxObjects /\ top > 1 /\ top' = top - 1
      /\ info' = [info EXCEPT ![top - 1] = Bounds(StackAddr, StackAddr + size)]
      /\ objs' = NewObject("stack", StackAddr, size, top - 1)
      /\ reg' = [obj |-> Len(objs) + 1, label |-> top - 1]
      /\ UNCHANGED <<last, saved, index, dead, depth, unwound, cell>>
  BY DEF Alloca
<1>2. /\ StateType /\ ProgramType /\ ObjectPart /\ PointerPart /\ PiecePart
  BY <1>1 DEF Inv
<1>3. /\ top \in 1 .. NumLabels /\ last \in Nat /\ last < top /\ last < top - 1
      /\ top - 1 \in Labels /\ size \in Nat /\ depth \in Nat /\ Len(objs) \in Nat
      /\ top - 1 \in 0 .. NumLabels
  BY <1>1, <1>2, LabelsType, BoundsAssumption DEF RegionsApart, StateType, ProgramType, Labels
<1>4. StackAddr \in Int /\ StackAddr > 1
  BY <1>2, Addresses DEF ProgramType
<1> DEFINE b == StackAddr
           r == [op |-> "Alloca", lo |-> b, hi |-> b + size, l1 |-> 0, byte |-> 0]
           m == [where |-> "stack", base |-> b, size |-> size, label |-> top - 1,
                 state |-> "live", depth |-> depth]
<1>5. info' = [info EXCEPT ![top - 1] = r]
  BY <1>1, BoundsIs
<1>6. /\ objs' \in Seq(ObjType) /\ Len(objs') = Len(objs) + 1
      /\ \A o \in Objects : objs'[o] = objs[o]
      /\ objs'[Len(objs) + 1] = m
  BY <1>1, <1>2, <1>3, <1>4, NewObjectFacts
<1> HIDE DEF b
<1>7. b \in Int
  BY <1>4 DEF b
<1>8. r \in Slot
  BY <1>3, <1>7, LabelsType DEF Slot
<1>9. info \in [Labels -> Slot]
  BY <1>2 DEF StateType
<1>10. /\ info' \in [Labels -> Slot] /\ info'[top - 1] = r
       /\ \A e \in Labels : e # top - 1 => info'[e] = info[e]
  BY <1>3, <1>5, <1>8, <1>9
<1> HIDE DEF r
<1>11. StateType'
  <2>1. top' \in 1 .. NumLabels
    BY <1>1, <1>3
  <2> QED
    BY <1>1, <1>2, <1>10, <2>1 DEF StateType, Labels
<1>12. PICK n \in Nat : n = Len(objs) + 1
  BY <1>3
<1>13. ProgramType'
  <2>1. reg' \in [obj : 0 .. n, label : 0 .. NumLabels]
    BY <1>1, <1>3, <1>12
  <2>2. Len(objs') <= MaxObjects /\ Len(objs') = n
    BY <1>1, <1>3, <1>6, <1>12, LabelsType
  <2>3. cell' \in [obj : 0 .. n, labels : [1 .. WordBytes -> 0 .. NumLabels]]
    BY <1>1, <1>2, <1>3, <1>12 DEF ProgramType
  <2> QED
    BY <1>6, <2>1, <2>2, <2>3 DEF ProgramType
<1>14. Added(n, top - 1)
  <2>1. \A o \in Objects : Same(o) /\ (Exists(o)' <=> Exists(o)) /\ Entry(o)' = Entry(o)
    BY <1>6 DEF Same, Exists, Entry
  <2>2. ASSUME NEW o \in Objects, Exists(o)
        PROVE  objs[o].label # top - 1 /\ info'[objs[o].label] = Entry(o)'
    <3>1. objs[o].label \in Labels /\ objs[o].label # top - 1
      <4>1. objs[o].where \in {"stack", "heap"}
        BY <1>2, ObjectType DEF ObjType
      <4> QED
        BY <1>2, <1>3, <2>2, <4>1, Regions
    <3>2. info[objs[o].label] = Entry(o)
      BY <1>2, <2>2 DEF ObjectPart, EntryPart
    <3> QED
      BY <1>10, <2>1, <3>1, <3>2
  <2>3. objs'[n].state # "gone" /\ objs'[n].label = top - 1
    BY <1>6, <1>12
  <2>4. info'[top - 1] = Entry(n)'
    BY <1>6, <1>10, <1>12 DEF Entry, r
  <2> QED
    BY <1>6, <1>12, <2>1, <2>2, <2>3, <2>4 DEF Added
<1>15. Distinct' /\ EntryPart' /\ Objects' = Objects \cup {n} /\ n \notin Objects
  BY <1>2, <1>14, AddedKeeps DEF ObjectPart
<1>16. HeapPart'
  <2>1. objs'[n].where = "stack"
    BY <1>6, <1>12
  <2> QED
    BY <1>1, <1>2, <1>6, <1>15, <2>1 DEF ObjectPart, HeapPart, Exists
<1>17. StackPart'
  <2> SUFFICES ASSUME NEW o \in Objects', objs'[o].where = "stack", Exists(o)'
               PROVE  /\ objs'[o].state = "live"
                      /\ objs'[o].label \in top - 1 .. NumLabels - 1
                      /\ objs'[o].depth <= depth
                      /\ \A i \in objs'[o].depth + unwound + 1 .. index : saved[i] <= objs'[o].label
    BY <1>1 DEF StackPart
  <2>1. CASE o = n
    <3>1. objs'[o] = m
      BY <1>6, <1>12, <2>1
    <3>2. depth + unwound + 1 .. index = {}
      BY <1>2, <1>3 DEF StateType
    <3> QED
      BY <1>3, <3>1, <3>2, LabelsType
  <2>2. CASE o \in Objects
    <3>1. objs'[o] = objs[o] /\ Exists(o)
      BY <1>6, <2>2 DEF Exists
    <3>2. /\ objs[o].state = "live" /\ objs[o].label \in top .. NumLabels - 1
          /\ objs[o].depth <= depth
          /\ \A i \in objs[o].depth + unwound + 1 .. index : saved[i] <= objs[o].label
      BY <1>2, <2>2, <3>1, LocalVariable DEF ObjectPart
    <3>3. objs[o].label \in top - 1 .. NumLabels - 1
      BY <1>3, <3>2, LabelsType
    <3> QED
      BY <3>1, <3>2, <3>3
  <2> QED
    BY <1>15, <2>1, <2>2
<1>18. (\A e, l, i : IsPiece(e, l, i) => IsPiece(e, l, i)') /\ PiecePart'
  <2>1. \A e \in 1 .. last : e \in Labels /\ e # top - 1
    BY <1>3, LabelsType DEF Labels
  <2>2. \A e \in 1 .. last : info'[e] = info[e]
    BY <1>10, <2>1
  <2> QED
    BY <1>1, <1>2, <1>3, <2>2, PiecesKept
<1>19. PointerPart'
  <2>1. Stored(cell.labels, LabelOf(cell.obj))'
    BY <1>1, <1>2, <1>6, <1>18, CellKept
  <2>2. reg'.label = LabelOf(reg.obj)'
    BY <1>1, <1>3, <1>6 DEF LabelOf, Null
  <2> QED
    BY <2>1, <2>2 DEF PointerPart
<1> QED
  BY <1>11, <1>13, <1>15, <1>16, <1>17, <1>18, <1>19 DEF Inv, ObjectPart

\* Slots old and objects q: the heap object of the register may be marked as freed, in
\* both, and all else is as it was.
Marks(old, q) ==
    /\ old \in [Labels -> Slot] /\ q \in Seq(ObjType) /\ Len(q) = Len(objs)
    /\ \A o \in Objects :
          /\ q[o].where = objs[o].where /\ q[o].base = objs[o].base
          /\ q[o].size = objs[o].size /\ q[o].label = objs[o].label
          /\ q[o].depth = objs[o].depth
          /\ q[o].state = "gone" <=> objs[o].state = "gone"
          /\ objs[o].where = "stack" => q[o].state = objs[o].state
    /\ \A o \in Objects : Exists(o) =>
          old[objs[o].label] = [op |-> IF q[o].state = "live" THEN "Alloca" ELSE "Free",
                                lo |-> objs[o].base, hi |-> objs[o].base + objs[o].size,
                                l1 |-> 0, byte |-> 0]
    /\ \A e \in 1 .. last : /\ info[e].op = "Extract" => old[e] = info[e]
                            /\ old[e].op = "Extract" => info[e].op = "Extract"

LEMMA NoMarks ==
    ASSUME StateType, ProgramType, ObjectPart
    PROVE  Marks(info, objs)
BY DEF StateType, ProgramType, ObjectPart, EntryPart, Entry, Marks

\* The slot of a heap object that is freed is marked, once.
LEMMA FreedMarks ==
    ASSUME StateType, ProgramType, ObjectPart, PointerPart, last < top, ToHeap(reg),
           NEW st \in {"freed", "kept"}, NEW q \in Seq(ObjType), Len(q) = Len(objs),
           q[reg.obj] = [objs[reg.obj] EXCEPT !.state = st],
           \A o \in Objects : o # reg.obj => q[o] = objs[o]
    PROVE  Marks([info EXCEPT ![reg.label] = Freed(reg.label)], q)
<1> DEFINE p == reg.obj
           l == reg.label
           old == [info EXCEPT ![l] = Freed(l)]
           r == [op |-> "Free", lo |-> objs[p].base, hi |-> objs[p].base + objs[p].size,
                 l1 |-> 0, byte |-> 0]
<1>1. p \in Objects /\ objs[p].where = "heap"
  BY DEF ToHeap, ProgramType, Objects, Null
<1>2. Exists(p) /\ l = objs[p].label
  BY <1>1 DEF ObjectPart, HeapPart, PointerPart, LabelOf, ToHeap
<1>3. l \in Labels /\ l \in 1 .. last
  BY <1>1, <1>2, Regions
<1>4. info[l] = Entry(p) /\ info \in [Labels -> Slot]
  BY <1>1, <1>2 DEF ObjectPart, EntryPart, StateType
<1>5. Freed(l) = r
  <2>1. info[l] = [op |-> IF objs[p].state = "live" THEN "Alloca" ELSE "Free",
                   lo |-> objs[p].base, hi |-> objs[p].base + objs[p].size, l1 |-> 0, byte |-> 0]
    BY <1>4 DEF Entry
  <2>2. CASE objs[p].state = "live"
    <3>1. info[l] = [op |-> "Alloca", lo |-> objs[p].base, hi |-> objs[p].base + objs[p].size,
                     l1 |-> 0, byte |-> 0]
      BY <2>1, <2>2
    <3>2. info[l].op = "Alloca"
      BY <3>1
    <3> QED
      BY <3>1, <3>2 DEF Freed
  <2>3. CASE objs[p].state # "live"
    <3>1. info[l] = r
      BY <2>1, <2>3
    <3>2. info[l].op # "Alloca"
      BY <3>1
    <3> QED
      BY <3>1, <3>2 DEF Freed
  <2> QED
    BY <2>2, <2>3
<1>6. objs[p] \in ObjType /\ objs[p].base \in Int /\ objs[p].size \in Nat
  BY <1>1, ObjectType
<1>7. r \in Slot
  BY <1>6, LabelsType DEF Slot
<1> HIDE DEF r
<1>8. old = [info EXCEPT ![l] = r]
  BY <1>5
<1>9. /\ old \in [Labels -> Slot] /\ old[l] = r
      /\ \A e \in Labels : e # l => old[e] = info[e]
  BY <1>3, <1>4, <1>7, <1>8
<1> HIDE DEF old, p, l
<1>10. q[p] = [objs[p] EXCEPT !.state = st] /\ \A o \in Objects : o # p => q[o] = objs[o]
  BY DEF p
<1>11. /\ q[p].where = objs[p].where /\ q[p].base = objs[p].base
       /\ q[p].size = objs[p].size /\ q[p].label = objs[p].label
       /\ q[p].depth = objs[p].depth /\ q[p].state = st
  BY <1>6, <1>10 DEF ObjType
<1>12. ASSUME NEW o \in Objects, Exists(o)
       PROVE  old[objs[o].label] = [op |-> IF q[o].state = "live" THEN "Alloca" ELSE "Free",
                                    lo |-> objs[o].base, hi |-> objs[o].base + objs[o].size,
                                    l1 |-> 0, byte |-> 0]
  <2>1. CASE o = p
    BY <1>2, <1>9, <1>11, <2>1 DEF r
  <2>2. CASE o # p
    <3>1. objs[o].label # l /\ objs[o].label \in Labels
      BY <1>1, <1>2, <1>12, <2>2, Regions DEF ObjectPart, Distinct
    <3>2. info[objs[o].label] = Entry(o)
      BY <1>12 DEF ObjectPart, EntryPart
    <3> QED
      BY <1>9, <1>10, <2>2, <3>1, <3>2 DEF Entry
  <2> QED
    BY <2>1, <2>2
<1>13. ASSUME NEW e \in 1 .. last
       PROVE  /\ info[e].op = "Extract" => old[e] = info[e]
              /\ old[e].op = "Extract" => info[e].op = "Extract"
  <2>1. e \in Labels
    BY LabelsType DEF StateType, Labels
  <2>2. info[l].op # "Extract" /\ old[l].op # "Extract"
    BY <1>4, <1>9 DEF Entry, r
  <2> QED
    BY <1>9, <2>1, <2>2
<1>14. ASSUME NEW o \in Objects
       PROVE  /\ q[o].where = objs[o].where /\ q[o].base = objs[o].base
              /\ q[o].size = objs[o].size /\ q[o].label = objs[o].label
              /\ q[o].depth = objs[o].depth
              /\ q[o].state = "gone" <=> objs[o].state = "gone"
              /\ objs[o].where = "stack" => q[o].state = objs[o].state
  BY <1>1, <1>2, <1>10, <1>11 DEF Exists
<1> QED
  BY <1>9, <1>12, <1>13, <1>14 DEF Marks, old, l

\* A step that only marks.
LEMMA MarkedInv ==
    ASSUME StateType, ProgramType, ObjectPart, PointerPart, PiecePart, ~dead,
           Marks(info', objs'), UNCHANGED <<last, top, saved, index, dead, depth, unwound, cell>>,
           reg' = reg \/ reg' = [obj |-> Null, label |-> CONST_LABEL]
    PROVE  Inv'
<1>1. Objects' = Objects /\ Len(objs') = Len(objs)
  BY DEF Marks, Objects
<1>2. StateType'
  BY DEF StateType, Marks, Labels
<1>3. ProgramType'
  <2>1. reg' \in [obj : 0 .. Len(objs), label : 0 .. NumLabels]
    BY LabelsType DEF ProgramType, Null, CONST_LABEL
  <2> QED
    BY <1>1, <2>1 DEF ProgramType, Marks
<1>4. \A o \in Objects : Same(o) /\ (Exists(o)' <=> Exists(o))
  BY DEF Marks, Same, Exists
<1>5. HeapPart' /\ StackPart' /\ Distinct'
  <2>1. HeapPart'
    BY <1>1, <1>4 DEF ObjectPart, HeapPart, Same
  <2>2. StackPart'
    <3>1. \A o \in Objects : objs[o].where = "stack" => objs'[o].state = objs[o].state
      BY DEF Marks
    <3> QED
      BY <1>1, <1>4, <3>1 DEF ObjectPart, StackPart, Same
  <2>3. Distinct'
    BY <1>1, <1>4 DEF ObjectPart, Distinct, Same
  <2> QED
    BY <2>1, <2>2, <2>3
<1>6. EntryPart'
  <2> SUFFICES ASSUME NEW o \in Objects, Exists(o)
               PROVE  info'[objs'[o].label] = Entry(o)'
    BY <1>1, <1>4 DEF EntryPart
  <2>1. info'[objs[o].label] = [op |-> IF objs'[o].state = "live" THEN "Alloca" ELSE "Free",
                                lo |-> objs[o].base, hi |-> objs[o].base + objs[o].size,
                                l1 |-> 0, byte |-> 0]
    BY DEF Marks
  <2> QED
    BY <1>4, <2>1 DEF Entry, Same
<1>7. (\A e, l, i : IsPiece(e, l, i) => IsPiece(e, l, i)') /\ PiecePart'
  <2>1. last \in Nat /\ last' = last
    BY LabelsType DEF StateType
  <2>2. \A e \in 1 .. last : /\ info[e].op = "Extract" => info'[e] = info[e]
                             /\ info'[e].op = "Extract" => info[e].op = "Extract"
    BY DEF Marks
  <2> QED
    BY <2>1, <2>2, PiecesKept
<1>8. PointerPart'
  <2>1. \A o \in Objects : objs'[o].label = objs[o].label
    BY <1>4 DEF Same
  <2>2. Stored(cell.labels, LabelOf(cell.obj))'
    BY <1>7, <2>1, CellKept
  <2>3. reg.obj \in 0 .. Len(objs) /\ Len(objs) \in Nat /\ reg.label = LabelOf(reg.obj)
    BY DEF ProgramType, PointerPart
  <2>4. reg'.label = LabelOf(reg.obj)'
    BY <2>1, <2>3 DEF LabelOf, Objects, Null, CONST_LABEL
  <2> QED
    BY <2>2, <2>4 DEF PointerPart
<1> QED
  BY <1>2, <1>3, <1>5, <1>6, <1>7, <1>8 DEF Inv, ObjectPart

LEMMA FreeInv ==
    ASSUME Inv, RegionsApart, Free
    PROVE  Inv'
<1>1. /\ ~dead /\ ToHeap(reg)
      /\ info' = [info EXCEPT ![reg.label] = Freed(reg.label)]
      /\ objs' = [objs EXCEPT ![reg.obj].state = "freed"]
      /\ UNCHANGED <<last, top, saved, index, dead, depth, unwound, reg, cell>>
  BY DEF Free
<1>2. /\ StateType /\ ProgramType /\ ObjectPart /\ PointerPart /\ PiecePart /\ last < top
  BY <1>1 DEF Inv, RegionsApart
<1>3. reg.obj \in 1 .. Len(objs) /\ objs \in Seq(ObjType)
  BY <1>1, <1>2 DEF ToHeap, ProgramType, Null
<1>4. /\ objs' \in Seq(ObjType) /\ Len(objs') = Len(objs)
      /\ objs'[reg.obj] = [objs[reg.obj] EXCEPT !.state = "freed"]
      /\ \A o \in Objects : o # reg.obj => objs'[o] = objs[o]
  <2> DEFINE m == [objs[reg.obj] EXCEPT !.state = "freed"]
  <2>1. objs' = [objs EXCEPT ![reg.obj] = m]
    BY <1>1
  <2>2. m \in ObjType
    <3>1. objs[reg.obj] \in ObjType
      BY <1>3
    <3> QED
      BY <3>1 DEF ObjType
  <2> HIDE DEF m
  <2>3. /\ objs' \in Seq(ObjType) /\ Len(objs') = Len(objs)
        /\ \A o \in 1 .. Len(objs) : objs'[o] = IF o = reg.obj THEN m ELSE objs[o]
    BY <1>3, <2>1, <2>2, ExceptSeq
  <2>4. objs'[reg.obj] = m
    BY <1>3, <2>3
  <2> QED
    BY <2>3, <2>4 DEF m, Objects
<1>5. Marks(info', objs')
  BY <1>1, <1>2, <1>4, FreedMarks
<1> QED
  BY <1>1, <1>2, <1>5, MarkedInv

LEMMA ReallocFailedInv ==
    ASSUME Inv, RegionsApart, ReallocFailed
    PROVE  Inv'
<1> DEFINE st == IF objs[reg.obj].state = "live" THEN "kept" ELSE objs[reg.obj].state
<1>1. /\ ~dead /\ ToHeap(reg)
      /\ info' = [info EXCEPT ![reg.label] = Freed(reg.label)]
      /\ objs' = [objs EXCEPT ![reg.obj].state = st]
      /\ reg' = [obj |-> Null, label |-> CONST_LABEL]
      /\ UNCHANGED <<last, top, saved, index, dead, depth, unwound, cell>>
  BY DEF ReallocFailed
<1>2. /\ StateType /\ ProgramType /\ ObjectPart /\ PointerPart /\ PiecePart /\ last < top
  BY <1>1 DEF Inv, RegionsApart
<1>3. reg.obj \in 1 .. Len(objs) /\ objs \in Seq(ObjType)
  BY <1>1, <1>2 DEF ToHeap, ProgramType, Null
<1>4. st \in {"freed", "kept"}
  <2>0. objs[reg.obj] \in ObjType
    BY <1>3
  <2>1. objs[reg.obj].state \in {"live", "freed", "kept", "gone"}
    BY <2>0 DEF ObjType
  <2>2. objs[reg.obj].state # "gone"
    BY <1>1, <1>2, <1>3 DEF ObjectPart, HeapPart, ToHeap, Objects, Exists
  <2> QED
    BY <2>1, <2>2
<1> HIDE DEF st
<1>5. /\ objs' \in Seq(ObjType) /\ Len(objs') = Len(objs)
      /\ objs'[reg.obj] = [objs[reg.obj] EXCEPT !.state = st]
      /\ \A o \in Objects : o # reg.obj => objs'[o] = objs[o]
  <2> DEFINE m == [objs[reg.obj] EXCEPT !.state = st]
  <2>1. objs' = [objs EXCEPT ![reg.obj] = m]
    BY <1>1
  <2>2. m \in ObjType
    <3>1. objs[reg.obj] \in ObjType
      BY <1>3
    <3> QED
      BY <1>4, <3>1 DEF ObjType
  <2> HIDE DEF m
  <2>3. /\ objs' \in Seq(ObjType) /\ Len(objs') = Len(objs)
        /\ \A o \in 1 .. Len(objs) : objs'[o] = IF o = reg.obj THEN m ELSE objs[o]
    BY <1>3, <2>1, <2>2, ExceptSeq
  <2>4. objs'[reg.obj] = m
    BY <1>3, <2>3
  <2> QED
    BY <2>3, <2>4 DEF m, Objects
<1>6. Marks(info', objs')
  BY <1>1, <1>2, <1>4, <1>5, FreedMarks
<1> QED
  BY <1>1, <1>2, <1>6, MarkedInv

\* An allocation, after an object was marked or not.
LEMMA AllocatedInv ==
    ASSUME Bounded, Inv, RegionsApart, ~dead, NEW size \in Sizes, NEW old, NEW q, Marks(old, q),
           Allocated(size, old), objs' \in Seq(ObjType), Len(objs') = Len(objs) + 1,
           \A o \in Objects : objs'[o] = q[o],
           objs'[Len(objs) + 1] = [where |-> "heap", base |-> HeapAddr, size |-> size,
                                   label |-> last', state |-> "live", depth |-> depth],
           UNCHANGED <<top, saved, index, depth, unwound, cell>>
    PROVE  Inv'
<1>1. /\ Len(objs) < MaxObjects
      /\ info' = IF dead' THEN info ELSE [old EXCEPT ![last'] = Bounds(HeapAddr, HeapAddr + size)]
      /\ reg' = [obj |-> Len(objs) + 1, label |-> last']
      /\ \/ last + 1 < top /\ last' = last + 1 /\ ~dead'
         \/ last' = top /\ dead'
  BY DEF Allocated, TakeLabels
<1>2. /\ StateType /\ ProgramType /\ ObjectPart /\ PointerPart /\ PiecePart
  BY DEF Inv
<1>3. /\ top \in 1 .. NumLabels /\ last \in Nat /\ last < top /\ Len(objs) \in Nat
      /\ last' \in 0 .. NumLabels /\ size \in Nat
  BY <1>1, <1>2, LabelsType, BoundsAssumption DEF RegionsApart, StateType, ProgramType
<1>4. HeapAddr \in Int /\ HeapAddr > 1
  BY <1>2, Addresses DEF ProgramType
<1>5. PICK n \in Nat : n = Len(objs) + 1
  BY <1>3
<1>6. ProgramType'
  <2>1. reg' \in [obj : 0 .. n, label : 0 .. NumLabels]
    BY <1>1, <1>3, <1>5
  <2>2. Len(objs') <= MaxObjects /\ Len(objs') = n
    BY <1>1, <1>3, <1>5, LabelsType
  <2>3. cell' \in [obj : 0 .. n, labels : [1 .. WordBytes -> 0 .. NumLabels]]
    BY <1>2, <1>3, <1>5 DEF ProgramType
  <2> QED
    BY <2>1, <2>2, <2>3 DEF ProgramType
<1>7. CASE dead'
  <2>1. dead' \in BOOLEAN
    <3>1. dead' = TRUE \/ dead' = dead
      BY DEF Allocated, TakeLabels
    <3> QED
      BY <1>2, <3>1 DEF StateType
  <2>2. StateType'
    BY <1>1, <1>2, <1>3, <1>7, <2>1 DEF StateType, Labels
  <2> QED
    BY <1>6, <1>7, <2>2 DEF Inv
<1>8. CASE ~dead'
  <2> DEFINE b == HeapAddr
             l == last + 1
             r == [op |-> "Alloca", lo |-> b, hi |-> b + size, l1 |-> 0, byte |-> 0]
  <2>1. last + 1 < top /\ last' = l /\ info' = [old EXCEPT ![l] = r]
    BY <1>1, <1>8, BoundsIs
  <2> HIDE DEF b
  <2>2. b \in Int
    BY <1>4 DEF b
  <2>3. r \in Slot /\ l \in Labels
    BY <1>3, <2>1, <2>2, LabelsType DEF Slot, Labels
  <2>4. old \in [Labels -> Slot]
    BY DEF Marks
  <2>5. /\ info' \in [Labels -> Slot] /\ info'[l] = r
        /\ \A e \in Labels : e # l => info'[e] = old[e]
    BY <2>1, <2>3, <2>4
  <2>6. objs'[n] = [where |-> "heap", base |-> b, size |-> size, label |-> l,
                    state |-> "live", depth |-> depth]
    BY <1>5, <2>1 DEF b
  <2> HIDE DEF r, l
  <2>7. StateType'
    <3>1. dead' \in BOOLEAN
      BY <1>2, <1>8 DEF StateType, Allocated, TakeLabels
    <3> QED
      BY <1>2, <1>3, <2>5, <3>1 DEF StateType, Labels
  <2>8. l = last + 1 /\ l = last'
    BY <2>1 DEF l
  <2>9. /\ \A o \in Objects : Same(o) /\ (Exists(o)' <=> Exists(o))
        /\ \A o \in Objects : objs[o].where = "stack" => objs'[o].state = objs[o].state
    BY DEF Marks, Same, Exists
  <2>10. Added(n, l)
    <3>1. ASSUME NEW o \in Objects, Exists(o)
          PROVE  objs[o].label # l /\ info'[objs[o].label] = Entry(o)'
      <4>1. objs[o].label \in Labels /\ objs[o].label # l
        <5>1. objs[o].where \in {"stack", "heap"}
          BY <1>2, ObjectType DEF ObjType
        <5> QED
          BY <1>2, <1>3, <2>1, <2>8, <3>1, <5>1, Regions
      <4>2. old[objs[o].label] = [op |-> IF objs'[o].state = "live" THEN "Alloca" ELSE "Free",
                                  lo |-> objs[o].base, hi |-> objs[o].base + objs[o].size,
                                  l1 |-> 0, byte |-> 0]
        BY <3>1 DEF Marks
      <4>3. old[objs[o].label] = Entry(o)'
        BY <2>9, <4>2 DEF Entry, Same
      <4> QED
        BY <2>5, <4>1, <4>3
    <3>2. objs'[n].state # "gone" /\ objs'[n].label = l
      BY <2>6
    <3>3. info'[l] = Entry(n)'
      BY <2>5, <2>6 DEF Entry, r
    <3> QED
      BY <1>5, <2>9, <3>1, <3>2, <3>3 DEF Added
  <2>11. Distinct' /\ EntryPart' /\ Objects' = Objects \cup {n} /\ n \notin Objects
    BY <1>2, <2>10, AddedKeeps DEF ObjectPart
  <2>12. HeapPart'
    <3> SUFFICES ASSUME NEW o \in Objects', objs'[o].where = "heap"
                 PROVE  Exists(o)' /\ objs'[o].label \in 1 .. last'
      BY DEF HeapPart
    <3>1. CASE o = n
      <4>1. l \in 1 .. last'
        BY <1>3, <2>8
      <4> QED
        BY <2>6, <3>1, <4>1 DEF Exists
    <3>2. CASE o \in Objects
      <4>1. Exists(o) /\ objs[o].label \in 1 .. last
        BY <1>2, <2>9, <3>2 DEF ObjectPart, HeapPart, Same
      <4>2. \A e \in 1 .. last : e \in 1 .. last'
        BY <1>3, <2>8
      <4> QED
        BY <2>9, <3>2, <4>1, <4>2 DEF Same
    <3> QED
      BY <2>11, <3>1, <3>2
  <2>13. StackPart'
    <3>1. objs'[n].where = "heap"
      BY <2>6
    <3> QED
      BY <1>2, <2>9, <2>11, <3>1 DEF ObjectPart, StackPart, Same
  <2>14. (\A e, k, i : IsPiece(e, k, i) => IsPiece(e, k, i)') /\ PiecePart'
    <3>1. \A e \in 1 .. last : e \in Labels /\ e # l
      BY <1>3, <2>8, LabelsType DEF Labels
    <3>2. \A e \in 1 .. last : info'[e] = old[e]
      BY <2>5, <3>1
    <3>3. \A e \in 1 .. last' : e \in 1 .. last \/ e = l
      BY <1>3, <2>8
    <3>4. info'[l].op # "Extract"
      BY <2>5 DEF r
    <3>5. \A e \in 1 .. last : /\ info[e].op = "Extract" => old[e] = info[e]
                               /\ old[e].op = "Extract" => info[e].op = "Extract"
      BY DEF Marks
    <3>6. last' \in Nat /\ last <= last'
      BY <1>3, <2>8
    <3> QED
      BY <1>2, <1>3, <3>2, <3>3, <3>4, <3>5, <3>6, PiecesKept
  <2>15. PointerPart'
    <3>1. \A o \in Objects : objs'[o].label = objs[o].label
      BY <2>9 DEF Same
    <3>2. Stored(cell.labels, LabelOf(cell.obj))'
      BY <1>2, <2>14, <3>1, CellKept
    <3>3. reg'.label = LabelOf(reg.obj)'
      BY <1>1, <1>3, <1>5, <2>6, <2>8 DEF LabelOf, Null
    <3> QED
      BY <3>2, <3>3 DEF PointerPart
  <2> QED
    BY <1>6, <2>7, <2>11, <2>12, <2>13, <2>14, <2>15 DEF Inv, ObjectPart
<1> QED
  BY <1>7, <1>8

LEMMA MallocInv ==
    ASSUME Bounded, Inv, RegionsApart, NEW size \in Sizes, Malloc(size)
    PROVE  Inv'
<1>1. /\ ~dead /\ Allocated(size, info) /\ objs' = NewObject("heap", HeapAddr, size, last')
      /\ UNCHANGED <<top, saved, index, depth, unwound, cell>>
  BY DEF Malloc
<1>2. /\ StateType /\ ProgramType /\ ObjectPart
  BY <1>1 DEF Inv
<1>3. last' \in 0 .. NumLabels /\ size \in Nat /\ depth \in Nat
  BY <1>1, <1>2, LabelsType, BoundsAssumption DEF Allocated, TakeLabels, StateType
<1>4. HeapAddr \in Int /\ HeapAddr > 1
  BY <1>2, Addresses DEF ProgramType
<1>5. /\ objs' \in Seq(ObjType) /\ Len(objs') = Len(objs) + 1
      /\ \A o \in Objects : objs'[o] = objs[o]
      /\ objs'[Len(objs) + 1] = [where |-> "heap", base |-> HeapAddr, size |-> size,
                                 label |-> last', state |-> "live", depth |-> depth]
  BY <1>1, <1>2, <1>3, <1>4, NewObjectFacts
<1> QED
  BY <1>1, <1>2, <1>5, NoMarks, AllocatedInv

LEMMA ReallocInv ==
    ASSUME Bounded, Inv, RegionsApart, NEW size \in Sizes, Realloc(size)
    PROVE  Inv'
<1> DEFINE old == [info EXCEPT ![reg.label] = Freed(reg.label)]
           made == NewObject("heap", HeapAddr, size, last')
           m == [objs[reg.obj] EXCEPT !.state = "freed"]
           q == [objs EXCEPT ![reg.obj] = m]
<1>1. /\ ~dead /\ ToHeap(reg) /\ Allocated(size, old)
      /\ objs' = [made EXCEPT ![reg.obj].state = "freed"]
      /\ UNCHANGED <<top, saved, index, depth, unwound, cell>>
  BY DEF Realloc
<1>2. /\ StateType /\ ProgramType /\ ObjectPart /\ PointerPart /\ last < top
  BY <1>1 DEF Inv, RegionsApart
<1>3. last' \in 0 .. NumLabels /\ size \in Nat /\ depth \in Nat
  BY <1>1, <1>2, LabelsType, BoundsAssumption DEF Allocated, TakeLabels, StateType
<1>4. HeapAddr \in Int /\ HeapAddr > 1
  BY <1>2, Addresses DEF ProgramType
<1>5. /\ made \in Seq(ObjType) /\ Len(made) = Len(objs) + 1
      /\ \A o \in Objects : made[o] = objs[o]
      /\ made[Len(objs) + 1] = [where |-> "heap", base |-> HeapAddr, size |-> size,
                                label |-> last', state |-> "live", depth |-> depth]
  BY <1>2, <1>3, <1>4, NewObjectFacts
<1>6. reg.obj \in 1 .. Len(objs) /\ reg.obj \in Objects /\ objs \in Seq(ObjType) /\ Len(objs) \in Nat
  BY <1>1, <1>2 DEF ToHeap, ProgramType, Null, Objects
<1>7. m \in ObjType
  <2>1. objs[reg.obj] \in ObjType
    BY <1>6
  <2> QED
    BY <2>1 DEF ObjType
<1>8. objs' = [made EXCEPT ![reg.obj] = m]
  <2>1. objs' = [made EXCEPT ![reg.obj] = [made[reg.obj] EXCEPT !.state = "freed"]]
    BY <1>1
  <2>2. made[reg.obj] = objs[reg.obj]
    BY <1>5, <1>6
  <2> HIDE DEF made
  <2> QED
    BY <2>1, <2>2
<1> HIDE DEF made, m, old
<1>9. /\ q \in Seq(ObjType) /\ Len(q) = Len(objs)
      /\ \A o \in 1 .. Len(objs) : q[o] = IF o = reg.obj THEN m ELSE objs[o]
  BY <1>6, <1>7, ExceptSeq
<1>10. reg.obj \in 1 .. Len(made)
  BY <1>5, <1>6
<1>11. /\ objs' \in Seq(ObjType) /\ Len(objs') = Len(made)
       /\ \A o \in 1 .. Len(made) : objs'[o] = IF o = reg.obj THEN m ELSE made[o]
  BY <1>5, <1>7, <1>8, <1>10, ExceptSeq
<1> HIDE DEF q
<1>12. q[reg.obj] = m /\ \A o \in Objects : o # reg.obj => q[o] = objs[o]
  BY <1>6, <1>9 DEF Objects
<1>13. Marks(old, q)
  BY <1>1, <1>2, <1>9, <1>12, FreedMarks DEF old, m
<1>14. \A o \in Objects : objs'[o] = q[o]
  <2>1. \A o \in Objects : o \in 1 .. Len(made) /\ o \in 1 .. Len(objs)
    BY <1>5, <1>6 DEF Objects
  <2> QED
    BY <1>5, <1>9, <1>11, <2>1
<1>15. objs'[Len(objs) + 1] = made[Len(objs) + 1]
  <2>1. Len(objs) + 1 \in 1 .. Len(made) /\ Len(objs) + 1 # reg.obj
    BY <1>5, <1>6
  <2> QED
    BY <1>11, <2>1
<1> QED
  BY <1>1, <1>5, <1>11, <1>13, <1>14, <1>15, AllocatedInv

-----------------------------------------------------------------------------
(* Pointers in memory. *)

\* A pointer that may be copied and is not whole is one to a heap object.
LEMMA StoreInv ==
    ASSUME Inv, RegionsApart, RegionsApart', StorePointer
    PROVE  Inv'
<1>1. /\ ~dead /\ MayCopy(reg.obj)
      /\ UNCHANGED <<top, saved, index, depth, unwound, objs, reg>>
  BY DEF StorePointer
<1>2. /\ StateType /\ ProgramType /\ ObjectPart /\ PointerPart /\ PiecePart /\ last < top
  BY <1>1 DEF Inv, RegionsApart
<1>3. /\ top \in 1 .. NumLabels /\ last \in Nat /\ last < top /\ reg.label \in 0 .. NumLabels
      /\ reg.obj \in 0 .. Len(objs) /\ info \in [Labels -> Slot] /\ WordBytes \in Nat
  BY <1>2, LabelsType DEF StateType, ProgramType
<1> DEFINE L == reg.label
<1>4. L = LabelOf(reg.obj)
  BY <1>2 DEF PointerPart
<1>5. Objects' = Objects /\ SomeGone /\ \A o : LabelOf(o)' = LabelOf(o)
  BY <1>1, <1>2, SameObjects DEF Objects, LabelOf
\* The slots stay, and the pointer is stored with the labels ls.
<1>6. ASSUME NEW ls, ls \in [1 .. WordBytes -> 0 .. NumLabels], Stored(ls, L),
             cell' = [obj |-> reg.obj, labels |-> ls], UNCHANGED <<info, last, dead>>
      PROVE  Inv'
  <2>1. StateType'
    BY <1>1, <1>2, <1>6 DEF StateType, Labels
  <2>2. ProgramType'
    BY <1>1, <1>2, <1>3, <1>6 DEF ProgramType
  <2>3. ObjectPart'
    BY <1>1, <1>2, <1>6 DEF ObjectPart, HeapPart, StackPart, Distinct, EntryPart, Objects,
                            Exists, Entry
  <2>4. PiecePart'
    BY <1>2, <1>6 DEF PiecePart, IsPiece
  <2>5. PointerPart'
    <3>1. Stored(ls, L)'
      <4>1. L' = L
        BY <1>1
      <4> QED
        BY <1>6, <4>1 DEF Stored, IsPiece
    <3>2. cell'.labels = ls /\ cell'.obj = reg.obj
      BY <1>6
    <3>3. LabelOf(cell.obj)' = L /\ LabelOf(reg.obj)' = L /\ reg'.label = L
      BY <1>1, <1>4, <1>5, <3>2 DEF LabelOf
    <3> QED
      BY <1>1, <3>1, <3>2, <3>3 DEF PointerPart, Stored, IsPiece
  <2> QED
    BY <2>1, <2>2, <2>3, <2>4, <2>5 DEF Inv
<1>7. CASE WholeLabel(L)
  <2> DEFINE ls == [i \in 1 .. WordBytes |-> L]
  <2>1. cell' = [obj |-> reg.obj, labels |-> ls] /\ UNCHANGED <<info, last, dead>>
    BY <1>7 DEF StorePointer
  <2>2. ls \in [1 .. WordBytes -> 0 .. NumLabels] /\ Stored(ls, L)
    BY <1>3 DEF Stored
  <2> HIDE DEF ls
  <2> QED
    BY <1>6, <2>1, <2>2
<1>8. CASE ~WholeLabel(L) /\ Pieces(L) # {}
  <2> DEFINE ls == [i \in 1 .. WordBytes |-> CHOOSE e \in Pieces(L) : info[e].byte = i]
  <2>1. cell' = [obj |-> reg.obj, labels |-> ls] /\ UNCHANGED <<info, last, dead>>
    BY <1>8 DEF StorePointer
  <2>2. ASSUME NEW i \in 1 .. WordBytes
        PROVE  IsPiece(ls[i], L, i) /\ ls[i] \in 0 .. NumLabels
    <3>1. PICK e \in 1 .. last : info[e].op = "Extract" /\ info[e].l1 = L
      BY <1>8 DEF Pieces
    <3>2. PICK f \in 1 .. last : IsPiece(f, L, i)
      BY <1>2, <3>1 DEF PiecePart
    <3>3. f \in Pieces(L) /\ info[f].byte = i
      BY <3>2 DEF IsPiece, Pieces
    <3>4. ls[i] \in Pieces(L) /\ info[ls[i]].byte = i
      BY <3>3
    <3> HIDE DEF ls
    <3>5. IsPiece(ls[i], L, i) /\ ls[i] \in 1 .. last
      BY <3>4 DEF IsPiece, Pieces
    <3> QED
      BY <1>3, <3>5, LabelsType
  <2>3. ls = [i \in 1 .. WordBytes |-> ls[i]]
    OBVIOUS
  <2> HIDE DEF ls
  <2>4. ls \in [1 .. WordBytes -> 0 .. NumLabels] /\ Stored(ls, L)
    BY <2>2, <2>3 DEF Stored
  <2> QED
    BY <1>6, <2>1, <2>4
<1>9. CASE ~WholeLabel(L) /\ Pieces(L) = {}
  <2>1. /\ TakeLabels(WordBytes)
        /\ info' = IF dead' THEN info
                   ELSE [l \in Labels |->
                           IF l \in last + 1 .. last'
                           THEN [Raw EXCEPT !.op = "Extract", !.l1 = L, !.byte = l - last]
                           ELSE info[l]]
        /\ cell' = IF dead' THEN cell
                   ELSE [obj |-> reg.obj, labels |-> [i \in 1 .. WordBytes |-> last + i]]
    BY <1>9 DEF StorePointer
  <2>2. CASE dead'
    <3>0. \/ last' = last + WordBytes /\ last + WordBytes < top /\ dead' = dead
          \/ last' = top /\ dead' = TRUE
      BY <2>1 DEF TakeLabels
    <3>1. dead' \in BOOLEAN /\ last' \in 0 .. NumLabels
      <4>1. dead' \in BOOLEAN
        BY <1>2, <3>0, Zenon DEF StateType
      <4>2. last' \in 0 .. NumLabels
        BY <1>3, <3>0, LabelsType
      <4> QED
        BY <4>1, <4>2
    <3>2. StateType'
      BY <1>1, <1>2, <2>1, <2>2, <3>1 DEF StateType, Labels
    <3>3. ProgramType'
      BY <1>1, <1>2, <2>1, <2>2 DEF ProgramType
    <3> QED
      BY <2>2, <3>2, <3>3 DEF Inv
  <2>3. CASE ~dead'
    <3>1. last' = last + WordBytes /\ last + WordBytes < top /\ dead' \in BOOLEAN
      BY <1>2, <2>1, <2>3 DEF TakeLabels, StateType
    <3> DEFINE r(e) == [op |-> "Extract", lo |-> 0, hi |-> 0, l1 |-> L, byte |-> e - last]
    <3>2. /\ info' = [l \in Labels |-> IF l \in last + 1 .. last' THEN r(l) ELSE info[l]]
          /\ cell' = [obj |-> reg.obj, labels |-> [i \in 1 .. WordBytes |-> last + i]]
      BY <2>1, <2>3, PieceIs
    <3>3. ASSUME NEW e \in last + 1 .. last'
          PROVE  /\ r(e) \in Slot /\ e \in Labels
                 /\ r(e).op = "Extract" /\ r(e).l1 = L /\ r(e).byte = e - last
      <4>1. e - last \in Nat /\ e \in Labels
        BY <1>3, <3>1, LabelsType DEF Labels
      <4> QED
        BY <1>3, <4>1, LabelsType DEF Slot
    <3> HIDE DEF r
    <3>4. /\ info' \in [Labels -> Slot]
          /\ \A e \in last + 1 .. last' : info'[e] = r(e)
          /\ \A e \in Labels : e \notin last + 1 .. last' => info'[e] = info[e]
      BY <1>3, <3>2, <3>3
    <3>5. \A e \in 1 .. last : info'[e] = info[e] /\ e \in 1 .. last'
      <4>1. \A e \in 1 .. last : e \in Labels /\ e \notin last + 1 .. last' /\ e \in 1 .. last'
        BY <1>3, <3>1, LabelsType DEF Labels
      <4> QED
        BY <3>4, <4>1
    <3>6. StateType'
      <4>1. last' \in 0 .. NumLabels
        BY <1>3, <3>1, LabelsType
      <4> QED
        BY <1>1, <1>2, <3>1, <3>4, <4>1 DEF StateType, Labels
    <3>7. ProgramType'
      <4>1. \A i \in 1 .. WordBytes : last + i \in 0 .. NumLabels
        BY <1>3, <3>1, LabelsType
      <4> QED
        BY <1>1, <1>2, <1>3, <3>2, <4>1 DEF ProgramType
    <3>8. ObjectPart'
      <4>1. \A o \in Objects : Exists(o) => info'[objs[o].label] = info[objs[o].label]
        <5> SUFFICES ASSUME NEW o \in Objects, Exists(o)
                     PROVE  info'[objs[o].label] = info[objs[o].label]
          OBVIOUS
        <5>1. objs[o].where \in {"stack", "heap"}
          BY <1>2, ObjectType DEF ObjType
        <5>2. objs[o].label \in Labels /\ objs[o].label \notin last + 1 .. last'
          BY <1>2, <1>3, <3>1, <5>1, Regions
        <5> QED
          BY <3>4, <5>2
      <4>2. EntryPart'
        BY <1>1, <1>2, <4>1 DEF ObjectPart, EntryPart, Exists, Entry, Objects
      <4>3. HeapPart'
        BY <1>1, <1>2, <3>5 DEF ObjectPart, HeapPart, Exists, Objects
      <4>4. StackPart' /\ Distinct'
        BY <1>1, <1>2 DEF ObjectPart, StackPart, Distinct, Exists, Objects
      <4> QED
        BY <4>2, <4>3, <4>4 DEF ObjectPart
    <3>9. ASSUME NEW i \in 1 .. WordBytes, NEW f, f = last + i
          PROVE  f \in 1 .. last' /\ IsPiece(f, L, i)'
      <4>1. f \in last + 1 .. last' /\ f \in 1 .. last' /\ f - last = i
        BY <1>3, <3>1, <3>9
      <4>2. info'[f].op = "Extract" /\ info'[f].l1 = L /\ info'[f].byte = i
        BY <3>3, <3>4, <4>1
      <4> QED
        BY <1>1, <4>1, <4>2 DEF IsPiece
    <3>10. PiecePart'
      <4> SUFFICES ASSUME NEW e \in 1 .. last', info'[e].op = "Extract", NEW i \in 1 .. WordBytes
                   PROVE  \E f \in 1 .. last' : IsPiece(f, info[e].l1, i)'
        BY DEF PiecePart
      <4>1. CASE e \in 1 .. last
        <5>1. info'[e] = info[e]
          BY <3>5, <4>1
        <5>2. PICK f \in 1 .. last : IsPiece(f, info[e].l1, i)
          BY <1>2, <4>1, <5>1 DEF PiecePart
        <5>3. f \in 1 .. last' /\ info'[f] = info[f]
          BY <3>5
        <5> QED
          BY <5>1, <5>2, <5>3 DEF IsPiece
      <4>2. CASE e \in last + 1 .. last'
        <5>1. info'[e].l1 = L
          BY <3>3, <3>4, <4>2
        <5>2. PICK f : f = last + i
          OBVIOUS
        <5>3. f \in 1 .. last' /\ IsPiece(f, L, i)'
          BY <3>9, <5>2
        <5> QED
          BY <1>1, <5>1, <5>3 DEF IsPiece
      <4>3. e \in 1 .. last \/ e \in last + 1 .. last'
        BY <1>3, <3>1
      <4> QED
        BY <4>1, <4>2, <4>3
    <3>11. PointerPart'
      <4>1. reg'.label = LabelOf(reg.obj)' /\ LabelOf(cell.obj)' = L
        BY <1>1, <1>4, <3>2 DEF LabelOf
      <4>2. \A i \in 1 .. WordBytes : IsPiece(cell.labels[i], L, i)'
        <5> SUFFICES ASSUME NEW i \in 1 .. WordBytes
                     PROVE  IsPiece(cell.labels[i], L, i)'
          OBVIOUS
        <5>1. PICK f : f = last + i
          OBVIOUS
        <5>2. cell'.labels[i] = f
          BY <3>2, <5>1
        <5>3. IsPiece(f, L, i)'
          BY <3>9, <5>1
        <5> QED
          BY <5>2, <5>3 DEF IsPiece
      <4>3. L' = L
        BY <1>1
      <4> QED
        BY <4>1, <4>2, <4>3 DEF PointerPart, Stored
    <3> QED
      BY <3>6, <3>7, <3>8, <3>10, <3>11 DEF Inv
  <2> QED
    BY <2>2, <2>3
<1> QED
  BY <1>7, <1>8, <1>9

LEMMA LoadInv ==
    ASSUME Inv, LoadPointer
    PROVE  Inv'
<1>1. /\ ~dead /\ reg' = [obj |-> cell.obj, label |-> LoadedLabel(cell.labels)]
      /\ UNCHANGED <<info, last, top, saved, index, dead, depth, unwound, objs, cell>>
  BY DEF LoadPointer
<1>2. /\ StateType /\ ProgramType /\ ObjectPart /\ PointerPart /\ PiecePart
  BY <1>1 DEF Inv
<1>3. LoadedLabel(cell.labels) = LabelOf(cell.obj)
  BY <1>2, LoadedIs DEF PointerPart
<1>4. cell.obj \in 0 .. Len(objs) /\ LabelOf(cell.obj) \in 0 .. NumLabels
  <2>1. cell.obj \in 0 .. Len(objs) /\ Len(objs) \in Nat
    BY <1>2 DEF ProgramType
  <2>2. cell.obj # 0 => cell.obj \in Objects
    BY <2>1 DEF Objects
  <2>3. \A o \in Objects : objs[o].label \in 0 .. NumLabels
    BY <1>2, ObjectType DEF ObjType
  <2> QED
    BY <2>1, <2>2, <2>3, LabelsType DEF LabelOf, Null, CONST_LABEL
<1>5. StateType'
  BY <1>1, <1>2 DEF StateType, Labels
<1>6. ProgramType'
  BY <1>1, <1>2, <1>3, <1>4 DEF ProgramType
<1>7. ObjectPart'
  BY <1>1, <1>2 DEF ObjectPart, HeapPart, StackPart, Distinct, EntryPart, Objects, Exists, Entry
<1>8. PiecePart'
  BY <1>1, <1>2 DEF PiecePart, IsPiece
<1>9. PointerPart'
  <2>1. reg'.obj = cell.obj /\ reg'.label = LabelOf(cell.obj)
    BY <1>1, <1>3
  <2> QED
    BY <1>1, <1>2, <2>1 DEF PointerPart, Stored, IsPiece, LabelOf
<1> QED
  BY <1>5, <1>6, <1>7, <1>8, <1>9 DEF Inv

LEMMA StepInv ==
    ASSUME Shallow, Bounded
    PROVE  Inv /\ RegionsApart /\ RegionsApart' /\ [Next]_vars => Inv'
<1> SUFFICES ASSUME Inv, RegionsApart, RegionsApart', [Next]_vars
             PROVE  Inv'
  OBVIOUS
<1>1. CASE UNCHANGED vars
  <2>1. StateType /\ ProgramType /\ (~dead => ObjectPart /\ PointerPart /\ PiecePart)
    BY DEF Inv
  <2>2. UNCHANGED <<info, last, top, saved, index, dead, depth, unwound, objs, reg, cell>>
    BY <1>1 DEF vars
  <2>3. StateType'
    BY <2>1, <2>2 DEF StateType, Labels
  <2>4. /\ ProgramType'
        /\ ~dead => HeapPart' /\ Distinct' /\ EntryPart' /\ PointerPart' /\ PiecePart'
    BY <2>1, <2>2, SameObjects, SomeGoneKeeps DEF ObjectPart
  <2>5. ~dead => StackPart'
    BY <2>1, <2>2 DEF ObjectPart, StackPart, Objects, Exists
  <2> QED
    BY <2>2, <2>3, <2>4, <2>5 DEF Inv, ObjectPart
<1> QED
  BY <1>1, PushInv, PopInv, UnwindInv, AllocaInv, MallocInv, ReallocInv, ReallocFailedInv,
     FreeInv, StoreInv, LoadInv DEF Next

-----------------------------------------------------------------------------
(* The theorems. *)

\* What the slot of an object holds, in the words of SlotOwned.
LEMMA EntryIs ==
    ASSUME NEW o
    PROVE  Entry(o) = [Bounds(objs[o].base, objs[o].base + objs[o].size) EXCEPT
                         !.op = IF objs[o].state = "live" THEN "Alloca" ELSE "Free"]
<1> DEFINE a == objs[o].base
           b == objs[o].base + objs[o].size
           k == IF objs[o].state = "live" THEN "Alloca" ELSE "Free"
<1>1. Bounds(a, b) = [op |-> "Alloca", lo |-> a, hi |-> b, l1 |-> 0, byte |-> 0]
  BY BoundsIs
<1>2. Entry(o) = [op |-> k, lo |-> a, hi |-> b, l1 |-> 0, byte |-> 0]
  BY DEF Entry
<1> HIDE DEF a, b, k
<1>3. [Bounds(a, b) EXCEPT !.op = k] = [op |-> k, lo |-> a, hi |-> b, l1 |-> 0, byte |-> 0]
  BY <1>1
<1>4. Entry(o) = [Bounds(a, b) EXCEPT !.op = k]
  BY <1>2, <1>3, Zenon
<1> QED
  BY <1>4, Zenon DEF a, b, k

LEMMA InvOwned == Inv => SlotOwned
<1> SUFFICES ASSUME Inv, ~dead, NEW o \in Objects, objs[o].state # "gone"
             PROVE  info[objs[o].label] =
                      [Bounds(objs[o].base, objs[o].base + objs[o].size) EXCEPT
                         !.op = IF objs[o].state = "live" THEN "Alloca" ELSE "Free"]
  BY DEF SlotOwned
<1>1. info[objs[o].label] = Entry(o)
  BY DEF Inv, ObjectPart, EntryPart, Exists
<1> QED
  BY <1>1, EntryIs

LEMMA InvTracked == Inv => PointersTracked
BY LoadedIs DEF Inv, PointerPart, PointersTracked, LabelOf

\* The object of the register, and what is known of its slot.
LEMMA InRegister ==
    ASSUME Inv, ~dead, reg.obj # Null
    PROVE  /\ reg.obj \in Objects
           /\ objs[reg.obj].base \in Int /\ objs[reg.obj].base > 1 /\ objs[reg.obj].size \in Nat
           /\ objs[reg.obj].state # "gone" => info[reg.label] = Entry(reg.obj)
<1>1. reg.obj \in Objects
  BY DEF Inv, ProgramType, Objects, Null
<1>2. reg.label = objs[reg.obj].label
  BY DEF Inv, PointerPart, LabelOf
<1>3. ProgramType
  BY DEF Inv
<1>4. objs[reg.obj].state # "gone" => info[reg.label] = Entry(reg.obj)
  BY <1>1, <1>2 DEF Inv, ObjectPart, EntryPart, Exists
<1> QED
  BY <1>1, <1>3, <1>4, ObjectType

LEMMA InvExact == Inv => ChecksExact
<1> SUFFICES ASSUME Inv, ~dead, reg.obj # Null, NEW off \in -1 .. objs[reg.obj].size + 1,
                    NEW n \in Sizes
             PROVE  /\ objs[reg.obj].state = "freed" =>
                         Verdict(reg.label, objs[reg.obj].base + off, n) = "UAF"
                    /\ objs[reg.obj].state = "live" =>
                         Verdict(reg.label, objs[reg.obj].base + off, n) =
                            CASE off < 0 -> "underflow"
                              [] off >= 0 /\ off + n > objs[reg.obj].size -> "overflow"
                              [] OTHER -> "none"
  BY DEF ChecksExact
<1> DEFINE b == objs[reg.obj].base
           sz == objs[reg.obj].size
           e == info[reg.label]
<1>1. b \in Int /\ b > 1 /\ sz \in Nat /\ n \in Nat /\ off \in Int /\ off >= -1 /\ n > 0
  BY InRegister, BoundsAssumption
<1>2. b + off # 0
  BY <1>1
<1>3. ASSUME objs[reg.obj].state = "freed"
      PROVE  e.op = "Free"
  BY <1>3, InRegister DEF Entry
<1>4. ASSUME objs[reg.obj].state = "live"
      PROVE  e.op = "Alloca" /\ e.lo = b /\ e.hi = b + sz
  BY <1>4, InRegister DEF Entry
<1> HIDE DEF b, sz, e
<1>5. ASSUME objs[reg.obj].state = "freed"
      PROVE  Verdict(reg.label, b + off, n) = "UAF"
  BY <1>2, <1>3, <1>5 DEF Verdict, e
<1>6. ASSUME objs[reg.obj].state = "live"
      PROVE  Verdict(reg.label, b + off, n) =
                CASE off < 0 -> "underflow" [] off >= 0 /\ off + n > sz -> "overflow"
                  [] OTHER -> "none"
  <2>1. Verdict(reg.label, b + off, n) = IF b + off < b THEN "underflow"
                                         ELSE IF b + off + n > b + sz THEN "overflow" ELSE "none"
    BY <1>2, <1>4, <1>6 DEF Verdict, e
  <2>2. (b + off < b <=> off < 0) /\ (b + off + n > b + sz <=> off + n > sz)
    BY <1>1
  <2>3. CASE off < 0
    BY <2>1, <2>2, <2>3
  <2>4. CASE ~(off < 0) /\ off >= 0 /\ off + n > sz
    BY <2>1, <2>2, <2>4
  <2>5. CASE ~(off < 0) /\ ~(off + n > sz)
    BY <2>1, <2>2, <2>5
  <2> QED
    BY <1>1, <2>3, <2>4, <2>5
<1> QED
  BY <1>5, <1>6 DEF b, sz

LEMMA InvNothingMissed == Inv => NothingMissed
<1> SUFFICES ASSUME Inv, ~dead, reg.obj # Null, NEW off \in -1 .. objs[reg.obj].size + 1,
                    NEW n \in Sizes,
                    \/ objs[reg.obj].state = "freed"
                    \/ /\ objs[reg.obj].state \in {"live", "kept"}
                       /\ off < 0 \/ off + n > objs[reg.obj].size
             PROVE  Verdict(reg.label, objs[reg.obj].base + off, n) # "none"
  BY DEF NothingMissed
<1> DEFINE b == objs[reg.obj].base
           sz == objs[reg.obj].size
           e == info[reg.label]
<1>1. b \in Int /\ b > 1 /\ sz \in Nat /\ n \in Nat /\ off \in Int /\ off >= -1 /\ n > 0
  BY InRegister, BoundsAssumption
<1>2. b + off # 0
  BY <1>1
<1>3. ASSUME objs[reg.obj].state \in {"freed", "kept"}
      PROVE  e.op = "Free"
  BY <1>3, InRegister DEF Entry
<1>4. ASSUME objs[reg.obj].state = "live"
      PROVE  e.op = "Alloca" /\ e.lo = b /\ e.hi = b + sz /\ (off < 0 \/ off + n > sz)
  BY <1>4, InRegister DEF Entry
<1> HIDE DEF b, sz, e
<1>5. CASE objs[reg.obj].state \in {"freed", "kept"}
  <2>1. Verdict(reg.label, b + off, n) = "UAF"
    BY <1>2, <1>3, <1>5 DEF Verdict, e
  <2> QED
    BY <2>1 DEF b
<1>6. CASE objs[reg.obj].state = "live"
  <2>1. Verdict(reg.label, b + off, n) = IF b + off < b THEN "underflow"
                                         ELSE IF b + off + n > b + sz THEN "overflow" ELSE "none"
    BY <1>2, <1>4, <1>6 DEF Verdict, e
  <2>2. b + off < b \/ b + off + n > b + sz
    BY <1>1, <1>4, <1>6
  <2> QED
    BY <2>1, <2>2 DEF b
<1> QED
  BY <1>5, <1>6

LEMMA InvAssertion == Inv /\ RegionsApart => StoreAssertion
<1> SUFFICES ASSUME Inv, RegionsApart, ~dead, MayCopy(reg.obj)
             PROVE  reg.label <= last \/ reg.label >= top
  BY DEF StoreAssertion
<1>1. /\ StateType /\ ProgramType /\ ObjectPart /\ last < top /\ last \in Nat
      /\ reg.label = LabelOf(reg.obj) /\ reg.obj \in 0 .. Len(objs) /\ Len(objs) \in Nat
  BY LabelsType DEF Inv, RegionsApart, StateType, ProgramType, PointerPart
<1>2. CASE reg.obj = Null
  BY <1>1, <1>2 DEF LabelOf, CONST_LABEL
<1>3. CASE reg.obj # Null
  <2>1. reg.obj \in Objects /\ reg.label = objs[reg.obj].label
    BY <1>1, <1>3 DEF Objects, Null, LabelOf
  <2>2. Exists(reg.obj) /\ objs[reg.obj].where \in {"stack", "heap"}
    BY <1>1, <2>1, ObjectType DEF MayCopy, Exists, ObjType
  <2> QED
    BY <1>1, <2>1, <2>2, Regions
<1> QED
  BY <1>2, <1>3

LEMMA InvType == ASSUME Shallow PROVE Inv => TypeOK
<1> SUFFICES ASSUME Inv PROVE TypeOK
  OBVIOUS
<1>1. StateType /\ ProgramType
  BY DEF Inv
<1>2. DOMAIN info = Labels
  BY <1>1 DEF StateType
<1>3. index \in 0 .. MAX_SAVED_STACK_ENTRIES - 1
  BY <1>1, LabelsType DEF StateType, Shallow
<1>4. reg \in Pointers
  BY <1>1, LabelsType DEF ProgramType, Pointers
<1>5. \A i \in 1 .. WordBytes : cell.labels[i] \in 0 .. NumLabels
  BY <1>1 DEF ProgramType
<1> QED
  BY <1>1, <1>2, <1>3, <1>4, <1>5 DEF TypeOK, StateType

LEMMA Always ==
    ASSUME Shallow, Bounded
    PROVE  Spec /\ []RegionsApart => []Inv
BY InitInv, StepInv, PTL DEF Spec

\* Types, with the saved tops within their array (__taint_push_stack_frame and
\* __taint_pop_stack_frame).
THEOREM BoundsTyped ==
    ASSUME Shallow, Bounded
    PROVE  Spec /\ []RegionsApart => []TypeOK
BY Always, InvType, PTL

\* As long as the two regions of labels do not meet, the slot of an object is its own for
\* as long as the object exists and after it was freed, whatever calls return or are left
\* without a return (__taint_trace_alloca, __taint_pop_stack_frame, the allocators).
THEOREM SlotsAreOwned ==
    ASSUME Shallow, Bounded
    PROVE  Spec /\ []RegionsApart => []SlotOwned
BY Always, InvOwned, PTL

\* A pointer keeps the label of its object in the register and through memory
\* (__taint_union_store, __taint_union_load).
THEOREM PointersAreTracked ==
    ASSUME Shallow, Bounded
    PROVE  Spec /\ []RegionsApart => []PointersTracked
BY Always, InvTracked, PTL

\* __taint_check_bounds judges every access to a live or freed object right.
THEOREM VerdictsExact ==
    ASSUME Shallow, Bounded
    PROVE  Spec /\ []RegionsApart => []ChecksExact
BY Always, InvExact, PTL

\* No bad access is missed, even after reallocations that failed.
THEOREM NoAccessMissed ==
    ASSUME Shallow, Bounded
    PROVE  Spec /\ []RegionsApart => []NothingMissed
BY Always, InvNothingMissed, PTL

\* The assertion at the start of __taint_union_store holds for every pointer that is stored.
THEOREM StoreAsserts ==
    ASSUME Shallow, Bounded
    PROVE  Spec /\ []RegionsApart => []StoreAssertion
BY Always, InvAssertion, PTL

-----------------------------------------------------------------------------
(* When the regions cannot meet: every object takes one label, and a heap object one
   more for each byte of a pointer to it, once. *)

Roomy == MaxObjects * (WordBytes + 1) < NumLabels

HeapObjects == {o \in Objects : objs[o].where = "heap"}
StackObjects == {o \in Objects : objs[o].where = "stack"}
SplitObjects == {o \in HeapObjects : Pieces(objs[o].label) # {}}

H == Cardinality(HeapObjects)
S == Cardinality(StackObjects)
P == Cardinality(SplitObjects)

RoomInv ==
    /\ ~dead
    /\ last <= H + WordBytes * P
    /\ NumLabels - top <= S
    /\ \A i \in 1 .. index : NumLabels - saved[i] <= S

LEMMA Numbers ==
    ASSUME ProgramType
    PROVE  /\ IsFiniteSet(HeapObjects) /\ IsFiniteSet(StackObjects) /\ IsFiniteSet(SplitObjects)
           /\ H \in Nat /\ S \in Nat /\ P \in Nat /\ Len(objs) \in Nat
           /\ H + S = Len(objs) /\ P <= H
<1>1. Len(objs) \in Nat /\ IsFiniteSet(Objects) /\ Cardinality(Objects) = Len(objs)
  <2>1. Len(objs) \in Nat
    BY DEF ProgramType
  <2>2. /\ IsFiniteSet(1 .. Len(objs))
        /\ Cardinality(1 .. Len(objs)) = IF 1 > Len(objs) THEN 0 ELSE Len(objs) - 1 + 1
    BY <2>1, FS_Interval
  <2> QED
    BY <2>1, <2>2 DEF Objects
<1>2. HeapObjects \subseteq Objects /\ StackObjects \subseteq Objects
      /\ SplitObjects \subseteq HeapObjects
  BY DEF HeapObjects, StackObjects, SplitObjects
<1>3. IsFiniteSet(HeapObjects) /\ IsFiniteSet(StackObjects)
  BY <1>1, <1>2, FS_Subset
<1>4. IsFiniteSet(SplitObjects) /\ P <= H
  BY <1>2, <1>3, FS_Subset DEF P, H
<1>5. H \in Nat /\ S \in Nat /\ P \in Nat
  BY <1>3, <1>4, FS_CardinalityType DEF H, S, P
<1>6. H + S = Len(objs)
  <2>1. \A o \in Objects : objs[o].where \in {"stack", "heap"}
    BY ObjectType DEF ObjType
  <2>2. HeapObjects \cup StackObjects = Objects /\ HeapObjects \cap StackObjects = {}
    BY <2>1 DEF HeapObjects, StackObjects
  <2>3. Cardinality(HeapObjects \cup StackObjects) = H + S - Cardinality(HeapObjects \cap StackObjects)
    BY <1>3, FS_Union DEF H, S
  <2>4. Cardinality(HeapObjects \cap StackObjects) = 0
    BY <2>2, FS_EmptySet
  <2>5. Cardinality(HeapObjects \cup StackObjects) = Len(objs)
    BY <1>1, <2>2
  <2> QED
    BY <1>1, <1>5, <2>3, <2>4, <2>5
<1> QED
  BY <1>1, <1>3, <1>4, <1>5, <1>6

\* The room there is between the labels and a top t.
LEMMA Room ==
    ASSUME Roomy, ProgramType, last \in Nat, last <= H + WordBytes * P,
           NEW t \in Int, NumLabels - t <= S
    PROVE  /\ last + (MaxObjects - Len(objs)) + WordBytes * (MaxObjects - P) < t
           /\ MaxObjects - Len(objs) \in Nat /\ MaxObjects - P \in Nat
           /\ WordBytes * (MaxObjects - P) \in Nat
<1>1. /\ H \in Nat /\ S \in Nat /\ P \in Nat /\ Len(objs) \in Nat
      /\ H + S = Len(objs) /\ P <= H
  BY Numbers
<1>2. Len(objs) <= MaxObjects /\ MaxObjects \in Nat /\ WordBytes \in Nat /\ NumLabels \in Nat
  BY LabelsType DEF ProgramType
<1>3. MaxObjects - Len(objs) \in Nat /\ MaxObjects - P \in Nat
  BY <1>1, <1>2
<1>4. \A a, b, c \in Nat : a * (b - c) = a * b - a * c /\ a * b \in Nat /\ b * (a + 1) = a * b + b
  OBVIOUS
<1>5. /\ WordBytes * (MaxObjects - P) = WordBytes * MaxObjects - WordBytes * P
      /\ WordBytes * MaxObjects \in Nat /\ WordBytes * P \in Nat
      /\ MaxObjects * (WordBytes + 1) = WordBytes * MaxObjects + MaxObjects
  BY <1>1, <1>2, <1>4
<1>6. WordBytes * (MaxObjects - P) \in Nat
  BY <1>2, <1>3, <1>4
<1>7. WordBytes * MaxObjects + MaxObjects < NumLabels
  BY <1>5 DEF Roomy
<1> QED
  BY <1>1, <1>2, <1>3, <1>5, <1>6, <1>7

\* A label that is split is that of a heap object that was not split before.
LEMMA SplitIsNew ==
    ASSUME Inv, RegionsApart, StorePointer, ~dead, ~WholeLabel(reg.label), Pieces(reg.label) = {}
    PROVE  reg.obj \in HeapObjects /\ reg.obj \notin SplitObjects
           /\ reg.label = objs[reg.obj].label /\ P + 1 <= MaxObjects
<1>1. /\ ProgramType /\ ObjectPart /\ PointerPart /\ MayCopy(reg.obj)
      /\ reg.obj \in 0 .. Len(objs) /\ Len(objs) \in Nat
  <2>1. ProgramType /\ ObjectPart /\ PointerPart
    BY Zenon DEF Inv
  <2>2. MayCopy(reg.obj)
    BY Zenon DEF StorePointer
  <2> QED
    BY <2>1, <2>2 DEF ProgramType
<1>2. reg.obj # Null /\ reg.obj \in Objects /\ reg.label = objs[reg.obj].label
  <2>1. reg.obj # Null
    BY <1>1 DEF PointerPart, LabelOf, WholeLabel
  <2> QED
    BY <1>1, <2>1 DEF PointerPart, LabelOf, Objects, Null
<1>3. Exists(reg.obj) /\ objs[reg.obj].where \in {"stack", "heap"}
  BY <1>1, <1>2, ObjectType DEF MayCopy, Exists, ObjType
<1>4. objs[reg.obj].where # "stack"
  <2> SUFFICES ASSUME objs[reg.obj].where = "stack"
               PROVE  FALSE
    OBVIOUS
  <2>1. objs[reg.obj].state = "live"
    BY <1>1, <1>2, <1>3, LocalVariable DEF ObjectPart
  <2>2. info[reg.label] = Entry(reg.obj)
    BY <1>1, <1>2, <1>3 DEF ObjectPart, EntryPart
  <2> QED
    BY <2>1, <2>2 DEF Entry, WholeLabel
<1>5. reg.obj \in HeapObjects /\ reg.obj \notin SplitObjects
  BY <1>2, <1>3, <1>4 DEF HeapObjects, SplitObjects
<1>6. P + 1 <= H
  <2>1. IsFiniteSet(HeapObjects) /\ IsFiniteSet(SplitObjects) /\ SplitObjects \subseteq HeapObjects
    BY <1>1, Numbers DEF SplitObjects
  <2>2. Cardinality(SplitObjects \cup {reg.obj}) = P + 1
    BY <1>5, <2>1, FS_AddElement DEF P
  <2>3. SplitObjects \cup {reg.obj} \subseteq HeapObjects
    BY <1>5, <2>1
  <2> QED
    BY <2>1, <2>2, <2>3, FS_Subset DEF H
<1>7. H <= MaxObjects /\ H \in Nat /\ P \in Nat
  BY <1>1, Numbers, LabelsType DEF ProgramType
<1> QED
  BY <1>2, <1>5, <1>6, <1>7, LabelsType

\* A step that keeps the objects and the pieces there are, and may add to them.
Grows == /\ Len(objs) <= Len(objs')
         /\ \A o \in Objects : objs'[o].where = objs[o].where /\ objs'[o].label = objs[o].label
         /\ last <= last'
         /\ \A e \in 1 .. last : info[e].op = "Extract" => info'[e] = info[e]

LEMMA GrowsNumbers ==
    ASSUME ProgramType, ProgramType', last \in Nat, last' \in Nat, Grows
    PROVE  /\ HeapObjects \subseteq HeapObjects' /\ StackObjects \subseteq StackObjects'
           /\ SplitObjects \subseteq SplitObjects'
           /\ H <= H' /\ S <= S' /\ P <= P' /\ WordBytes * P <= WordBytes * P'
           /\ H' \in Nat /\ S' \in Nat /\ P' \in Nat
<1>1. Len(objs) \in Nat /\ Len(objs') \in Nat
  BY DEF ProgramType
<1>2. Objects \subseteq Objects'
  BY <1>1 DEF Objects, Grows
<1>3. HeapObjects \subseteq HeapObjects' /\ StackObjects \subseteq StackObjects'
  BY <1>2 DEF HeapObjects, StackObjects, Grows
<1>4. SplitObjects \subseteq SplitObjects'
  <2> SUFFICES ASSUME NEW o \in SplitObjects
               PROVE  o \in SplitObjects'
    OBVIOUS
  <2>1. o \in HeapObjects /\ o \in Objects
    BY DEF SplitObjects, HeapObjects
  <2>2. PICK e \in 1 .. last : info[e].op = "Extract" /\ info[e].l1 = objs[o].label
    BY DEF SplitObjects, Pieces
  <2>3. e \in 1 .. last' /\ info'[e] = info[e] /\ objs'[o].label = objs[o].label
    BY <2>1, <2>2 DEF Grows
  <2>4. o \in HeapObjects'
    BY <1>3, <2>1
  <2> QED
    BY <2>2, <2>3, <2>4 DEF SplitObjects, Pieces
<1>5. /\ IsFiniteSet(HeapObjects') /\ IsFiniteSet(StackObjects') /\ IsFiniteSet(SplitObjects')
      /\ H' \in Nat /\ S' \in Nat /\ P' \in Nat
  <2>1. (/\ IsFiniteSet(HeapObjects) /\ IsFiniteSet(StackObjects) /\ IsFiniteSet(SplitObjects)
         /\ H \in Nat /\ S \in Nat /\ P \in Nat)'
    BY Numbers, PTL
  <2> QED
    BY <2>1
<1>6. H <= H' /\ S <= S' /\ P <= P'
  BY <1>3, <1>4, <1>5, FS_Subset DEF H, S, P
<1>7. P \in Nat /\ WordBytes \in Nat
  BY Numbers, LabelsType
<1>8. \A a, b, c \in Nat : b <= c => a * b <= a * c
  OBVIOUS
<1>9. WordBytes * P <= WordBytes * P'
  BY <1>5, <1>6, <1>7, <1>8
<1> QED
  BY <1>3, <1>4, <1>5, <1>6, <1>9

\* No step makes the regions meet.
LEMMA RoomApart ==
    ASSUME Roomy, Shallow, Inv, RoomInv, Next
    PROVE  last < top /\ last' < top' /\ ~dead'
<1> DEFINE A == MaxObjects - Len(objs)
           B == WordBytes * (MaxObjects - P)
<1>1. StateType /\ ProgramType /\ ~dead
  BY Zenon DEF Inv, RoomInv
<1>2. /\ last \in Nat /\ top \in Nat /\ NumLabels - top <= S /\ last <= H + WordBytes * P
      /\ S \in Nat /\ P \in Nat /\ Len(objs) \in Nat
  BY <1>1, LabelsType, Numbers DEF StateType, RoomInv
<1>3. last + A + B < top /\ A \in Nat /\ B \in Nat
  BY <1>1, <1>2, Room
<1>4. CASE UNCHANGED <<last, top, dead>>
  BY <1>1, <1>2, <1>3, <1>4
<1>5. CASE Pop
  <2>1. top' \in SavedTops(index) /\ last' = last /\ dead' = dead /\ depth > 0
    BY <1>5 DEF Pop
  <2>2. index \in 1 .. index /\ index < MAX_SAVED_STACK_ENTRIES
    BY <1>1, <2>1, LabelsType DEF StateType, Shallow
  <2>3. top' = saved[index] /\ NumLabels - saved[index] <= S /\ saved[index] \in 1 .. NumLabels
    BY <1>1, <2>1, <2>2, LabelsType DEF SavedTops, StateType, RoomInv
  <2>4. last + A + B < saved[index]
    BY <1>1, <1>2, <2>3, Room
  <2> HIDE DEF A, B
  <2> QED
    BY <1>1, <1>2, <1>3, <2>1, <2>3, <2>4
<1>6. ASSUME NEW size \in Sizes, Alloca(size)
      PROVE  last' < top' /\ ~dead'
  <2>1. Len(objs) < MaxObjects /\ top' = top - 1 /\ last' = last /\ dead' = dead
    BY <1>6 DEF Alloca
  <2>2. A >= 1
    BY <1>2, <2>1, LabelsType
  <2> HIDE DEF A, B
  <2> QED
    BY <1>1, <1>2, <1>3, <2>1, <2>2
<1>7. ASSUME NEW size, NEW old, Allocated(size, old), top' = top
      PROVE  last' < top' /\ ~dead'
  <2>1. Len(objs) < MaxObjects /\ TakeLabels(1)
    BY <1>7 DEF Allocated
  <2>2. A >= 1
    BY <1>2, <2>1, LabelsType
  <2> HIDE DEF A, B
  <2>3. last + 1 < top
    BY <1>2, <1>3, <2>2
  <2> QED
    BY <1>1, <1>7, <2>1, <2>3 DEF TakeLabels
<1>8. CASE StorePointer
  <2>1. last < top /\ RegionsApart
    BY <1>2, <1>3 DEF RegionsApart
  <2>2. CASE WholeLabel(reg.label) \/ Pieces(reg.label) # {}
    BY <1>4, <1>8, <2>2 DEF StorePointer
  <2>3. CASE ~WholeLabel(reg.label) /\ Pieces(reg.label) = {}
    <3>1. TakeLabels(WordBytes) /\ top' = top
      BY <1>8, <2>3 DEF StorePointer
    <3>2. P + 1 <= MaxObjects
      BY <1>1, <1>8, <2>1, <2>3, SplitIsNew
    <3>3. \A a, b \in Nat : b >= 1 => a * b >= a
      OBVIOUS
    <3>4. B >= WordBytes
      BY <1>2, <3>2, <3>3, LabelsType
    <3> HIDE DEF A, B
    <3>5. last + WordBytes < top
      BY <1>2, <1>3, <3>4, LabelsType
    <3> QED
      BY <1>1, <2>1, <3>1, <3>5 DEF TakeLabels
  <2> QED
    BY <2>2, <2>3
<1>9. last < top
  <2> HIDE DEF A, B
  <2> QED
    BY <1>2, <1>3
<1>10. CASE Push \/ Unwind \/ ReallocFailed \/ Free \/ LoadPointer
  BY <1>4, <1>10 DEF Push, Unwind, ReallocFailed, Free, LoadPointer
<1>11. ASSUME NEW size \in Sizes, Malloc(size) \/ Realloc(size)
       PROVE  last' < top' /\ ~dead'
  <2>1. CASE Malloc(size)
    BY <1>7, <2>1 DEF Malloc
  <2>2. CASE Realloc(size)
    BY <1>7, <2>2 DEF Realloc
  <2> QED
    BY <1>11, <2>1, <2>2
<1> HIDE DEF A, B
<1>12. last' < top' /\ ~dead'
  BY <1>5, <1>6, <1>8, <1>10, <1>11, Zenon DEF Next
<1> QED
  BY <1>9, <1>12

\* Every step keeps the objects and the pieces there are.
LEMMA StepGrows ==
    ASSUME Bounded, Inv, Next, last < top, last' < top', ~dead, ~dead'
    PROVE  Grows
<1>1. /\ objs \in Seq(ObjType) /\ Len(objs) \in Nat /\ last \in Nat /\ top \in Nat
      /\ info \in [Labels -> Slot] /\ top <= NumLabels
      /\ reg.label \in 0 .. NumLabels /\ reg.obj \in 0 .. Len(objs)
  BY LabelsType DEF Inv, StateType, ProgramType
<1>2. \A e \in 1 .. last : e \in Labels
  BY <1>1, LabelsType DEF Labels
<1>3. CASE UNCHANGED <<info, last, objs>>
  BY <1>1, <1>3 DEF Grows
<1>4. CASE LocalsGone /\ UNCHANGED <<info, last>>
  BY <1>1, <1>4, LocalsGoneFacts DEF Grows, SomeGone, Same
<1>5. ASSUME NEW w, NEW b, NEW z, NEW l
      PROVE  /\ Len(NewObject(w, b, z, l)) = Len(objs) + 1
             /\ \A o \in Objects : NewObject(w, b, z, l)[o] = objs[o]
  BY <1>1 DEF NewObject, Objects
\* Changing the state of the object of the register keeps the others, and its label.
<1>6. ASSUME NEW q \in Seq(ObjType), NEW st, ToHeap(reg), Len(objs) <= Len(q),
             \A o \in Objects : q[o] = objs[o]
      PROVE  /\ Len([q EXCEPT ![reg.obj].state = st]) = Len(q)
             /\ \A o \in Objects :
                   /\ [q EXCEPT ![reg.obj].state = st][o].where = objs[o].where
                   /\ [q EXCEPT ![reg.obj].state = st][o].label = objs[o].label
  <2>1. Len(q) \in Nat /\ \A o \in Objects : o \in 1 .. Len(q) /\ q[o] \in ObjType
    BY <1>1, <1>6 DEF Objects
  <2>2. \A r \in ObjType : /\ [r EXCEPT !.state = st].where = r.where
                            /\ [r EXCEPT !.state = st].label = r.label
    BY DEF ObjType
  <2> DEFINE m == [q[reg.obj] EXCEPT !.state = st]
             n == [q EXCEPT ![reg.obj] = m]
  <2>3. n = [q EXCEPT ![reg.obj].state = st]
    OBVIOUS
  <2>4. reg.obj \in Objects => m.where = q[reg.obj].where /\ m.label = q[reg.obj].label
    BY <2>1, <2>2
  <2> HIDE DEF m
  <2>5. Len(n) = Len(q) /\ \A o \in 1 .. Len(q) : n[o] = IF o = reg.obj THEN m ELSE q[o]
    BY <2>1
  <2> HIDE DEF n
  <2>6. \A o \in Objects : n[o].where = objs[o].where /\ n[o].label = objs[o].label
    BY <1>6, <2>1, <2>4, <2>5
  <2> QED
    BY <2>3, <2>5, <2>6
\* So does marking its slot.
<1>7. ASSUME NEW old \in {info, [info EXCEPT ![reg.label] = Freed(reg.label)]}, NEW e \in 1 .. last,
             info[e].op = "Extract"
      PROVE  old[e] = info[e] /\ DOMAIN old = Labels
  BY <1>1, <1>2, <1>7 DEF Freed
<1>8. CASE Push \/ LoadPointer
  BY <1>3, <1>8 DEF Push, LoadPointer
<1>9. CASE Pop \/ Unwind
  BY <1>4, <1>9 DEF Pop, Unwind
<1>10. ASSUME NEW size \in Sizes, Alloca(size)
       PROVE  Grows
  <2>1. /\ objs' = NewObject("stack", StackAddr, size, top - 1) /\ last' = last /\ top' = top - 1
        /\ info' = [info EXCEPT ![top - 1] = Bounds(StackAddr, StackAddr + size)]
    BY <1>10 DEF Alloca
  <2>2. Len(objs') = Len(objs) + 1 /\ \A o \in Objects : objs'[o] = objs[o]
    BY <1>5, <2>1
  <2>3. \A e \in 1 .. last : info'[e] = info[e]
    <3>1. \A e \in 1 .. last : e # top - 1
      BY <1>1, <2>1
    <3> QED
      BY <1>1, <1>2, <2>1, <3>1
  <2> QED
    BY <1>1, <2>1, <2>2, <2>3 DEF Grows
\* The slots of an allocation.
<1>11. ASSUME NEW size, NEW old \in {info, [info EXCEPT ![reg.label] = Freed(reg.label)]},
              Allocated(size, old)
       PROVE  /\ last' = last + 1
              /\ \A e \in 1 .. last : info[e].op = "Extract" => info'[e] = info[e]
  <2>1. last' = last + 1 /\ info' = [old EXCEPT ![last'] = Bounds(HeapAddr, HeapAddr + size)]
    BY <1>11 DEF Allocated, TakeLabels
  <2>2. \A e \in 1 .. last : e # last'
    BY <1>1, <2>1
  <2> QED
    BY <1>2, <1>7, <2>1, <2>2
<1>12. ASSUME NEW size \in Sizes, Malloc(size)
       PROVE  Grows
  <2>1. Allocated(size, info) /\ objs' = NewObject("heap", HeapAddr, size, last')
    BY <1>12 DEF Malloc
  <2>2. Len(objs') = Len(objs) + 1 /\ \A o \in Objects : objs'[o] = objs[o]
    BY <1>5, <2>1
  <2> QED
    BY <1>1, <1>11, <2>1, <2>2 DEF Grows
<1>13. ASSUME NEW size \in Sizes, Realloc(size)
       PROVE  Grows
  <2> DEFINE made == NewObject("heap", HeapAddr, size, last')
  <2>1. /\ Allocated(size, [info EXCEPT ![reg.label] = Freed(reg.label)]) /\ ToHeap(reg)
        /\ objs' = [made EXCEPT ![reg.obj].state = "freed"]
    BY <1>13 DEF Realloc
  <2>2. Len(made) = Len(objs) + 1 /\ \A o \in Objects : made[o] = objs[o]
    BY <1>5
  <2>3. made \in Seq(ObjType)
    <3>1. ProgramType /\ StateType
      BY Zenon DEF Inv
    <3>2. HeapAddr \in Int /\ HeapAddr > 1
      BY <1>1, Addresses
    <3>3. last' = last + 1
      BY <1>11, <2>1
    <3>4. size \in Nat /\ depth \in Nat /\ last' \in 0 .. NumLabels
      BY <1>1, <3>1, <3>3, BoundsAssumption DEF StateType
    <3> QED
      BY <3>1, <3>2, <3>4, NewObjectFacts
  <2> HIDE DEF made
  <2>4. /\ Len(objs') = Len(objs) + 1
        /\ \A o \in Objects : objs'[o].where = objs[o].where /\ objs'[o].label = objs[o].label
    BY <1>1, <1>6, <2>1, <2>2, <2>3
  <2> QED
    BY <1>1, <1>11, <2>1, <2>4 DEF Grows
<1>14. CASE ReallocFailed \/ Free
  <2>1. PICK st : /\ objs' = [objs EXCEPT ![reg.obj].state = st] /\ last' = last /\ ToHeap(reg)
                  /\ info' = [info EXCEPT ![reg.label] = Freed(reg.label)]
    BY <1>14 DEF ReallocFailed, Free
  <2>2. /\ Len(objs') = Len(objs)
        /\ \A o \in Objects : objs'[o].where = objs[o].where /\ objs'[o].label = objs[o].label
    BY <1>1, <1>6, <2>1
  <2> QED
    BY <1>1, <1>7, <2>1, <2>2 DEF Grows
<1>15. CASE StorePointer
  <2>1. objs' = objs
    BY <1>15 DEF StorePointer
  <2>2. CASE WholeLabel(reg.label) \/ Pieces(reg.label) # {}
    BY <1>3, <1>15, <2>2 DEF StorePointer
  <2>3. CASE ~WholeLabel(reg.label) /\ Pieces(reg.label) = {}
    <3>1. TakeLabels(WordBytes)
      BY <1>15, <2>3 DEF StorePointer
    <3>2. last' = last + WordBytes
      BY <3>1 DEF TakeLabels
    <3>3. info' = [l \in Labels |-> IF l \in last + 1 .. last'
                                    THEN [Raw EXCEPT !.op = "Extract", !.l1 = reg.label,
                                                     !.byte = l - last]
                                    ELSE info[l]]
      BY <1>15, <2>3 DEF StorePointer
    <3>4. \A e \in 1 .. last : e \notin last + 1 .. last'
      BY <1>1
    <3>5. \A e \in 1 .. last : info'[e] = info[e]
      BY <1>2, <3>3, <3>4
    <3> QED
      BY <1>1, <2>1, <3>2, <3>5, LabelsType DEF Grows
  <2> QED
    BY <2>2, <2>3
<1> QED
  BY <1>8, <1>9, <1>10, <1>12, <1>13, <1>14, <1>15, Zenon DEF Next

LEMMA RoomStep ==
    ASSUME Roomy, Shallow, Bounded, Inv, RoomInv, [Next]_vars
    PROVE  Inv' /\ RoomInv'
<1>1. CASE UNCHANGED vars
  <2>1. UNCHANGED <<info, last, top, saved, index, dead, depth, unwound, objs, reg, cell>>
    BY <1>1 DEF vars
  <2>2. RoomInv'
    <3>1. H' = H /\ S' = S /\ P' = P
      BY <2>1, Zenon DEF H, S, P, HeapObjects, StackObjects, SplitObjects, Pieces, Objects
    <3> QED
      BY <2>1, <3>1 DEF RoomInv
  <2>3. last < top
    <3>1. StateType /\ ProgramType
      BY Zenon DEF Inv
    <3>2. last \in Nat /\ top \in Nat /\ last <= H + WordBytes * P /\ NumLabels - top <= S
      BY <3>1, LabelsType DEF StateType, RoomInv
    <3>3. /\ last + (MaxObjects - Len(objs)) + WordBytes * (MaxObjects - P) < top
          /\ MaxObjects - Len(objs) \in Nat /\ WordBytes * (MaxObjects - P) \in Nat
      BY <3>1, <3>2, Room
    <3> QED
      BY <3>2, <3>3
  <2>4. Inv'
    <3>1. RegionsApart /\ RegionsApart'
      BY <2>1, <2>3 DEF RegionsApart
    <3> QED
      BY <1>1, <3>1, StepInv
  <2> QED
    BY <2>2, <2>4
<1>2. CASE Next
  <2>1. last < top /\ last' < top' /\ ~dead' /\ ~dead
    BY <1>2, RoomApart DEF RoomInv
  <2>2. Inv'
    <3>1. RegionsApart /\ RegionsApart'
      BY <2>1 DEF RegionsApart
    <3> QED
      BY <1>2, <3>1, StepInv
  <2>3. StateType /\ ProgramType /\ StateType' /\ ProgramType'
    BY <2>2, Zenon DEF Inv
  <2>4. /\ last \in Nat /\ last' \in Nat /\ top \in Nat /\ top' \in Nat /\ NumLabels \in Nat
        /\ WordBytes \in Nat /\ Len(objs) \in Nat
    BY <2>3, LabelsType DEF StateType, ProgramType
  <2>5. Grows
    BY <1>2, <2>1, StepGrows
  <2>6. /\ HeapObjects \subseteq HeapObjects' /\ StackObjects \subseteq StackObjects'
        /\ SplitObjects \subseteq SplitObjects'
    BY <2>3, <2>4, <2>5, GrowsNumbers
  <2>7. /\ H \in Nat /\ S \in Nat /\ P \in Nat
        /\ H' \in Nat /\ S' \in Nat /\ P' \in Nat
        /\ H <= H' /\ S <= S' /\ P <= P'
    BY <2>3, <2>4, <2>5, GrowsNumbers, Numbers
  \* The numbers of pieces, before and after.
  <2>8. PICK w \in Nat, v \in Nat : w = WordBytes * P /\ v = WordBytes * P'
    <3>1. \A a, b \in Nat : a * b \in Nat
      OBVIOUS
    <3>2. WordBytes * P \in Nat /\ WordBytes * P' \in Nat
      BY <2>4, <2>7, <3>1
    <3> QED
      BY <3>2
  <2>9. w \in Nat /\ v \in Nat /\ w <= v /\ (P + 1 <= P' => w + WordBytes <= v)
    <3>1. w <= v
      BY <2>3, <2>4, <2>5, <2>8, GrowsNumbers, Zenon
    <3>2. ASSUME NEW p \in Nat, NEW q \in Nat, p + 1 <= q
          PROVE  WordBytes * p + WordBytes <= WordBytes * q
      <4>1. \A a, b, c \in Nat : a * (b + 1) = a * b + a /\ (b <= c => a * b <= a * c)
        OBVIOUS
      <4>2. p + 1 \in Nat
        OBVIOUS
      <4>3. WordBytes * (p + 1) <= WordBytes * q
        BY <2>4, <3>2, <4>1, <4>2, Zenon
      <4>4. WordBytes * (p + 1) = WordBytes * p + WordBytes
        BY <2>4, <4>1, Zenon
      <4> QED
        BY <4>3, <4>4
    <3>3. P + 1 <= P' => w + WordBytes <= v
      BY <2>7, <2>8, <3>2, Zenon
    <3> QED
      BY <2>8, <3>1, <3>3
  \* The numbers of objects, before and after.
  <2>8a. PICK m \in Nat, n \in Nat : m = H /\ n = H'
    BY <2>7
  <2>8b. PICK r \in Nat, s \in Nat : r = S /\ s = S'
    BY <2>7
  <2>9a. m \in Nat /\ n \in Nat /\ r \in Nat /\ s \in Nat /\ m <= n /\ r <= s
    BY <2>7, <2>8a, <2>8b
  <2>10. last <= m + w /\ NumLabels - top <= r
    BY <2>8, <2>8a, <2>8b, Zenon DEF RoomInv
  \* What suffices for the labels of the union table, and for those of the stack.
  <2>11. last' = last => last' <= n + v
    BY <2>4, <2>9a, <2>9, <2>10
  <2>12. top' = top => NumLabels - top' <= s
    BY <2>4, <2>9a, <2>10
  <2>13. ASSUME \A i \in 1 .. index' : saved'[i] = top \/ (i \in 1 .. index /\ saved'[i] = saved[i])
         PROVE  \A i \in 1 .. index' : NumLabels - saved'[i] <= s
    <3> SUFFICES ASSUME NEW i \in 1 .. index'
                 PROVE  NumLabels - saved'[i] <= s
      OBVIOUS
    <3>1. saved'[i] \in 1 .. NumLabels
      BY <2>3 DEF StateType
    <3>2. NumLabels - saved'[i] <= r
      BY <2>8b, <2>10, <2>13 DEF RoomInv
    <3> QED
      BY <2>4, <2>9a, <3>1, <3>2
  <2>14. ASSUME saved' = saved, index' = index
         PROVE  \A i \in 1 .. index' : NumLabels - saved'[i] <= s
    BY <2>13, <2>14
  <2>15. index \in Nat /\ index < MAX_SAVED_STACK_ENTRIES
    BY <2>3, LabelsType DEF StateType, Shallow
  \* The new object is counted.
  <2>16. ASSUME NEW k \in Nat, k = Len(objs) + 1, Len(objs') = k
         PROVE  /\ objs'[k].where = "stack" => r + 1 <= s
                /\ objs'[k].where = "heap" => m + 1 <= n
    <3>1. k \in Objects' /\ k \notin Objects
      BY <2>4, <2>16 DEF Objects
    <3>2. /\ IsFiniteSet(HeapObjects) /\ IsFiniteSet(StackObjects)
          /\ k \notin HeapObjects /\ k \notin StackObjects
      BY <2>3, <3>1, Numbers DEF HeapObjects, StackObjects
    <3>3. IsFiniteSet(HeapObjects') /\ IsFiniteSet(StackObjects')
      <4>1. (IsFiniteSet(HeapObjects) /\ IsFiniteSet(StackObjects))'
        BY <2>3, Numbers, PTL
      <4> QED
        BY <4>1
    <3>4. /\ Cardinality(HeapObjects \cup {k}) = m + 1
          /\ Cardinality(StackObjects \cup {k}) = r + 1
      BY <2>8a, <2>8b, <3>2, FS_AddElement DEF H, S
    <3>5. ASSUME objs'[k].where = "stack"
          PROVE  r + 1 <= s
      <4>1. StackObjects \cup {k} \subseteq StackObjects'
        BY <2>6, <3>1, <3>5 DEF StackObjects
      <4> QED
        BY <2>8b, <3>3, <3>4, <4>1, FS_Subset DEF S
    <3>6. ASSUME objs'[k].where = "heap"
          PROVE  m + 1 <= n
      <4>1. HeapObjects \cup {k} \subseteq HeapObjects'
        BY <2>6, <3>1, <3>6 DEF HeapObjects
      <4> QED
        BY <2>8a, <3>3, <3>4, <4>1, FS_Subset DEF H
    <3> QED
      BY <3>5, <3>6
  <2> DEFINE Kept == /\ last' <= n + v
                     /\ NumLabels - top' <= s
                     /\ \A i \in 1 .. index' : NumLabels - saved'[i] <= s
  <2> SUFFICES Kept
    BY <2>1, <2>2, <2>8, <2>8a, <2>8b DEF RoomInv
  <2>17. CASE UNCHANGED <<last, top, saved, index>>
    BY <2>11, <2>12, <2>14, <2>17
  <2>18. CASE Push
    <3>1. last' = last /\ top' = top
      BY <2>18 DEF Push
    <3>2. saved' = [saved EXCEPT ![index + 1] = top] /\ index' = index + 1
      BY <2>15, <2>18 DEF Push
    <3>3. \A i \in 1 .. index' : saved'[i] = top \/ (i \in 1 .. index /\ saved'[i] = saved[i])
      <4>1. saved \in [0 .. MAX_SAVED_STACK_ENTRIES -> 0 .. NumLabels]
        BY <2>3 DEF StateType
      <4> QED
        BY <2>15, <3>2, <4>1, LabelsType
    <3> QED
      BY <2>11, <2>12, <2>13, <3>1, <3>3
  <2>19. CASE Pop
    <3>1. /\ last' = last /\ top' \in SavedTops(index) /\ saved' = saved /\ index' = index - 1
          /\ depth > 0
      BY <2>19 DEF Pop
    <3>2. index \in 1 .. index
      BY <2>3, <3>1, LabelsType DEF StateType
    <3>3. top' = saved[index]
      BY <2>15, <3>1, <3>2, LabelsType DEF SavedTops
    <3>4. NumLabels - top' <= r
      BY <2>8b, <3>2, <3>3 DEF RoomInv
    <3>5. NumLabels - top' <= s
      <4>1. r \in Nat /\ s \in Nat /\ r <= s
        BY <2>9a
      <4>2. \A a, b \in Nat : NumLabels - a <= r => NumLabels - a <= s
        BY <2>4, <4>1
      <4> QED
        BY <2>4, <3>4, <4>2
    <3>6. \A i \in 1 .. index' : i \in 1 .. index /\ saved'[i] = saved[i]
      BY <2>15, <3>1
    <3> QED
      BY <2>11, <2>13, <3>1, <3>5, <3>6
  <2>20. ASSUME NEW size \in Sizes, Alloca(size)
         PROVE  Kept
    <3>1. /\ last' = last /\ top' = top - 1 /\ saved' = saved /\ index' = index
          /\ objs' = NewObject("stack", StackAddr, size, top - 1)
      BY <2>20 DEF Alloca
    <3>2. PICK k \in Nat : k = Len(objs) + 1
      BY <2>4
    <3>3. Len(objs') = k /\ objs'[k].where = "stack"
      BY <2>3, <3>1, <3>2 DEF NewObject, ProgramType
    <3>4. r + 1 <= s /\ top' = top - 1
      BY <2>16, <3>1, <3>2, <3>3
    <3>5. NumLabels - top' <= s
      BY <2>4, <2>9a, <2>10, <3>4
    <3> QED
      BY <2>11, <2>14, <3>1, <3>5
  <2>21. ASSUME NEW size, NEW old, Allocated(size, old), NEW k \in Nat, k = Len(objs) + 1,
                Len(objs') = k, objs'[k].where = "heap", UNCHANGED <<top, saved, index>>
         PROVE  Kept
    <3>1. last' = last + 1
      BY <2>1, <2>21 DEF Allocated, TakeLabels
    <3>2. m + 1 <= n
      BY <2>16, <2>21
    <3>3. last' <= n + v
      BY <2>4, <2>9a, <2>9, <2>10, <3>1, <3>2
    <3> QED
      BY <2>12, <2>14, <2>21, <3>3
  <2>22. ASSUME NEW size \in Sizes, Malloc(size)
         PROVE  Kept
    <3>1. PICK k \in Nat : k = Len(objs) + 1
      BY <2>4
    <3>2. Allocated(size, info) /\ UNCHANGED <<top, saved, index>>
      BY <2>22 DEF Malloc
    <3>3. Len(objs') = k /\ objs'[k].where = "heap"
      BY <2>3, <2>22, <3>1 DEF Malloc, NewObject, ProgramType
    <3> QED
      BY <2>21, <3>1, <3>2, <3>3
  <2>23. ASSUME NEW size \in Sizes, Realloc(size)
         PROVE  Kept
    <3>1. PICK k \in Nat : k = Len(objs) + 1
      BY <2>4
    <3>2. /\ Allocated(size, [info EXCEPT ![reg.label] = Freed(reg.label)])
          /\ UNCHANGED <<top, saved, index>> /\ ToHeap(reg)
          /\ objs' = [NewObject("heap", HeapAddr, size, last') EXCEPT ![reg.obj].state = "freed"]
      BY <2>23 DEF Realloc
    <3> DEFINE made == NewObject("heap", HeapAddr, size, last')
    <3>3. made[k].where = "heap" /\ k \in DOMAIN made /\ DOMAIN made = 1 .. k
      BY <2>3, <3>1 DEF NewObject, ProgramType
    <3>4. reg.obj # k
      BY <2>3, <2>4, <3>1 DEF ProgramType
    <3> HIDE DEF made
    <3>5. objs' = [made EXCEPT ![reg.obj].state = "freed"]
      BY <3>2 DEF made
    <3>6. DOMAIN objs' = 1 .. k /\ objs'[k] = made[k]
      BY <3>3, <3>4, <3>5
    <3>7. Len(objs') = k
      BY <2>3, <3>6 DEF ProgramType
    <3> QED
      BY <2>21, <3>1, <3>2, <3>3, <3>6, <3>7
  <2>24. CASE StorePointer
    <3>1. UNCHANGED <<top, saved, index, objs, reg>>
      BY <2>24 DEF StorePointer
    <3>2. CASE WholeLabel(reg.label) \/ Pieces(reg.label) # {}
      <4>1. last' = last
        BY <2>24, <3>2 DEF StorePointer
      <4> QED
        BY <2>17, <3>1, <4>1
    <3>3. CASE ~WholeLabel(reg.label) /\ Pieces(reg.label) = {}
      <4>1. TakeLabels(WordBytes)
        BY <2>24, <3>3 DEF StorePointer
      <4>2. last' = last + WordBytes
        BY <2>1, <4>1 DEF TakeLabels
      <4>3. info' = [l \in Labels |-> IF l \in last + 1 .. last'
                                      THEN [Raw EXCEPT !.op = "Extract", !.l1 = reg.label,
                                                       !.byte = l - last]
                                      ELSE info[l]]
        BY <2>1, <2>24, <3>3 DEF StorePointer
      <4>4. reg.obj \in HeapObjects /\ reg.obj \notin SplitObjects /\ reg.label = objs[reg.obj].label
        <5>1. RegionsApart
          BY <2>1 DEF RegionsApart
        <5> QED
          BY <2>1, <2>24, <3>3, <5>1, SplitIsNew
      <4>5. reg.obj \in SplitObjects'
        <5>1. last + 1 \in 1 .. last' /\ last + 1 \in Labels /\ last + 1 \in last + 1 .. last'
          BY <2>1, <2>3, <2>4, <4>2, LabelsType DEF StateType, Labels
        <5>2. info'[last + 1].op = "Extract" /\ info'[last + 1].l1 = reg.label
          BY <4>3, <5>1, PieceIs
        <5>3. last + 1 \in Pieces(objs[reg.obj].label)'
          BY <3>1, <4>4, <5>1, <5>2 DEF Pieces
        <5>4. reg.obj \in HeapObjects'
          BY <2>6, <4>4
        <5> QED
          BY <3>1, <5>3, <5>4 DEF SplitObjects
      <4>6. P + 1 <= P'
        <5>1. IsFiniteSet(SplitObjects)
          BY <2>3, Numbers
        <5>2. IsFiniteSet(SplitObjects)'
          BY <2>3, Numbers, PTL
        <5>3. Cardinality(SplitObjects \cup {reg.obj}) = P + 1
          BY <4>4, <5>1, FS_AddElement DEF P
        <5>4. SplitObjects \cup {reg.obj} \subseteq SplitObjects'
          BY <2>6, <4>5
        <5> QED
          BY <5>2, <5>3, <5>4, FS_Subset DEF P
      <4>7. last' <= n + v
        BY <2>4, <2>9a, <2>9, <2>10, <4>2, <4>6
      <4> QED
        BY <2>12, <2>14, <3>1, <4>7
    <3> QED
      BY <3>2, <3>3
  <2>25. CASE Unwind \/ ReallocFailed \/ Free \/ LoadPointer
    BY <2>17, <2>25 DEF Unwind, ReallocFailed, Free, LoadPointer
  <2> QED
    BY <1>2, <2>18, <2>19, <2>20, <2>22, <2>23, <2>24, <2>25, Zenon DEF Next
<1> QED
  BY <1>1, <1>2

LEMMA RoomAlways ==
    ASSUME Roomy, Shallow, Bounded
    PROVE  Spec => [](Inv /\ RoomInv)
<1>1. Init => Inv /\ RoomInv
  <2> SUFFICES ASSUME Init PROVE Inv /\ RoomInv
    OBVIOUS
  <2>1. Inv
    BY InitInv
  <2>2. ~dead /\ last = 0 /\ top = NumLabels /\ 1 .. index = {}
    BY DEF Init, CONST_LABEL
  <2>3. H \in Nat /\ S \in Nat /\ P \in Nat
    BY <2>1, Numbers DEF Inv
  <2>4. \A a, b \in Nat : a * b \in Nat
    OBVIOUS
  <2>5. WordBytes * P \in Nat /\ NumLabels \in Nat
    BY <2>3, <2>4, LabelsType
  <2>6. last <= H + WordBytes * P /\ NumLabels - top <= S
    BY <2>2, <2>3, <2>5
  <2> QED
    BY <2>1, <2>2, <2>6 DEF RoomInv
<1>2. Inv /\ RoomInv /\ [Next]_vars => (Inv /\ RoomInv)'
  BY RoomStep
<1> QED
  BY <1>1, <1>2, PTL DEF Spec

\* The two regions of labels do not meet, and the union table never runs out of labels,
\* when there is a label for every object a run creates and one for every byte of a
\* pointer to it.  It is the number of objects that counts, not that of calls or of
\* stores: a return gives the labels of its frame back, and the pieces of a pointer are
\* made once (__taint_trace_alloca has no check of its own, dfsan_check_label has one).
THEOREM RegionsStayApart ==
    ASSUME Roomy, Shallow, Bounded
    PROVE  Spec => [](~dead /\ last < top)
<1>1. Inv /\ RoomInv => ~dead /\ last < top
  <2> SUFFICES ASSUME Inv, RoomInv PROVE ~dead /\ last < top
    OBVIOUS
  <2>1. StateType /\ ProgramType
    BY Zenon DEF Inv
  <2>2. /\ ~dead /\ last \in Nat /\ top \in Nat
        /\ last <= H + WordBytes * P /\ NumLabels - top <= S
    BY <2>1, LabelsType DEF StateType, RoomInv
  <2>3. /\ last + (MaxObjects - Len(objs)) + WordBytes * (MaxObjects - P) < top
        /\ MaxObjects - Len(objs) \in Nat /\ WordBytes * (MaxObjects - P) \in Nat
    BY <2>1, <2>2, Room
  <2> QED
    BY <2>2, <2>3
<1> QED
  BY <1>1, RoomAlways, PTL

\* So nothing need be assumed of the run itself: with that many labels every slot is
\* owned, every pointer tracked, and every access judged as __taint_check_bounds should.
THEOREM JudgedWithRoom ==
    ASSUME Roomy, Shallow, Bounded
    PROVE  Spec => [](SlotOwned /\ PointersTracked /\ ChecksExact /\ NothingMissed /\ StoreAssertion)
<1>1. ~dead /\ last < top => RegionsApart
  BY DEF RegionsApart
<1>2. Spec => []RegionsApart
  BY <1>1, RegionsStayApart, PTL
<1> QED
  BY <1>2, SlotsAreOwned, PointersAreTracked, VerdictsExact, NoAccessMissed, StoreAsserts, PTL

=============================================================================
