-------------------------- MODULE UnionTableProofs --------------------------
(***************************************************************************)
(* Proofs about UnionTable for any number of threads, labels, buckets and  *)
(* operators.                                                              *)
(***************************************************************************)
EXTENDS UnionTable, FiniteSetTheorems, TLAPS

\* Positions at which a thread owns a label nobody else has seen.
Owning == {"write", "entry", "head", "cas"}

\* Labels the program holds exist, and so do the labels they are made of.
HeldInv ==
    /\ 0 .. Inputs \subseteq held
    /\ kInitializingLabel \in held
    /\ Inputs <= last
    /\ \A l \in held \ {kInitializingLabel} :
          /\ l <= last
          /\ l < alloca_stack_top
          /\ {info[l].l1, info[l].l2} \subseteq held \ {kInitializingLabel}

\* A label is owned by one thread until its call returns.
OwnInv ==
    \A t \in Threads : pc[t] \in Owning =>
        /\ Inputs < label[t]
        /\ label[t] <= last
        /\ label[t] < alloca_stack_top
        /\ label[t] \notin held
        /\ \A u \in Threads : pc[u] \in Owning /\ u # t => label[u] # label[t]

\* What a thread works on is made of held labels, smaller than its own.
KeyInv ==
    \A t \in Threads :
        /\ {key[t].l1, key[t].l2} \subseteq held \ {kInitializingLabel}
        /\ pc[t] \in Owning => key[t].l1 < label[t] /\ key[t].l2 < label[t]
        /\ pc[t] \in {"entry", "head", "cas"} => info[label[t]] = key[t]

\* Entries of the hash table are labels the program holds.
BucketInv ==
    \A b \in Buckets : \A i \in DOMAIN bucket[b] : bucket[b][i] \in Defined

\* A thread that is not in a call holds its result.
IdleInv ==
    \A t \in Threads : pc[t] = "idle" =>
        /\ label[t] \in held
        /\ key[t] # Blank => label[t] # kInitializingLabel

Inv ==
    /\ TypeOK
    /\ HeldInv
    /\ OwnInv
    /\ KeyInv
    /\ BucketInv
    /\ IdleInv
    /\ OperandsFirst
    /\ NoLostLabel
    /\ ReturnsItsExpression

-----------------------------------------------------------------------------
(* The part of __taint_union that does not touch shared state. *)

\* Labels below the end of the table are not the uninitialised label, and the
\* label of no decision is not a label.
LEMMA LabelsApart ==
    ASSUME HeldInv, TypeOK
    PROVE  /\ held \ {kInitializingLabel} \subseteq Labels
           /\ NoLabel \notin held
           /\ CONST_LABEL \in held \ {kInitializingLabel}
BY TableAssumption DEF HeldInv, TypeOK, Labels, NoLabel, CONST_LABEL

\* Putting the operands in order keeps the call a call.
LEMMA OrderedCall ==
    ASSUME TypeOK, HeldInv, NEW c \in UnionCalls
    PROVE  /\ Ordered(c) \in [l1 : held, l2 : held, op : Ops, size : Nat \ {0},
                              op1 : Nat, op2 : Nat]
           /\ Ordered(c).op = c.op
           /\ Ordered(c).size \in Sizes
BY TableAssumption DEF UnionCalls, Ordered

\* A call that is answered at once is answered with a label the program holds;
\* any other has operands that are proper labels.
LEMMA ImmediateHeld ==
    ASSUME TypeOK, HeldInv, NEW c \in UnionCalls
    PROVE  /\ Immediate(info, c) \in held \cup {NoLabel}
           /\ Immediate(info, c) = NoLabel =>
                 /\ c.op \in ValidOps
                 /\ kInitializingLabel \notin {Ordered(c).l1, Ordered(c).l2}
<1> DEFINE d == Ordered(c)
<1>1. /\ d.l1 \in held /\ d.l2 \in held /\ d.op = c.op
  BY OrderedCall
<1>2. /\ NoLabel \notin held
      /\ CONST_LABEL \in held
      /\ kInitializingLabel \in held
  BY LabelsApart DEF HeldInv
<1> DEFINE e == Concretes(d)
<1>3. e.l1 = d.l1 /\ e.l2 = d.l2
  BY OrderedCall DEF Concretes
<1>4. kInitializingLabel \notin {d.l1, d.l2} => Simplified(info, e) \in held \cup {NoLabel}
  <2> SUFFICES ASSUME kInitializingLabel \notin {d.l1, d.l2}
               PROVE  Simplified(info, e) \in held \cup {NoLabel}
    OBVIOUS
  <2>1. info[e.l1].l1 \in held
    BY <1>1, <1>3 DEF HeldInv
  <2> HIDE DEF e
  <2> QED
    BY <1>1, <1>2, <1>3, <2>1 DEF Simplified
<1> HIDE DEF d, e
<1>5. Immediate(info, c) = IF d.op \notin ValidOps THEN CONST_LABEL
        ELSE IF d.l1 = CONST_LABEL /\ d.l2 = CONST_LABEL
                /\ d.op \notin {"fsize", "Alloca"} THEN CONST_LABEL
        ELSE IF kInitializingLabel \in {d.l1, d.l2} THEN kInitializingLabel
        ELSE IF HasPointer(info, d) /\ d.op = "BitCast" THEN d.l1
        ELSE IF HasPointer(info, d) /\ d.op # "Extract" THEN CONST_LABEL
        ELSE Simplified(info, e)
  BY DEF Immediate, d, e
<1>6. Immediate(info, c) \in held \cup {NoLabel}
  BY <1>1, <1>2, <1>4, <1>5
<1>7. Immediate(info, c) = NoLabel =>
         d.op \in ValidOps /\ kInitializingLabel \notin {d.l1, d.l2}
  BY <1>1, <1>2, <1>5
<1> QED
  BY <1>1, <1>6, <1>7 DEF d

\* The entry a call looks for is well formed and made of its operands.
LEMMA KeyOfCall ==
    ASSUME TypeOK, HeldInv, NEW c \in UnionCalls, Immediate(info, c) = NoLabel
    PROVE  /\ KeyOf(info, c) \in Infos
           /\ {KeyOf(info, c).l1, KeyOf(info, c).l2} \subseteq held \ {kInitializingLabel}
           /\ ~IsInput(KeyOf(info, c))
<1> DEFINE d == Ordered(c)
           e == Concretes(d)
           f == Canonical(e)
           h(l) == IF l = CONST_LABEL THEN 0 ELSE info[l].hash
<1>1. /\ d \in [l1 : held, l2 : held, op : Ops, size : Nat \ {0}, op1 : Nat, op2 : Nat]
      /\ d.op \in ValidOps
      /\ d.size \in Sizes
      /\ d.l1 \in held \ {kInitializingLabel}
      /\ d.l2 \in held \ {kInitializingLabel}
  BY OrderedCall, ImmediateHeld
<1> HIDE DEF d
<1>2. /\ e \in [l1 : held, l2 : held, op : Ops, size : Nat \ {0}, op1 : Nat, op2 : Nat]
      /\ e.op = d.op /\ e.size = d.size /\ e.l1 = d.l1 /\ e.l2 = d.l2
  BY <1>1 DEF Concretes
<1> HIDE DEF e
<1>3. /\ f.l1 = d.l1 /\ f.l2 = d.l2 /\ f.size = d.size
      /\ f.op1 \in Nat /\ f.op2 \in Nat
      /\ f.op \in ValidOps
  BY <1>1, <1>2 DEF Canonical, ValidOps
<1> HIDE DEF f
<1>4. \A l \in held \ {kInitializingLabel} : h(l) \in HashValues
  BY LabelsApart, TableAssumption DEF TypeOK, Infos
<1>5. <<f.op, f.size>> \in Codes
  BY <1>1, <1>3 DEF Codes
<1>6. XXHash[h(f.l1), h(f.l2), <<f.op, f.size>>] \in HashValues
  <2>1. h(f.l1) \in HashValues /\ h(f.l2) \in HashValues
    BY <1>1, <1>3, <1>4
  <2> HIDE DEF h
  <2> QED
    BY <2>1, <1>5, TableAssumption
<1>7. KeyOf(info, c) = [l1 |-> f.l1, l2 |-> f.l2, op |-> f.op, size |-> f.size,
                        op1 |-> f.op1, op2 |-> f.op2,
                        hash |-> XXHash[h(f.l1), h(f.l2), <<f.op, f.size>>]]
  BY DEF KeyOf, d, e, f
<1> HIDE DEF h
<1>8. f.size \in Nat /\ f.l1 \in Labels /\ f.l2 \in Labels
  BY <1>1, <1>3, LabelsApart, TableAssumption
<1>9. RawOp \notin ValidOps
  BY DEF RawOp, ValidOps, ICmpOps
<1> DEFINE x == XXHash[h(f.l1), h(f.l2), <<f.op, f.size>>]
           k == KeyOf(info, c)
<1>10. /\ x \in HashValues
       /\ k = [l1 |-> f.l1, l2 |-> f.l2, op |-> f.op, size |-> f.size,
               op1 |-> f.op1, op2 |-> f.op2, hash |-> x]
  BY <1>6, <1>7
<1> HIDE DEF x, k
<1>11. /\ k \in Infos
       /\ k.l1 = f.l1 /\ k.l2 = f.l2 /\ k.op = f.op
  BY <1>3, <1>8, <1>10 DEF Infos
<1> QED
  BY <1>1, <1>3, <1>9, <1>11 DEF IsInput, k

-----------------------------------------------------------------------------
(* The inductive invariant. *)

LEMMA BlankInfo ==
    /\ Blank \in Infos
    /\ ConstInfo \in Infos
    /\ \A o \in HashValues : InputInfo(o) \in Infos /\ IsInput(InputInfo(o))
                             /\ InputInfo(o).l1 = 0 /\ InputInfo(o).l2 = 0
    /\ \A a \in HashValues : GlobalKey(a, 8) \in Infos /\ ~IsInput(GlobalKey(a, 8))
                             /\ GlobalKey(a, 8).l1 = 0 /\ GlobalKey(a, 8).l2 = 0
    /\ Blank.l1 = 0 /\ Blank.l2 = 0
<1>1. 0 \in HashValues /\ 0 \in Labels /\ HashValues \subseteq Nat /\ ByteBits \in Nat
  BY TableAssumption DEF Labels
<1>2. <<RawOp, ByteBits>> \in Codes /\ <<RawOp, AllocaCode>> \in Codes
  BY DEF Codes
<1>3. \A o \in HashValues : /\ XXHash[o, 0, <<RawOp, ByteBits>>] \in HashValues
                            /\ XXHash[o, 0, <<RawOp, AllocaCode>>] \in HashValues
  BY <1>1, <1>2, TableAssumption
<1>4. RawOp # "Alloca" /\ "Alloca" \in ValidOps
  BY DEF RawOp, ValidOps
<1>5. Blank \in Infos /\ ConstInfo \in Infos /\ Blank.l1 = 0 /\ Blank.l2 = 0
  BY <1>1 DEF Blank, ConstInfo, Infos
<1>6. ASSUME NEW o \in HashValues
      PROVE  InputInfo(o) \in Infos /\ IsInput(InputInfo(o))
             /\ InputInfo(o).l1 = 0 /\ InputInfo(o).l2 = 0
  <2> DEFINE x == XXHash[o, 0, <<RawOp, ByteBits>>]
  <2>1. x \in HashValues /\ InputInfo(o) = [Blank EXCEPT !.size = ByteBits, !.op1 = o, !.hash = x]
    BY <1>3 DEF InputInfo
  <2> HIDE DEF x
  <2>2. InputInfo(o) = [l1 |-> 0, l2 |-> 0, op |-> RawOp, size |-> ByteBits,
                        op1 |-> o, op2 |-> 0, hash |-> x]
    BY <2>1 DEF Blank
  <2> QED
    <3>1. InputInfo(o) \in Infos
      BY <2>1, <2>2, <1>1 DEF Infos
    <3> QED
      BY <3>1, <2>2 DEF IsInput
<1>7. ASSUME NEW a \in HashValues
      PROVE  GlobalKey(a, 8) \in Infos /\ ~IsInput(GlobalKey(a, 8))
             /\ GlobalKey(a, 8).l1 = 0 /\ GlobalKey(a, 8).l2 = 0
  <2> DEFINE x == XXHash[a, 0, <<RawOp, AllocaCode>>]
  <2>1. x \in HashValues
        /\ GlobalKey(a, 8) = [Blank EXCEPT !.op = "Alloca", !.size = 64, !.op1 = a,
                                           !.op2 = a + 8, !.hash = x]
    BY <1>3 DEF GlobalKey
  <2> HIDE DEF x
  <2>2. GlobalKey(a, 8) = [l1 |-> 0, l2 |-> 0, op |-> "Alloca", size |-> 64,
                           op1 |-> a, op2 |-> a + 8, hash |-> x]
    BY <2>1 DEF Blank
  <2>3. a + 8 \in Nat
    BY <1>1
  <2> QED
    BY <2>1, <2>2, <2>3, <1>1, <1>4 DEF Infos, IsInput
<1> QED
  BY <1>5, <1>6, <1>7

\* The program starts with labels for its input bytes and an empty table.
LEMMA InitInv == Init => Inv
<1> SUFFICES ASSUME Init PROVE Inv
  OBVIOUS
<1>0. Defined = {}
  BY TableAssumption DEF Init, Defined
<1>1. \A l \in Labels : info[l] \in Infos /\ info[l].l1 = 0 /\ info[l].l2 = 0
  <2> SUFFICES ASSUME NEW l \in Labels
               PROVE  info[l] \in Infos /\ info[l].l1 = 0 /\ info[l].l2 = 0
    OBVIOUS
  <2>1. ConstInfo.l1 = 0 /\ ConstInfo.l2 = 0
    BY DEF ConstInfo, Blank
  <2>2. l # CONST_LABEL /\ l <= Inputs => l - 1 \in HashValues
    BY TableAssumption DEF Labels, CONST_LABEL
  <2>3. info[l] = IF l = CONST_LABEL THEN ConstInfo
                  ELSE IF l <= Inputs THEN InputInfo(l - 1) ELSE Blank
    BY DEF Init
  <2> QED
    BY <2>1, <2>2, <2>3, BlankInfo
<1>2. TypeOK
  <2>1. info \in [Labels -> Infos]
    BY <1>1 DEF Init
  <2>2. /\ key \in [Threads -> Infos]
        /\ label \in [Threads -> Labels \cup {kInitializingLabel}]
        /\ snap \in [Threads -> Seq(Labels)]
        /\ bucket \in [Buckets -> Seq(Labels)]
    BY BlankInfo, TableAssumption DEF Init, Labels, CONST_LABEL
  <2>3. /\ pc \in [Threads -> {"idle", "lookup", "alloc", "write", "entry", "head", "cas"}]
        /\ dead \in BOOLEAN
    BY DEF Init
  <2>4. /\ held \subseteq Labels \cup {kInitializingLabel}
        /\ last \in Nat
        /\ heap \in Nat
    BY TableAssumption DEF Init, Labels
  <2> QED
    BY <2>1, <2>2, <2>3, <2>4 DEF TypeOK
<1>3. HeldInv
  BY <1>1, TableAssumption DEF Init, HeldInv, Labels
<1>4. OwnInv /\ KeyInv /\ BucketInv /\ IdleInv /\ ReturnsItsExpression
  BY BlankInfo, TableAssumption
  DEF Init, OwnInv, KeyInv, BucketInv, IdleInv, ReturnsItsExpression, Owning, CONST_LABEL
<1>5. OperandsFirst /\ NoLostLabel
  BY <1>0 DEF OperandsFirst, NoLostLabel
<1> QED
  BY <1>2, <1>3, <1>4, <1>5 DEF Inv

\* Starting a call changes only what the thread has to itself.
LEMMA EnterInv ==
    ASSUME Inv, NEW t \in Threads, NEW k \in Infos, NEW p \in {"lookup", "alloc"},
           {k.l1, k.l2} \subseteq held \ {kInitializingLabel}, Enter(t, p, k)
    PROVE  Inv'
<1> USE DEF Inv
<1>1. TypeOK'
  BY TableAssumption DEF TypeOK, Enter, At, CONST_LABEL, Labels
<1>2. Defined' = Defined
  BY DEF Enter, At, Defined
<1>3. HeldInv' /\ BucketInv'
  BY <1>2 DEF HeldInv, BucketInv, Enter, At
<1>4. OwnInv' /\ IdleInv'
  BY DEF OwnInv, IdleInv, Enter, At, Owning, TypeOK
<1>5. KeyInv'
  BY DEF KeyInv, Enter, At, Owning, TypeOK
<1>6. OperandsFirst' /\ NoLostLabel'
  BY <1>2 DEF OperandsFirst, NoLostLabel, Enter, At
<1>7. ReturnsItsExpression'
  BY DEF ReturnsItsExpression, Enter, At, TypeOK
<1> QED
  BY <1>1, <1>3, <1>4, <1>5, <1>6, <1>7

LEMMA CallInv ==
    ASSUME Inv, NEW t \in Threads, NEW c \in UnionCalls, CallUnion(t, c)
    PROVE  Inv'
<1>1. CASE Immediate(info, c) = NoLabel /\ Enter(t, "lookup", KeyOf(info, c))
  BY <1>1, EnterInv, KeyOfCall DEF Inv
<1>2. CASE /\ Immediate(info, c) # NoLabel
           /\ At(t, "idle")
           /\ key' = [key EXCEPT ![t] = Blank]
           /\ Return(t, Immediate(info, c))
           /\ UNCHANGED <<info, last, bucket, heap, dead, snap>>
  <2> DEFINE l == Immediate(info, c)
  <2>0. l \in held /\ l \in Labels \cup {kInitializingLabel}
    BY <1>2, ImmediateHeld DEF Inv, TypeOK
  <2> HIDE DEF l
  <2>1. held' = held /\ Defined' = Defined
    BY <1>2, <2>0 DEF Return, Defined, l
  <2>2. /\ pc' = [pc EXCEPT ![t] = "idle"]
        /\ label' = [label EXCEPT ![t] = l]
        /\ key' = [key EXCEPT ![t] = Blank]
        /\ UNCHANGED <<info, last, bucket, heap, dead, snap>>
    BY <1>2 DEF Return, l
  <2> USE DEF Inv
  <2>3. TypeOK'
    BY <2>0, <2>1, <2>2, BlankInfo DEF TypeOK
  <2>4. HeldInv' /\ BucketInv'
    BY <2>1, <2>2 DEF HeldInv, BucketInv
  <2>5. OwnInv' /\ IdleInv'
    BY <2>0, <2>1, <2>2 DEF OwnInv, IdleInv, Owning, TypeOK
  <2>6. KeyInv'
    BY <2>1, <2>2, BlankInfo, LabelsApart DEF KeyInv, Owning, TypeOK, CONST_LABEL
  <2>7. OperandsFirst' /\ NoLostLabel'
    BY <2>1, <2>2 DEF OperandsFirst, NoLostLabel
  <2>8. ReturnsItsExpression'
    BY <2>2 DEF ReturnsItsExpression, TypeOK
  <2> QED
    BY <2>3, <2>4, <2>5, <2>6, <2>7, <2>8
<1> QED
  BY <1>1, <1>2 DEF CallUnion

\* Every well-formed entry has a bucket.
LEMMA BucketExists ==
    ASSUME NEW k \in Infos
    PROVE  BucketOf(k) \in Buckets
<1>1. k.hash \in Nat /\ NumBuckets \in Nat \ {0}
  BY TableAssumption DEF Infos
<1>2. ASSUME NEW h \in Nat, NEW n \in Nat \ {0} PROVE h % n \in 0 .. n - 1
  OBVIOUS
<1> QED
  BY <1>1, <1>2 DEF BucketOf, Buckets

\* A lookup that misses only moves the thread on; one that hits returns a label
\* that is in the table already.
LEMMA LookupInv ==
    ASSUME Inv, NEW t \in Threads, Lookup(t)
    PROVE  Inv'
<1> USE DEF Inv
<1> DEFINE list == bucket[BucketOf(key[t])]
<1>0. BucketOf(key[t]) \in Buckets
  BY BucketExists DEF TypeOK
<1>1. CASE /\ pc' = [pc EXCEPT ![t] = "alloc"]
           /\ UNCHANGED <<label, held>>
  <2>1. UNCHANGED <<info, last, bucket, heap, dead, key, snap, label, held>>
        /\ pc[t] = "lookup" /\ Defined' = Defined
    BY <1>1 DEF Lookup, At, Defined
  <2>2. TypeOK'
    BY <1>1, <2>1 DEF TypeOK
  <2>3. HeldInv' /\ BucketInv' /\ OperandsFirst' /\ NoLostLabel'
    BY <2>1 DEF HeldInv, BucketInv, OperandsFirst, NoLostLabel
  <2>4. OwnInv' /\ IdleInv' /\ KeyInv'
    BY <1>1, <2>1 DEF OwnInv, IdleInv, KeyInv, Owning, TypeOK
  <2>5. ReturnsItsExpression'
    BY <1>1, <2>1 DEF ReturnsItsExpression, TypeOK
  <2> QED
    BY <2>2, <2>3, <2>4, <2>5
<1>2. ASSUME NEW i \in Matches(list, key[t]), Return(t, list[i])
      PROVE  Inv'
  <2> DEFINE l == list[i]
  <2>0. l \in Defined /\ SameKey(info[l], key[t])
    BY <1>0, <1>2 DEF Matches, BucketInv
  <2>1. l \in held /\ l \in Labels /\ l # kInitializingLabel
    BY <2>0 DEF Defined, TypeOK
  <2>2. /\ pc' = [pc EXCEPT ![t] = "idle"]
        /\ label' = [label EXCEPT ![t] = l]
        /\ held' = held
        /\ UNCHANGED <<info, last, bucket, heap, dead, key, snap>>
        /\ pc[t] = "lookup"
    BY <1>2, <2>1 DEF Return, Lookup, At
  <2> HIDE DEF l
  <2>3. Defined' = Defined
    BY <2>2 DEF Defined
  <2>4. TypeOK'
    BY <2>1, <2>2 DEF TypeOK
  <2>5. HeldInv' /\ BucketInv' /\ OperandsFirst' /\ NoLostLabel'
    BY <2>2, <2>3 DEF HeldInv, BucketInv, OperandsFirst, NoLostLabel
  <2>6. OwnInv' /\ IdleInv' /\ KeyInv'
    BY <2>1, <2>2 DEF OwnInv, IdleInv, KeyInv, Owning, TypeOK
  <2>7. ReturnsItsExpression'
    BY <2>0, <2>2 DEF ReturnsItsExpression, TypeOK
  <2> QED
    BY <2>4, <2>5, <2>6, <2>7
<1> QED
  BY <1>1, <1>2 DEF Lookup, At

\* Taking a label: it is larger than every label in use.
LEMMA AllocInv ==
    ASSUME Inv, NEW t \in Threads, Alloc(t)
    PROVE  Inv'
<1> USE DEF Inv
<1>0. /\ UNCHANGED <<info, bucket, heap, key, snap, held>>
      /\ Defined' = Defined
      /\ last' = last + 1
      /\ last \in Nat
      /\ pc[t] = "alloc"
  BY DEF Alloc, At, Defined, TypeOK
<1>1. HeldInv' /\ BucketInv' /\ OperandsFirst' /\ NoLostLabel'
  <2>0. \A l \in held \ {kInitializingLabel} : l \in Nat
    BY LabelsApart DEF Labels
  <2>1. HeldInv'
    <3>0. \A l \in held \ {kInitializingLabel} : l <= last
      BY DEF HeldInv
    <3>1. \A l \in held \ {kInitializingLabel} : l <= last'
      BY <1>0, <2>0, <3>0
    <3>2. Inputs <= last'
      BY <1>0, TableAssumption DEF HeldInv
    <3> QED
      BY <1>0, <3>1, <3>2 DEF HeldInv
  <2>2. OperandsFirst'
    <3>1. Defined \subseteq held \ {kInitializingLabel}
      BY DEF Defined
    <3> QED
      BY <1>0, <2>0, <3>1 DEF OperandsFirst
  <2> QED
    BY <1>0, <2>1, <2>2 DEF BucketInv, NoLostLabel
<1>2. CASE last + 1 >= alloca_stack_top
  <2>1. UNCHANGED <<pc, label>> /\ dead' = TRUE
    BY <1>2 DEF Alloc, At
  <2>2. TypeOK'
    BY <1>0, <2>1 DEF TypeOK
  <2>3. OwnInv' /\ IdleInv' /\ KeyInv' /\ ReturnsItsExpression'
    <3>1. \A u \in Threads : label[u] \in Nat
      BY TableAssumption DEF TypeOK, Labels
    <3>2. OwnInv'
      BY <1>0, <2>1, <3>1 DEF OwnInv
    <3> QED
      BY <1>0, <2>1, <3>2 DEF IdleInv, KeyInv, ReturnsItsExpression
  <2> QED
    BY <1>1, <2>2, <2>3
<1>3. CASE ~(last + 1 >= alloca_stack_top)
  <2>1. /\ label' = [label EXCEPT ![t] = last + 1]
        /\ pc' = [pc EXCEPT ![t] = "write"]
        /\ dead' = dead
    BY <1>3 DEF Alloc, At
  <2>2. last + 1 \in Labels /\ last + 1 < alloca_stack_top
    BY <1>0, <1>3, TableAssumption DEF Labels
  <2>3. TypeOK'
    BY <1>0, <2>1, <2>2 DEF TypeOK
  <2>4. OwnInv'
    <3> SUFFICES ASSUME NEW u \in Threads, pc'[u] \in Owning
                 PROVE  /\ Inputs < label'[u]
                        /\ label'[u] <= last'
                        /\ label'[u] < alloca_stack_top
                        /\ label'[u] \notin held'
                        /\ \A v \in Threads :
                              pc'[v] \in Owning /\ v # u => label'[v] # label'[u]
      BY DEF OwnInv
    <3>1. last + 1 \notin held /\ Inputs < last + 1
      BY <1>0, <2>2, TableAssumption DEF HeldInv
    <3>2. \A v \in Threads \ {t} : pc'[v] = pc[v] /\ label'[v] = label[v]
      BY <2>1 DEF TypeOK
    <3>3. label'[t] = last + 1
      BY <2>1 DEF TypeOK
    <3>4. \A v \in Threads \ {t} : pc[v] \in Owning => label[v] <= last /\ label[v] \in Nat
      BY TableAssumption DEF OwnInv, TypeOK, Labels
    <3>5. CASE u = t
      BY <3>1, <3>2, <3>3, <3>4, <3>5, <1>0, <2>2
    <3>6. CASE u # t
      BY <3>2, <3>3, <3>4, <3>6, <1>0 DEF OwnInv
    <3> QED
      BY <3>5, <3>6
  <2>5. KeyInv'
    <3>1. key[t].l1 <= last /\ key[t].l2 <= last /\ key[t].l1 \in Nat /\ key[t].l2 \in Nat
      BY DEF KeyInv, HeldInv, TypeOK, Infos, Labels
    <3> QED
      BY <3>1, <1>0, <2>1 DEF KeyInv, Owning, TypeOK
  <2>6. IdleInv' /\ ReturnsItsExpression'
    BY <1>0, <2>1 DEF IdleInv, ReturnsItsExpression, TypeOK
  <2> QED
    BY <1>1, <2>3, <2>4, <2>5, <2>6
<1> QED
  BY <1>2, <1>3

\* Taking an entry and loading the head pointer touch nothing that is shared.
LEMMA EntryInv ==
    ASSUME Inv, NEW t \in Threads, Entry(t) \/ LoadHead(t)
    PROVE  Inv'
<1> USE DEF Inv
<1>0. /\ UNCHANGED <<info, last, bucket, key, label, held>>
      /\ Defined' = Defined
  BY DEF Entry, LoadHead, At, Defined
<1>1. HeldInv' /\ BucketInv' /\ OperandsFirst' /\ NoLostLabel'
  BY <1>0 DEF HeldInv, BucketInv, OperandsFirst, NoLostLabel
<1>2. \A u \in Threads :
         /\ pc'[u] \in Owning <=> pc[u] \in Owning
         /\ pc'[u] = "idle" <=> pc[u] = "idle"
         /\ pc'[u] \in {"entry", "head", "cas"} <=> pc[u] \in {"entry", "head", "cas"}
  BY DEF Entry, LoadHead, At, Owning, TypeOK
<1>3. OwnInv' /\ IdleInv' /\ KeyInv' /\ ReturnsItsExpression'
  BY <1>0, <1>2 DEF OwnInv, IdleInv, KeyInv, ReturnsItsExpression
<1>4. TypeOK'
  <2>1. CASE Entry(t)
    <3>1. heap' \in Nat /\ snap' = snap
      BY <2>1 DEF TypeOK, Entry, At
    <3>2. dead' \in BOOLEAN
      BY <2>1 DEF TypeOK, Entry, At
    <3>3. pc' \in [Threads -> {"idle", "lookup", "alloc", "write", "entry", "head", "cas"}]
      BY <2>1 DEF TypeOK, Entry, At
    <3> QED
      BY <3>1, <3>2, <3>3, <1>0 DEF TypeOK
  <2>2. CASE LoadHead(t)
    BY <2>2, <1>0, BucketExists DEF TypeOK, LoadHead, At
  <2> QED
    BY <2>1, <2>2
<1> QED
  BY <1>1, <1>3, <1>4

\* Filling the slot of an owned label disturbs no label anybody holds; an input
\* byte is handed to the program at once.
LEMMA WriteInv ==
    ASSUME Inv, NEW t \in Threads, Write(t)
    PROVE  Inv'
<1> USE DEF Inv
<1> DEFINE m == label[t]
<1>0. /\ pc[t] = "write" /\ pc[t] \in Owning
      /\ info' = [info EXCEPT ![m] = key[t]]
      /\ UNCHANGED <<last, bucket, heap, dead, key, snap>>
      /\ label' = label
      /\ label[t] \in Labels
  <2>1. label[t] \in Labels
    BY TableAssumption DEF Write, At, OwnInv, Owning, TypeOK, Labels
  <2> QED
    BY <2>1 DEF Write, At, Return, Owning, TypeOK
<1>1. /\ m \notin held /\ Inputs < m /\ m <= last /\ m < alloca_stack_top
      /\ m # kInitializingLabel
      /\ key[t].l1 < m /\ key[t].l2 < m
      /\ {key[t].l1, key[t].l2} \subseteq held \ {kInitializingLabel}
      /\ \A u \in Threads \ {t} : pc[u] \in Owning => label[u] # m
  BY <1>0 DEF OwnInv, KeyInv, HeldInv
<1>2. /\ \A l \in Labels \ {m} : info'[l] = info[l]
      /\ info'[m] = key[t]
  BY <1>0 DEF TypeOK
<1>3. held \ {kInitializingLabel} \subseteq Labels \ {m}
  BY <1>1, LabelsApart
<1>4. Defined \subseteq held \ {kInitializingLabel}
  BY DEF Defined
<1>5. info' \in [Labels -> Infos]
  BY <1>0 DEF TypeOK
<1>6. CASE IsInput(key[t])
  <2>1. /\ pc' = [pc EXCEPT ![t] = "idle"]
        /\ held' = held \cup {m}
    BY <1>0, <1>6 DEF Write, At, Return
  <2>2. Defined' = Defined \cup {m}
    BY <2>1, <1>1, TableAssumption, <1>0 DEF Defined, Labels
  <2>3. TypeOK'
    BY <1>0, <1>5, <2>1 DEF TypeOK
  <2>4. HeldInv'
    BY <1>0, <1>1, <1>2, <1>3, <2>1 DEF HeldInv
  <2>5. OwnInv' /\ IdleInv'
    BY <1>0, <1>1, <2>1 DEF OwnInv, IdleInv, Owning, TypeOK
  <2>6. KeyInv'
    <3> SUFFICES ASSUME NEW u \in Threads
                 PROVE  /\ {key'[u].l1, key'[u].l2} \subseteq held' \ {kInitializingLabel}
                        /\ pc'[u] \in Owning => key'[u].l1 < label'[u] /\ key'[u].l2 < label'[u]
                        /\ pc'[u] \in {"entry", "head", "cas"} => info'[label'[u]] = key'[u]
      BY DEF KeyInv
    <3>1. CASE u = t
      BY <3>1, <1>0, <1>1, <2>1 DEF Owning, TypeOK
    <3>2. CASE u # t /\ pc[u] \in Owning
      <4>1. label[u] # m /\ label[u] \in Labels
        BY <3>2, <1>1, TableAssumption DEF OwnInv, TypeOK, Labels
      <4> QED
        BY <3>2, <4>1, <1>0, <1>2, <2>1 DEF KeyInv, TypeOK
    <3>3. CASE u # t /\ pc[u] \notin Owning
      BY <3>3, <1>0, <2>1 DEF KeyInv, Owning, TypeOK
    <3> QED
      BY <3>1, <3>2, <3>3
  <2>7. BucketInv'
    BY <1>0, <2>2 DEF BucketInv
  <2>8. OperandsFirst'
    BY <1>0, <1>1, <1>2, <1>3, <1>4, <2>1, <2>2 DEF OperandsFirst
  <2>9. NoLostLabel'
    BY <1>0, <1>2, <1>3, <1>4, <1>6, <2>2 DEF NoLostLabel
  <2>10. ReturnsItsExpression'
    <3> SUFFICES ASSUME NEW u \in Threads, pc'[u] = "idle", key'[u] # Blank
                 PROVE  SameKey(info'[label'[u]], key'[u])
      BY DEF ReturnsItsExpression
    <3>1. CASE u = t
      BY <3>1, <1>0, <1>2 DEF SameKey
    <3>2. CASE u # t
      <4>1. pc[u] = "idle" /\ label[u] \in held /\ SameKey(info[label[u]], key[u])
        BY <3>2, <1>0, <2>1 DEF IdleInv, ReturnsItsExpression, TypeOK
      <4>2. label[u] \in Labels \ {m}
        BY <3>2, <4>1, <1>0, <1>3 DEF IdleInv
      <4> QED
        BY <4>1, <4>2, <1>0, <1>2
    <3> QED
      BY <3>1, <3>2
  <2> QED
    BY <2>3, <2>4, <2>5, <2>6, <2>7, <2>8, <2>9, <2>10
<1>7. CASE ~IsInput(key[t])
  <2>1. /\ pc' = [pc EXCEPT ![t] = "entry"]
        /\ held' = held
        /\ Defined' = Defined
    BY <1>0, <1>7 DEF Write, At, Defined
  <2>2. TypeOK'
    BY <1>0, <1>5, <2>1 DEF TypeOK
  <2>3. HeldInv' /\ OperandsFirst' /\ BucketInv'
    BY <1>0, <1>2, <1>3, <1>4, <2>1 DEF HeldInv, OperandsFirst, BucketInv
  <2>4. NoLostLabel'
    BY <1>0, <1>2, <1>3, <1>4, <2>1 DEF NoLostLabel
  <2>5. OwnInv' /\ IdleInv'
    BY <1>0, <1>1, <2>1 DEF OwnInv, IdleInv, Owning, TypeOK
  <2>6. KeyInv'
    <3> SUFFICES ASSUME NEW u \in Threads
                 PROVE  /\ {key'[u].l1, key'[u].l2} \subseteq held' \ {kInitializingLabel}
                        /\ pc'[u] \in Owning => key'[u].l1 < label'[u] /\ key'[u].l2 < label'[u]
                        /\ pc'[u] \in {"entry", "head", "cas"} => info'[label'[u]] = key'[u]
      BY DEF KeyInv
    <3>1. CASE u = t
      BY <3>1, <1>0, <1>1, <1>2, <2>1 DEF Owning, TypeOK
    <3>2. CASE u # t /\ pc[u] \in Owning
      <4>1. label[u] # m /\ label[u] \in Labels
        BY <3>2, <1>1, TableAssumption DEF OwnInv, TypeOK, Labels
      <4> QED
        BY <3>2, <4>1, <1>0, <1>2, <2>1 DEF KeyInv, TypeOK
    <3>3. CASE u # t /\ pc[u] \notin Owning
      BY <3>3, <1>0, <2>1 DEF KeyInv, Owning, TypeOK
    <3> QED
      BY <3>1, <3>2, <3>3
  <2>7. ReturnsItsExpression'
    <3> SUFFICES ASSUME NEW u \in Threads, pc'[u] = "idle", key'[u] # Blank
                 PROVE  SameKey(info'[label'[u]], key'[u])
      BY DEF ReturnsItsExpression
    <3>1. u # t /\ pc[u] = "idle" /\ SameKey(info[label[u]], key[u])
      BY <1>0, <2>1 DEF ReturnsItsExpression, TypeOK
    <3>2. label[u] \in Labels \ {m}
      BY <3>1, <1>0, <1>3 DEF IdleInv
    <3> QED
      BY <3>1, <3>2, <1>0, <1>2
  <2> QED
    BY <2>2, <2>3, <2>4, <2>5, <2>6, <2>7
<1> QED
  BY <1>6, <1>7

\* A successful compare-and-swap puts the label in front of exactly the list
\* that was there, so nobody's insertion is dropped; a failed one changes only
\* what the thread has read.
LEMMA CasInv ==
    ASSUME Inv, NEW t \in Threads, Cas(t)
    PROVE  Inv'
<1> USE DEF Inv
<1> DEFINE m == label[t]
           b == BucketOf(key[t])
<1>0. /\ pc[t] = "cas" /\ pc[t] \in Owning
      /\ UNCHANGED <<info, last, heap, dead, key>>
      /\ b \in Buckets
      /\ label' = label
  BY BucketExists DEF Cas, At, Return, Owning, TypeOK
<1>1. CASE bucket[b] # snap[t]
  <2>1. /\ snap' = [snap EXCEPT ![t] = bucket[b]]
        /\ UNCHANGED <<bucket, pc, held>>
        /\ Defined' = Defined
    BY <1>1 DEF Cas, At, Defined
  <2>2. TypeOK'
    BY <1>0, <2>1 DEF TypeOK
  <2>3. HeldInv' /\ OwnInv' /\ KeyInv' /\ BucketInv' /\ IdleInv'
    BY <1>0, <2>1 DEF HeldInv, OwnInv, KeyInv, BucketInv, IdleInv
  <2>4. OperandsFirst' /\ NoLostLabel' /\ ReturnsItsExpression'
    BY <1>0, <2>1 DEF OperandsFirst, NoLostLabel, ReturnsItsExpression
  <2> QED
    BY <2>2, <2>3, <2>4
<1>2. CASE bucket[b] = snap[t]
  <2>1. /\ bucket' = [bucket EXCEPT ![b] = <<m>> \o bucket[b]]
        /\ pc' = [pc EXCEPT ![t] = "idle"]
        /\ held' = held \cup {m}
        /\ snap' = [snap EXCEPT ![t] = <<>>]
    BY <1>2 DEF Cas, At, Return
  <2>2. /\ m \notin held /\ Inputs < m /\ m <= last /\ m < alloca_stack_top
        /\ m # kInitializingLabel
        /\ m \in Labels
        /\ key[t].l1 < m /\ key[t].l2 < m
        /\ {key[t].l1, key[t].l2} \subseteq held \ {kInitializingLabel}
        /\ \A u \in Threads \ {t} : pc[u] \in Owning => label[u] # m
        /\ info[m] = key[t]
    BY <1>0, TableAssumption DEF OwnInv, KeyInv, HeldInv, TypeOK, Labels
  <2>3. Defined' = Defined \cup {m}
    BY <2>1, <2>2, TableAssumption DEF Defined, Labels
  <2>4. bucket[b] \in Seq(Labels)
    BY <1>0 DEF TypeOK
  <2>5. /\ <<m>> \o bucket[b] \in Seq(Labels)
        /\ \A i \in DOMAIN bucket[b] : /\ i + 1 \in DOMAIN (<<m>> \o bucket[b])
                                       /\ (<<m>> \o bucket[b])[i + 1] = bucket[b][i]
        /\ 1 \in DOMAIN (<<m>> \o bucket[b]) /\ (<<m>> \o bucket[b])[1] = m
        /\ \A i \in DOMAIN (<<m>> \o bucket[b]) :
              \/ (<<m>> \o bucket[b])[i] = m
              \/ i - 1 \in DOMAIN bucket[b] /\ (<<m>> \o bucket[b])[i] = bucket[b][i - 1]
    BY <2>2, <2>4
  <2> DEFINE new == <<m>> \o bucket[b]
  <2> HIDE DEF new
  <2>6. /\ bucket'[b] = new
        /\ \A a \in Buckets \ {b} : bucket'[a] = bucket[a]
        /\ bucket' \in [Buckets -> Seq(Labels)]
    BY <1>0, <2>1, <2>5 DEF TypeOK, new
  <2>7. TypeOK'
    <3>1. /\ pc' \in [Threads -> {"idle", "lookup", "alloc", "write", "entry", "head", "cas"}]
          /\ snap' \in [Threads -> Seq(Labels)]
          /\ held' \subseteq Labels \cup {kInitializingLabel}
      BY <2>1, <2>2 DEF TypeOK
    <3> QED
      BY <1>0, <2>6, <3>1 DEF TypeOK
  <2>8. HeldInv' /\ OperandsFirst'
    BY <1>0, <2>1, <2>2, <2>3 DEF HeldInv, OperandsFirst
  <2>9. OwnInv' /\ IdleInv' /\ KeyInv'
    BY <1>0, <2>1, <2>2 DEF OwnInv, IdleInv, KeyInv, Owning, TypeOK
  <2>10. BucketInv'
    <3> SUFFICES ASSUME NEW a \in Buckets, NEW i \in DOMAIN bucket'[a]
                 PROVE  bucket'[a][i] \in Defined \cup {m}
      BY <2>3 DEF BucketInv
    <3>1. CASE a = b
      BY <3>1, <1>0, <2>5, <2>6 DEF BucketInv, new
    <3>2. CASE a # b
      BY <3>2, <2>6 DEF BucketInv
    <3> QED
      BY <3>1, <3>2
  <2>11. NoLostLabel'
    <3> SUFFICES ASSUME NEW l \in Defined \cup {m}, ~IsInput(info[l])
                 PROVE  \E i \in DOMAIN bucket'[BucketOf(info[l])] :
                            bucket'[BucketOf(info[l])][i] = l
      BY <1>0, <2>3 DEF NoLostLabel
    <3>1. CASE l = m
      BY <3>1, <2>2, <2>5, <2>6 DEF new
    <3>2. CASE l \in Defined
      <4>1. info[l] \in Infos
        BY <3>2, LabelsApart DEF Defined, TypeOK
      <4>2. PICK i \in DOMAIN bucket[BucketOf(info[l])] : bucket[BucketOf(info[l])][i] = l
        BY <3>2 DEF NoLostLabel
      <4>3. CASE BucketOf(info[l]) = b
        <5>1. i \in DOMAIN bucket[b] /\ bucket[b][i] = l
          BY <4>2, <4>3
        <5>2. i + 1 \in DOMAIN bucket'[b] /\ bucket'[b][i + 1] = l
          BY <5>1, <2>5, <2>6 DEF new
        <5> QED
          BY <5>2, <4>3
      <4>4. CASE BucketOf(info[l]) # b
        BY <4>1, <4>2, <4>4, <2>6, BucketExists
      <4> QED
        BY <4>3, <4>4
    <3> QED
      BY <3>1, <3>2
  <2>12. ReturnsItsExpression'
    BY <1>0, <2>1, <2>2 DEF ReturnsItsExpression, SameKey, TypeOK
  <2> QED
    BY <2>7, <2>8, <2>9, <2>10, <2>11, <2>12
<1> QED
  BY <1>1, <1>2

LEMMA StepInv == Inv /\ [Next]_vars => Inv'
<1> SUFFICES ASSUME Inv, [Next]_vars PROVE Inv'
  OBVIOUS
<1>1. CASE UNCHANGED vars
  BY <1>1 DEF vars, Inv, TypeOK, HeldInv, OwnInv, KeyInv, BucketInv, IdleInv, Defined,
              OperandsFirst, NoLostLabel, ReturnsItsExpression
<1>2. CASE \E t \in Threads, c \in UnionCalls : CallUnion(t, c)
  BY <1>2, CallInv
<1>3. CASE \E t \in Threads, addr \in Globals : CallGlobal(t, addr)
  BY <1>3, EnterInv, BlankInfo, LabelsApart, TableAssumption DEF CallGlobal, CONST_LABEL, Inv
<1>4. CASE \E t \in Threads, offset \in Stdin : CallCreate(t, offset)
  BY <1>4, EnterInv, BlankInfo, LabelsApart, TableAssumption DEF CallCreate, CONST_LABEL, Inv
<1>5. CASE \E t \in Threads : Step(t)
  BY <1>5, LookupInv, AllocInv, WriteInv, EntryInv, CasInv DEF Step
<1> QED
  BY <1>1, <1>2, <1>3, <1>4, <1>5 DEF Next, Exited

\* The inductive invariant holds in every reachable state of the table.
THEOREM Invariance == Spec => []Inv
BY InitInv, StepInv, PTL DEF Spec

\* Type correctness of the concurrent union table.
THEOREM TypeCorrect == Spec => []TypeOK
BY Invariance, PTL DEF Inv

\* However many threads race in __taint_union, a label's operands are smaller
\* labels that the program holds.
THEOREM OperandsComeFirst == Spec => []OperandsFirst
BY Invariance, PTL DEF Inv

\* However many threads race in union_hashtable::insert, no label is lost.
THEOREM InsertionsKept == Spec => []NoLostLabel
BY Invariance, PTL DEF Inv

\* Every call of __taint_union returns a label for its own expression.
THEOREM ResultsCorrect == Spec => []ReturnsItsExpression
BY Invariance, PTL DEF Inv

\* A step writes no slot of a label that the program holds.
LEMMA HeldSlotsStep ==
    ASSUME Inv, [Next]_vars
    PROVE  \A l \in held \ {kInitializingLabel} : info'[l] = info[l]
<1> DEFINE Stable == \A l \in held \ {kInitializingLabel} : info'[l] = info[l]
<1>1. ASSUME NEW t \in Threads, Write(t) PROVE Stable
  <2>1. info' = [info EXCEPT ![label[t]] = key[t]] /\ label[t] \notin held
    BY <1>1 DEF Write, At, Inv, OwnInv, Owning
  <2> QED
    BY <2>1, LabelsApart DEF Inv, TypeOK
<1>2. CASE info' = info
  BY <1>2
<1> QED
  BY <1>1, <1>2 DEF Next, Exited, vars, Step, CallUnion, CallGlobal, CallCreate, Enter,
                    Lookup, Alloc, Entry, LoadHead, Cas

\* No step of any thread rewrites the slot of a label the program holds: the
\* memcpy of __taint_union goes to a slot its thread alone knows.
THEOREM SlotsNeverChange == Spec => SlotsStable
BY HeldSlotsStep, Invariance, PTL DEF Spec, SlotsStable

-----------------------------------------------------------------------------
(* The table implements the abstract store of names (LabelStore): the initial states map
   to initial states, and every step of a thread maps to a step of the store or to a
   stutter. *)

\* The mapping of Store, written out.
namesBar == [l \in Defined |-> info[l]]
askedBar == [t \in Threads |-> IF pc[t] = "idle" THEN NoExpr ELSE key[t]]
answerBar == [t \in Threads |-> IF pc[t] = "idle" THEN label[t] ELSE CONST_LABEL]

\* What the program holds is what the store knows.
LEMMA KnownIsHeld ==
    ASSUME Inv
    PROVE  ((0 .. Inputs) \cup {kInitializingLabel}) \cup Defined = held
BY DEF Inv, HeldInv, Defined

\* An entry is an expression.
LEMMA KeysAreExpressions ==
    ASSUME Inv, NEW t \in Threads
    PROVE  key[t] \in Infos /\ key[t] # NoExpr
<1>1. key[t] \in Infos
  BY DEF Inv, TypeOK
<1>2. "none" \notin ValidOps \cup {RawOp}
  BY DEF ValidOps, ICmpOps, RawOp
<1>3. NoExpr.op = "none"
  BY DEF NoExpr, Blank
<1> QED
  BY <1>1, <1>2, <1>3 DEF Infos

\* The table starts as an empty store.
LEMMA InitMaps == Init => Store!Init
<1> SUFFICES ASSUME Init PROVE Store!Init
  OBVIOUS
<1>1. Defined = {}
  BY TableAssumption DEF Init, Defined
<1>2. namesBar = [l \in {} |-> NoExpr]
  BY <1>1 DEF namesBar
<1>3. askedBar = [t \in Threads |-> NoExpr]
  BY DEF askedBar, Init
<1>4. answerBar \in [Threads -> ((0 .. Inputs) \cup {kInitializingLabel}) \cup DOMAIN namesBar]
  BY TableAssumption DEF answerBar, Init, CONST_LABEL
<1> QED
  BY <1>2, <1>3, <1>4 DEF Store!Init, Store!Known, namesBar, askedBar, answerBar

\* A step that leaves the names, the requests and the answers alone is a stutter.
LEMMA Stutters ==
    ASSUME namesBar' = namesBar, askedBar' = askedBar, answerBar' = answerBar
    PROVE  UNCHANGED Store!vars
BY DEF Store!vars, namesBar, askedBar, answerBar

\* Slots of labels that are not handed out are not seen.
LEMMA NamesKept ==
    ASSUME Defined' = Defined, \A l \in Defined : info'[l] = info[l]
    PROVE  namesBar' = namesBar
BY DEF namesBar

\* A call that has to look its expression up asks for it.
LEMMA EnterMaps ==
    ASSUME Inv, NEW t \in Threads, NEW k \in Infos, NEW p \in {"lookup", "alloc"},
           Enter(t, p, k)
    PROVE  Store!Ask(t)
<1> USE DEF Inv
<1>1. namesBar' = namesBar
  <2>1. Defined' = Defined /\ info' = info
    BY DEF Enter, At, Defined
  <2> QED
    BY <2>1, NamesKept
<1>2. askedBar[t] = NoExpr
  BY DEF askedBar, Enter, At
<1>3. askedBar'[t] \in Infos
  BY DEF askedBar, Enter, At, TypeOK
<1>4. askedBar' = [askedBar EXCEPT ![t] = askedBar'[t]]
  BY DEF askedBar, Enter, At, TypeOK
<1>5. answerBar' = [answerBar EXCEPT ![t] = answerBar'[t]]
  BY DEF answerBar, Enter, At, TypeOK
<1> QED
  BY <1>1, <1>2, <1>3, <1>4, <1>5 DEF Store!Ask, namesBar, askedBar, answerBar

\* A call that is answered at once needs no name.
LEMMA CallMaps ==
    ASSUME Inv, NEW t \in Threads, NEW c \in UnionCalls, CallUnion(t, c)
    PROVE  Store!Ask(t) \/ Store!Simplify(t)
<1> USE DEF Inv
<1>1. CASE Immediate(info, c) = NoLabel /\ Enter(t, "lookup", KeyOf(info, c))
  BY <1>1, EnterMaps, KeyOfCall
<1>2. CASE /\ Immediate(info, c) # NoLabel
           /\ At(t, "idle")
           /\ key' = [key EXCEPT ![t] = Blank]
           /\ Return(t, Immediate(info, c))
           /\ UNCHANGED <<info, last, bucket, heap, dead, snap>>
  <2> DEFINE l == Immediate(info, c)
  <2>1. l \in held
    BY <1>2, ImmediateHeld
  <2> HIDE DEF l
  <2>2. /\ pc[t] = "idle"
        /\ pc' = [pc EXCEPT ![t] = "idle"]
        /\ label' = [label EXCEPT ![t] = l]
        /\ key' = [key EXCEPT ![t] = Blank]
        /\ held' = held
        /\ info' = info
    BY <1>2, <2>1 DEF Return, At, l
  <2>3. namesBar' = namesBar
    <3>1. Defined' = Defined
      BY <2>2 DEF Defined
    <3> QED
      BY <3>1, <2>2, NamesKept
  <2>4. askedBar[t] = NoExpr /\ askedBar' = askedBar
    BY <2>2 DEF askedBar, TypeOK
  <2>5. /\ answerBar'[t] = l
        /\ answerBar' = [answerBar EXCEPT ![t] = answerBar'[t]]
    BY <2>2 DEF answerBar, TypeOK
  <2>6. l \in ((0 .. Inputs) \cup {kInitializingLabel}) \cup DOMAIN namesBar
    BY <2>1, KnownIsHeld DEF namesBar
  <2> QED
    BY <2>3, <2>4, <2>5, <2>6
    DEF Store!Simplify, Store!Known, namesBar, askedBar, answerBar
<1> QED
  BY <1>1, <1>2 DEF CallUnion

\* What a step does to requests and answers when a call returns label l.
LEMMA ReturnMaps ==
    ASSUME Inv, NEW t \in Threads, NEW l \in Labels,
           pc[t] # "idle",
           pc' = [pc EXCEPT ![t] = "idle"],
           label' = [label EXCEPT ![t] = l],
           key' = key
    PROVE  /\ askedBar[t] = key[t]
           /\ askedBar[t] # NoExpr
           /\ askedBar' = [askedBar EXCEPT ![t] = NoExpr]
           /\ answerBar' = [answerBar EXCEPT ![t] = l]
<1>1. askedBar[t] = key[t] /\ askedBar[t] # NoExpr
  BY KeysAreExpressions DEF askedBar
<1>2. askedBar' = [askedBar EXCEPT ![t] = NoExpr]
  BY DEF askedBar, Inv, TypeOK
<1>3. answerBar' = [answerBar EXCEPT ![t] = l]
  BY DEF answerBar, Inv, TypeOK
<1> QED
  BY <1>1, <1>2, <1>3

\* While a call goes on, requests and answers stay as they are.
LEMMA InsideMaps ==
    ASSUME Inv, NEW t \in Threads, NEW p,
           pc[t] # "idle", p # "idle",
           pc' = [pc EXCEPT ![t] = p],
           \A u \in Threads \ {t} : label'[u] = label[u],
           key' = key
    PROVE  askedBar' = askedBar /\ answerBar' = answerBar
BY DEF askedBar, answerBar, Inv, TypeOK

\* A call that finds its expression reuses the name.
LEMMA LookupMaps ==
    ASSUME Inv, NEW t \in Threads, Lookup(t)
    PROVE  Store!Reuse(t) \/ UNCHANGED Store!vars
<1> USE DEF Inv
<1> DEFINE list == bucket[BucketOf(key[t])]
<1>0. BucketOf(key[t]) \in Buckets
  BY BucketExists DEF TypeOK
<1>1. CASE /\ pc' = [pc EXCEPT ![t] = "alloc"]
           /\ UNCHANGED <<label, held>>
  <2>1. Defined' = Defined /\ info' = info /\ key' = key /\ pc[t] # "idle" /\ label' = label
    BY <1>1 DEF Lookup, At, Defined
  <2>2. namesBar' = namesBar
    BY <2>1, NamesKept
  <2>3. askedBar' = askedBar /\ answerBar' = answerBar
    BY <1>1, <2>1, InsideMaps
  <2> QED
    BY <2>2, <2>3, Stutters
<1>2. ASSUME NEW i \in Matches(list, key[t]), Return(t, list[i])
      PROVE  Store!Reuse(t)
  <2> DEFINE l == list[i]
  <2>1. i \in DOMAIN list /\ SameKey(info[l], key[t])
    BY <1>2 DEF Matches
  <2>2. l \in Defined /\ l \in held /\ l \in Labels
    BY <2>1, <1>0, LabelsApart DEF BucketInv, Defined
  <2> HIDE DEF l
  <2>3. /\ pc[t] # "idle"
        /\ pc' = [pc EXCEPT ![t] = "idle"]
        /\ label' = [label EXCEPT ![t] = l]
        /\ key' = key
        /\ info' = info
        /\ held' = held
    BY <1>2, <2>2 DEF Lookup, At, Return, l
  <2>4. namesBar' = namesBar
    <3>1. Defined' = Defined
      BY <2>3 DEF Defined
    <3> QED
      BY <3>1, <2>3, NamesKept
  <2>5. l \in DOMAIN namesBar /\ namesBar[l] = info[l]
    BY <2>2 DEF namesBar
  <2>6. /\ askedBar[t] = key[t]
        /\ askedBar[t] # NoExpr
        /\ askedBar' = [askedBar EXCEPT ![t] = NoExpr]
        /\ answerBar' = [answerBar EXCEPT ![t] = l]
    BY <2>2, <2>3, ReturnMaps
  <2>7. SameKey(namesBar[l], askedBar[t])
    BY <2>1, <2>5, <2>6 DEF l
  <2>8. \E m \in DOMAIN namesBar : /\ SameKey(namesBar[m], askedBar[t])
                                    /\ askedBar[t] # NoExpr
                                    /\ answerBar' = [answerBar EXCEPT ![t] = m]
                                    /\ askedBar' = [askedBar EXCEPT ![t] = NoExpr]
                                    /\ UNCHANGED namesBar
    BY <2>4, <2>5, <2>6, <2>7
  <2> QED
    BY <2>8, Zenon DEF Store!Reuse, Store!Answer, namesBar, askedBar, answerBar
<1> QED
  BY <1>1, <1>2 DEF Lookup

\* A label that is handed out names the expression of its thread.
LEMMA PublishMaps ==
    ASSUME Inv, NEW t \in Threads, pc[t] \in Owning,
           pc' = [pc EXCEPT ![t] = "idle"],
           label' = label,
           key' = key,
           held' = held \cup {label[t]},
           \A l \in Defined : info'[l] = info[l],
           info'[label[t]] = key[t]
    PROVE  Store!Name(t)
<1> USE DEF Inv
<1> DEFINE l == label[t]
<1>1. /\ l \notin held /\ l \in Labels
      /\ l \notin (0 .. Inputs) \cup {kInitializingLabel}
  BY TableAssumption DEF OwnInv, HeldInv, TypeOK, Labels
<1>2. label' = [label EXCEPT ![t] = l]
  BY DEF TypeOK
<1> HIDE DEF l
<1>3. Defined' = Defined \cup {l} /\ l \notin Defined
  BY <1>1 DEF Defined, l
<1>4. /\ askedBar[t] = key[t]
      /\ askedBar[t] # NoExpr
      /\ askedBar' = [askedBar EXCEPT ![t] = NoExpr]
      /\ answerBar' = [answerBar EXCEPT ![t] = l]
  <2>1. pc[t] # "idle"
    BY DEF Owning
  <2> QED
    BY <2>1, <1>1, <1>2, ReturnMaps
<1>5. DOMAIN namesBar = Defined /\ DOMAIN namesBar' = Defined \cup {l}
  BY <1>3 DEF namesBar
<1>6. namesBar' = [m \in DOMAIN namesBar \cup {l} |->
                     IF m = l THEN askedBar[t] ELSE namesBar[m]]
  BY <1>3, <1>4 DEF namesBar, l
<1>7. l \in DOMAIN namesBar'
      /\ l \notin ((0 .. Inputs) \cup {kInitializingLabel}) \cup DOMAIN namesBar
  BY <1>1, <1>3, <1>5
<1> DEFINE known == ((0 .. Inputs) \cup {kInitializingLabel}) \cup DOMAIN namesBar
<1>8. \E m \in DOMAIN namesBar' \ known :
         /\ DOMAIN namesBar' = DOMAIN namesBar \cup {m}
         /\ namesBar' = [n \in DOMAIN namesBar \cup {m} |->
                            IF n = m THEN askedBar[t] ELSE namesBar[n]]
         /\ askedBar[t] # NoExpr
         /\ answerBar' = [answerBar EXCEPT ![t] = m]
         /\ askedBar' = [askedBar EXCEPT ![t] = NoExpr]
  BY <1>4, <1>5, <1>6, <1>7
<1> QED
  BY <1>8, Zenon DEF Store!Name, Store!Answer, Store!Known, namesBar, askedBar, answerBar

\* Filling a slot is not seen, unless it is the slot of an input byte.
LEMMA WriteMaps ==
    ASSUME Inv, NEW t \in Threads, Write(t)
    PROVE  Store!Name(t) \/ UNCHANGED Store!vars
<1> USE DEF Inv
<1>1. /\ pc[t] = "write" /\ pc[t] \in Owning
      /\ label[t] \in Labels /\ label[t] \notin held
      /\ label' = label /\ key' = key
      /\ info' = [info EXCEPT ![label[t]] = key[t]]
  BY TableAssumption DEF Write, At, Return, Owning, OwnInv, TypeOK, Labels
<1>2. /\ \A l \in Defined : info'[l] = info[l]
      /\ info'[label[t]] = key[t]
  BY <1>1, LabelsApart DEF TypeOK, Defined
<1>3. CASE IsInput(key[t])
  <2>1. pc' = [pc EXCEPT ![t] = "idle"] /\ held' = held \cup {label[t]}
    BY <1>3 DEF Write, At, Return
  <2> QED
    BY <1>1, <1>2, <2>1, PublishMaps
<1>4. CASE ~IsInput(key[t])
  <2>1. pc' = [pc EXCEPT ![t] = "entry"] /\ Defined' = Defined
    BY <1>4 DEF Write, At, Defined
  <2>2. namesBar' = namesBar
    BY <1>2, <2>1, NamesKept
  <2>3. askedBar' = askedBar /\ answerBar' = answerBar
    BY <1>1, <2>1, InsideMaps
  <2> QED
    BY <2>2, <2>3, Stutters
<1> QED
  BY <1>3, <1>4

\* The successful compare-and-swap is the step at which the name is given.
LEMMA CasMaps ==
    ASSUME Inv, NEW t \in Threads, Cas(t)
    PROVE  Store!Name(t) \/ UNCHANGED Store!vars
<1> USE DEF Inv
<1>1. /\ pc[t] = "cas" /\ pc[t] \in Owning
      /\ info' = info /\ key' = key /\ label' = label
      /\ info[label[t]] = key[t]
  BY DEF Cas, At, Return, Owning, KeyInv, TypeOK
<1>2. CASE bucket[BucketOf(key[t])] = snap[t]
  <2>1. pc' = [pc EXCEPT ![t] = "idle"] /\ held' = held \cup {label[t]}
    BY <1>2 DEF Cas, At, Return
  <2> QED
    BY <1>1, <2>1, PublishMaps
<1>3. CASE bucket[BucketOf(key[t])] # snap[t]
  <2>1. Defined' = Defined /\ pc' = pc
    BY <1>3 DEF Cas, At, Defined
  <2>2. namesBar' = namesBar
    BY <1>1, <2>1, NamesKept
  <2>3. askedBar' = askedBar /\ answerBar' = answerBar
    BY <1>1, <2>1 DEF askedBar, answerBar
  <2> QED
    BY <2>2, <2>3, Stutters
<1> QED
  BY <1>2, <1>3

\* The steps in between are not seen.
LEMMA PrivateMaps ==
    ASSUME Inv, NEW t \in Threads, Alloc(t) \/ Entry(t) \/ LoadHead(t)
    PROVE  UNCHANGED Store!vars
<1> USE DEF Inv
<1>1. /\ Defined' = Defined /\ info' = info /\ key' = key
      /\ pc[t] # "idle"
      /\ \A u \in Threads \ {t} : label'[u] = label[u]
  BY DEF Alloc, Entry, LoadHead, At, Defined, TypeOK
<1>2. \E p : p # "idle" /\ pc' = [pc EXCEPT ![t] = p]
  <2>1. pc = [pc EXCEPT ![t] = pc[t]]
    BY DEF TypeOK
  <2> QED
    BY <1>1, <2>1 DEF Alloc, Entry, LoadHead, At
<1>3. namesBar' = namesBar
  BY <1>1, NamesKept
<1>4. askedBar' = askedBar /\ answerBar' = answerBar
  BY <1>1, <1>2, InsideMaps
<1> QED
  BY <1>3, <1>4, Stutters

LEMMA StepMaps == Inv /\ [Next]_vars => [Store!Next]_(Store!vars)
<1> SUFFICES ASSUME Inv, [Next]_vars PROVE Store!Next \/ UNCHANGED Store!vars
  OBVIOUS
<1>1. CASE UNCHANGED vars
  BY <1>1, Stutters DEF vars, namesBar, askedBar, answerBar, Defined
<1>2. ASSUME NEW t \in Threads, NEW c \in UnionCalls, CallUnion(t, c)
      PROVE  Store!Next
  BY <1>2, CallMaps DEF Store!Next
<1>3. ASSUME NEW t \in Threads, NEW addr \in Globals, CallGlobal(t, addr)
      PROVE  Store!Next
  BY <1>3, EnterMaps, BlankInfo, TableAssumption DEF CallGlobal, Store!Next
<1>4. ASSUME NEW t \in Threads, NEW offset \in Stdin, CallCreate(t, offset)
      PROVE  Store!Next
  BY <1>4, EnterMaps, BlankInfo, TableAssumption DEF CallCreate, Store!Next
<1>5. ASSUME NEW t \in Threads, Step(t)
      PROVE  Store!Next \/ UNCHANGED Store!vars
  BY <1>5, LookupMaps, WriteMaps, CasMaps, PrivateMaps DEF Step, Store!Next
<1> QED
  BY <1>1, <1>2, <1>3, <1>4, <1>5 DEF Next, Exited

\* The lock-free table of union_hashtable and __taint_union implements the atomic
\* store of names, for any number of threads, labels and buckets and any hash.
THEOREM Refinement == Spec => ImplementsStore
BY InitMaps, StepMaps, Invariance, PTL DEF Spec, ImplementsStore, Store!Spec

-----------------------------------------------------------------------------
(* How often an expression can be in the table.  A thread adds one only after a lookup
   that did not find it; once one copy is in the table no lookup misses it any more,
   so that the copies there are and the threads that are about to add one are together
   never more than the threads. *)

\* Positions of a thread between a lookup that missed and the end of its call.
Adding == {"alloc"} \cup Owning

\* The labels of expression k that the program holds.
Copies(k) == {l \in Defined : SameKey(info[l], k)}

\* The threads that are about to add k.
Makers(k) == {t \in Threads : pc[t] \in Adding /\ SameKey(key[t], k)}

\* The hash of an entry, computed again from its other fields.
Mix(a, b, code) == XXHash[a, b, code]

HashOfLabel(slots, l) == IF l = CONST_LABEL THEN 0 ELSE slots[l].hash

HashOf(slots, k) ==
    IF k.op = "Alloca" /\ k.op1 \in Globals
    THEN Mix(k.op1, 0, <<RawOp, AllocaCode>>)
    ELSE Mix(HashOfLabel(slots, k.l1), HashOfLabel(slots, k.l2), <<k.op, k.size>>)

\* Entries with the same key have the same hash, hence the same bucket.
HashInv ==
    /\ \A t \in Threads : ~IsInput(key[t]) => key[t].hash = HashOf(info, key[t])
    /\ \A l \in Defined : ~IsInput(info[l]) => info[l].hash = HashOf(info, info[l])

CountInv ==
    \A k \in Infos : ~IsInput(k) =>
        Cardinality(Copies(k)) + Cardinality(Makers(k)) <= Cardinality(Threads)

\* Bounds that are made by __taint_union (of heap objects) are not at the address of
\* a global.
GlobalsApart == "Alloca" \in Ops => Globals \cap Values = {}

-----------------------------------------------------------------------------
(* Hashes. *)

\* Entries with the same key have the same hash.
LEMMA SameHash ==
    ASSUME NEW a, NEW b, SameKey(a, b)
    PROVE  HashOf(info, a) = HashOf(info, b)
BY DEF SameKey, HashOf

\* When the slots of held labels stay, an entry made of held labels keeps its hash.
LEMMA HashKept ==
    ASSUME \A l \in held \ {kInitializingLabel} : info'[l] = info[l]
    PROVE  \A k : {k.l1, k.l2} \subseteq held \ {kInitializingLabel} =>
               HashOf(info', k) = HashOf(info, k)
BY DEF HashOf, HashOfLabel

\* The entries of calls have the hash of their fields.
LEMMA HashOfCall ==
    ASSUME Inv, GlobalsApart, NEW c \in UnionCalls, Immediate(info, c) = NoLabel
    PROVE  KeyOf(info, c).hash = HashOf(info, KeyOf(info, c))
<1> DEFINE d == Ordered(c)
           e == Concretes(d)
           f == Canonical(e)
<1>1. /\ d \in [l1 : held, l2 : held, op : Ops, size : Nat \ {0}, op1 : Nat, op2 : Nat]
      /\ d.op = "Alloca" => d.op1 \in Values /\ d.op \in Ops
  <2>1. d.op = "Alloca" => d = c
    BY OrderedCall DEF Inv, Ordered, is_commutative, UnionCalls
  <2> QED
    BY <2>1, OrderedCall DEF Inv, UnionCalls
<1> HIDE DEF d
<1>2. /\ e \in [l1 : held, l2 : held, op : Ops, size : Nat \ {0}, op1 : Nat, op2 : Nat]
      /\ e.op = "Alloca" => e.op1 \in Values /\ e.op \in Ops
  BY <1>1 DEF Concretes, KeepsConcretes
<1> HIDE DEF e
<1>3. f.op = "Alloca" => f.op1 \in Values /\ "Alloca" \in Ops
  BY <1>2 DEF Canonical
<1> HIDE DEF f
<1>4. KeyOf(info, c) = [l1 |-> f.l1, l2 |-> f.l2, op |-> f.op, size |-> f.size,
                        op1 |-> f.op1, op2 |-> f.op2,
                        hash |-> Mix(HashOfLabel(info, f.l1), HashOfLabel(info, f.l2),
                                     <<f.op, f.size>>)]
  BY Zenon DEF KeyOf, HashOfLabel, Mix, d, e, f
<1>5. ~(f.op = "Alloca" /\ f.op1 \in Globals)
  BY <1>3 DEF GlobalsApart
<1> DEFINE h == Mix(HashOfLabel(info, f.l1), HashOfLabel(info, f.l2), <<f.op, f.size>>)
           k == KeyOf(info, c)
<1>6. /\ k.hash = h /\ k.l1 = f.l1 /\ k.l2 = f.l2 /\ k.op = f.op /\ k.size = f.size
      /\ k.op1 = f.op1
  BY <1>4
<1> HIDE DEF k
<1>7. HashOf(info, k) = h
  BY <1>5, <1>6 DEF HashOf
<1> QED
  BY <1>6, <1>7 DEF k

\* So have the entries of globals.
LEMMA HashOfGlobal ==
    ASSUME NEW a \in Globals
    PROVE  GlobalKey(a, 8).hash = HashOf(info, GlobalKey(a, 8))
<1> DEFINE x == Mix(a, 0, <<RawOp, AllocaCode>>)
           k == GlobalKey(a, 8)
<1>0. k = [Blank EXCEPT !.op = "Alloca", !.size = 64, !.op1 = a, !.op2 = a + 8, !.hash = x]
  BY Zenon DEF GlobalKey, Mix
<1> HIDE DEF k
<1>1. k.op = "Alloca" /\ k.op1 = a /\ k.hash = x
  BY <1>0 DEF Blank
<1> QED
  BY <1>1 DEF HashOf, k

\* Starting a call with entry k.
LEMMA EnterHash ==
    ASSUME Inv, HashInv, NEW t \in Threads, NEW p, NEW k \in Infos,
           ~IsInput(k) => k.hash = HashOf(info, k), Enter(t, p, k)
    PROVE  HashInv'
<1>1. key' = [key EXCEPT ![t] = k] /\ info' = info /\ Defined' = Defined
  BY DEF Enter, Defined
<1>2. \A u \in Threads : key'[u] = IF u = t THEN k ELSE key[u]
  BY <1>1 DEF Inv, TypeOK
<1> QED
  BY <1>1, <1>2 DEF HashInv

LEMMA InitHash == Init => HashInv
<1> SUFFICES ASSUME Init PROVE HashInv
  OBVIOUS
<1>1. Defined = {}
  BY TableAssumption DEF Init, Defined
<1>2. \A t \in Threads : IsInput(key[t])
  BY DEF Init, IsInput, Blank
<1> QED
  BY <1>1, <1>2 DEF HashInv

\* The other steps: slots of held labels stay, and a label that is handed out has the
\* entry of its thread.
LEMMA StepHash ==
    ASSUME Inv, HashInv, key' = key,
           \A l \in held \ {kInitializingLabel} : info'[l] = info[l],
           \A l \in Defined' : l \in Defined \/ \E t \in Threads : info'[l] = key[t]
    PROVE  HashInv'
<1>1. ASSUME NEW t \in Threads, ~IsInput(key[t])
      PROVE  key[t].hash = HashOf(info', key[t])
  BY <1>1, HashKept DEF HashInv, Inv, KeyInv
<1>2. ASSUME NEW l \in Defined, ~IsInput(info[l])
      PROVE  info'[l] = info[l] /\ info[l].hash = HashOf(info', info[l])
  <2>1. l \in held \ {kInitializingLabel}
    BY DEF Defined
  <2>2. {info[l].l1, info[l].l2} \subseteq held \ {kInitializingLabel}
    BY <2>1 DEF Inv, HeldInv
  <2> QED
    BY <1>2, <2>1, <2>2, HashKept DEF HashInv
<1>3. \A l \in Defined : info'[l] = info[l]
  BY DEF Defined
<1> QED
  BY <1>1, <1>2, <1>3 DEF HashInv

\* A lookup hands out no new label.
LEMMA LookupHeld ==
    ASSUME Inv, NEW t \in Threads, Lookup(t)
    PROVE  held' = held
<1> DEFINE list == bucket[BucketOf(key[t])]
<1>1. BucketOf(key[t]) \in Buckets
  BY BucketExists DEF Inv, TypeOK
<1>2. \A i \in Matches(list, key[t]) : list[i] \in held
  BY <1>1 DEF Matches, Inv, BucketInv, Defined
<1> QED
  BY <1>2 DEF Lookup, Return

LEMMA NextHash ==
    ASSUME Inv, HashInv, GlobalsApart, [Next]_vars
    PROVE  HashInv'
<1>0. \A l \in held \ {kInitializingLabel} : info'[l] = info[l]
  BY HeldSlotsStep
<1> USE DEF Inv
<1>1. ASSUME key' = key, held' = held
      PROVE  HashInv'
  <2>1. Defined' = Defined
    BY <1>1 DEF Defined
  <2> QED
    BY <1>0, <1>1, <2>1, StepHash
<1>2. ASSUME NEW t \in Threads, key' = key, held' = held \cup {label[t]},
             info'[label[t]] = key[t]
      PROVE  HashInv'
  <2>1. \A l \in Defined' : l \in Defined \/ info'[l] = key[t]
    BY <1>2 DEF Defined
  <2> QED
    BY <1>0, <1>2, <2>1, StepHash
<1>3. ASSUME NEW t \in Threads, NEW c \in UnionCalls, CallUnion(t, c)
      PROVE  HashInv'
  <2>1. CASE Immediate(info, c) = NoLabel /\ Enter(t, "lookup", KeyOf(info, c))
    BY <2>1, EnterHash, KeyOfCall, HashOfCall
  <2>2. CASE /\ Immediate(info, c) # NoLabel
             /\ key' = [key EXCEPT ![t] = Blank]
             /\ Return(t, Immediate(info, c))
             /\ UNCHANGED <<info, last, bucket, heap, dead, snap>>
    <3>1. Defined' = Defined /\ info' = info
      BY <2>2, ImmediateHeld DEF Return, Defined
    <3>2. IsInput(Blank)
      BY DEF IsInput, Blank
    <3>3. \A u \in Threads : key'[u] = IF u = t THEN Blank ELSE key[u]
      BY <2>2 DEF TypeOK
    <3> QED
      BY <3>1, <3>2, <3>3 DEF HashInv
  <2> QED
    BY <1>3, <2>1, <2>2 DEF CallUnion
<1>4. ASSUME NEW t \in Threads, NEW addr \in Globals, CallGlobal(t, addr)
      PROVE  HashInv'
  BY <1>4, EnterHash, HashOfGlobal, BlankInfo, TableAssumption DEF CallGlobal
<1>5. ASSUME NEW t \in Threads, NEW offset \in Stdin, CallCreate(t, offset)
      PROVE  HashInv'
  BY <1>5, EnterHash, BlankInfo, TableAssumption DEF CallCreate
<1>6. ASSUME NEW t \in Threads, Lookup(t)
      PROVE  HashInv'
  <2>1. held' = held
    BY <1>6, LookupHeld
  <2> QED
    BY <1>1, <1>6, <2>1 DEF Lookup
<1>7. ASSUME NEW t \in Threads, Write(t)
      PROVE  HashInv'
  <2>1. info'[label[t]] = key[t]
    BY <1>7, TableAssumption DEF Write, At, OwnInv, Owning, TypeOK, Labels
  <2> QED
    BY <1>1, <1>2, <1>7, <2>1 DEF Write, Return
<1>8. ASSUME NEW t \in Threads, Cas(t)
      PROVE  HashInv'
  <2>1. info'[label[t]] = key[t]
    BY <1>8 DEF Cas, At, KeyInv
  <2> QED
    BY <1>1, <1>2, <1>8, <2>1 DEF Cas, Return
<1>9. ASSUME NEW t \in Threads, Alloc(t) \/ Entry(t) \/ LoadHead(t)
      PROVE  HashInv'
  BY <1>1, <1>9 DEF Alloc, Entry, LoadHead
<1>10. CASE UNCHANGED vars
  BY <1>1, <1>10 DEF vars
<1> QED
  BY <1>3, <1>4, <1>5, <1>6, <1>7, <1>8, <1>9, <1>10 DEF Next, Step, Exited

-----------------------------------------------------------------------------
(* Counting. *)

\* Two counts that only shrink stay below a bound.
LEMMA Shrink ==
    \A C, M, n : \A C2 \in SUBSET C, M2 \in SUBSET M :
        /\ IsFiniteSet(C) /\ IsFiniteSet(M) /\ n \in Nat
        /\ Cardinality(C) + Cardinality(M) <= n
        => Cardinality(C2) + Cardinality(M2) <= n
<1> SUFFICES ASSUME NEW C, NEW M, NEW n \in Nat, NEW C2 \in SUBSET C,
                    NEW M2 \in SUBSET M, IsFiniteSet(C), IsFiniteSet(M),
                    Cardinality(C) + Cardinality(M) <= n
             PROVE  Cardinality(C2) + Cardinality(M2) <= n
  OBVIOUS
<1>1. /\ IsFiniteSet(C2) /\ Cardinality(C2) <= Cardinality(C)
      /\ IsFiniteSet(M2) /\ Cardinality(M2) <= Cardinality(M)
  BY FS_Subset
<1>2. /\ Cardinality(C) \in Nat /\ Cardinality(M) \in Nat
      /\ Cardinality(C2) \in Nat /\ Cardinality(M2) \in Nat
  BY <1>1, FS_CardinalityType
<1> QED
  BY <1>1, <1>2

\* A thread that becomes a copy is no longer a maker.
LEMMA Move ==
    \A C, M, n, x : \A t \in M :
        /\ IsFiniteSet(C) /\ IsFiniteSet(M) /\ n \in Nat
        /\ Cardinality(C) + Cardinality(M) <= n
        => Cardinality(C \cup {x}) + Cardinality(M \ {t}) <= n
<1> SUFFICES ASSUME NEW C, NEW M, NEW n \in Nat, NEW x, NEW t \in M,
                    IsFiniteSet(C), IsFiniteSet(M),
                    Cardinality(C) + Cardinality(M) <= n
             PROVE  Cardinality(C \cup {x}) + Cardinality(M \ {t}) <= n
  OBVIOUS
<1>1. /\ IsFiniteSet(C \cup {x})
      /\ Cardinality(C \cup {x}) = IF x \in C THEN Cardinality(C) ELSE Cardinality(C) + 1
  BY FS_AddElement
<1>2. /\ IsFiniteSet(M \ {t})
      /\ Cardinality(M \ {t}) = Cardinality(M) - 1
  BY FS_RemoveElement
<1>3. /\ Cardinality(C) \in Nat /\ Cardinality(M) \in Nat
  BY FS_CardinalityType
<1> QED
  BY <1>1, <1>2, <1>3

\* Copies and makers are finitely many.
LEMMA CountFinite ==
    ASSUME IsFiniteSet(Threads), Inv, NEW k
    PROVE  /\ IsFiniteSet(Copies(k))
           /\ IsFiniteSet(Makers(k))
           /\ Cardinality(Threads) \in Nat
<1>1. Defined \subseteq 0 .. alloca_stack_top
  BY LabelsApart DEF Inv, Defined, Labels
<1>2. IsFiniteSet(0 .. alloca_stack_top)
  BY FS_Interval, TableAssumption
<1>3. IsFiniteSet(Copies(k))
  BY <1>1, <1>2, FS_Subset DEF Copies
<1>4. IsFiniteSet(Makers(k))
  BY FS_Subset DEF Makers
<1> QED
  BY <1>3, <1>4, FS_CardinalityType

LEMMA InitCount ==
    ASSUME IsFiniteSet(Threads), Init
    PROVE  CountInv
<1> SUFFICES ASSUME NEW k \in Infos
             PROVE  Cardinality(Copies(k)) + Cardinality(Makers(k)) <= Cardinality(Threads)
  BY DEF CountInv
<1>1. Copies(k) = {}
  BY TableAssumption DEF Init, Defined, Copies
<1>2. Makers(k) = {}
  BY DEF Init, Makers, Adding, Owning
<1>3. Cardinality(Threads) \in Nat
  BY FS_CardinalityType
<1> QED
  BY <1>1, <1>2, <1>3, FS_EmptySet

\* A lookup that misses proves that the expression has no copy.
LEMMA MissMeansNone ==
    ASSUME Inv, HashInv, NEW t \in Threads, NEW k \in Infos, ~IsInput(k),
           SameKey(key[t], k), Matches(bucket[BucketOf(key[t])], key[t]) = {}
    PROVE  Copies(k) = {}
<1> SUFFICES ASSUME NEW l \in Copies(k)
             PROVE  FALSE
  OBVIOUS
<1>1. l \in Defined /\ SameKey(info[l], k)
  BY DEF Copies
<1>2. ~IsInput(info[l]) /\ ~IsInput(key[t])
  BY <1>1 DEF SameKey, IsInput
<1>3. HashOf(info, info[l]) = HashOf(info, key[t])
  BY <1>1, SameHash
<1>4. info[l].hash = key[t].hash
  BY <1>1, <1>2, <1>3 DEF HashInv
<1>5. BucketOf(info[l]) = BucketOf(key[t])
  BY <1>4 DEF BucketOf
<1>6. PICK i \in DOMAIN bucket[BucketOf(key[t])] : bucket[BucketOf(key[t])][i] = l
  BY <1>1, <1>2, <1>5 DEF Inv, NoLostLabel
<1>7. SameKey(info[l], key[t])
  BY <1>1 DEF SameKey
<1> QED
  BY <1>6, <1>7 DEF Matches

\* A step that adds neither a copy nor a maker.
LEMMA CountShrinks ==
    ASSUME IsFiniteSet(Threads), Inv, CountInv, NEW k \in Infos, ~IsInput(k),
           Copies(k)' \subseteq Copies(k), Makers(k)' \subseteq Makers(k)
    PROVE  Cardinality(Copies(k)') + Cardinality(Makers(k)') <= Cardinality(Threads)
<1>1. Cardinality(Copies(k)) + Cardinality(Makers(k)) <= Cardinality(Threads)
  BY DEF CountInv
<1> QED
  BY <1>1, CountFinite, Shrink

LEMMA NextCount ==
    ASSUME IsFiniteSet(Threads), Inv, HashInv, CountInv, [Next]_vars
    PROVE  CountInv'
<1> SUFFICES ASSUME NEW k \in Infos, ~IsInput(k)
             PROVE  Cardinality(Copies(k)') + Cardinality(Makers(k)') <= Cardinality(Threads)
  BY DEF CountInv
<1>0. \A l \in held \ {kInitializingLabel} : info'[l] = info[l]
  BY HeldSlotsStep
<1> USE DEF Inv
<1>1. ASSUME Defined' = Defined
      PROVE  Copies(k)' = Copies(k)
  BY <1>0, <1>1 DEF Copies, Defined
<1>2. ASSUME NEW t \in Threads, pc' = [pc EXCEPT ![t] = pc'[t]],
             key' = [key EXCEPT ![t] = key'[t]],
             pc'[t] \in Adding => (pc[t] \in Adding /\ key'[t] = key[t]) \/ IsInput(key'[t])
      PROVE  Makers(k)' \subseteq Makers(k)
  BY <1>2 DEF Makers, TypeOK, SameKey, IsInput
<1>3. ASSUME NEW t \in Threads, NEW p, NEW e, Enter(t, p, e), p \in Adding => IsInput(e)
      PROVE  Cardinality(Copies(k)') + Cardinality(Makers(k)') <= Cardinality(Threads)
  <2>1. Copies(k)' = Copies(k)
    BY <1>1, <1>3 DEF Enter, Defined
  <2>2. Makers(k)' \subseteq Makers(k)
    BY <1>3, <1>2 DEF Enter, TypeOK
  <2> QED
    BY <2>1, <2>2, CountShrinks
<1>4. ASSUME NEW t \in Threads, NEW c \in UnionCalls, CallUnion(t, c)
      PROVE  Cardinality(Copies(k)') + Cardinality(Makers(k)') <= Cardinality(Threads)
  <2>1. CASE Immediate(info, c) = NoLabel /\ Enter(t, "lookup", KeyOf(info, c))
    <3>1. "lookup" \notin Adding
      BY DEF Adding, Owning
    <3> QED
      BY <1>3, <2>1, <3>1
  <2>2. CASE /\ Immediate(info, c) # NoLabel
             /\ key' = [key EXCEPT ![t] = Blank]
             /\ Return(t, Immediate(info, c))
             /\ UNCHANGED <<info, last, bucket, heap, dead, snap>>
    <3>1. Copies(k)' = Copies(k)
      BY <2>2, <1>1, ImmediateHeld DEF Return, Defined
    <3>2. Makers(k)' \subseteq Makers(k)
      BY <2>2 DEF Makers, Return, TypeOK, Adding, Owning
    <3> QED
      BY <3>1, <3>2, CountShrinks
  <2> QED
    BY <1>4, <2>1, <2>2 DEF CallUnion
<1>5. ASSUME NEW t \in Threads, NEW addr \in Globals, CallGlobal(t, addr)
      PROVE  Cardinality(Copies(k)') + Cardinality(Makers(k)') <= Cardinality(Threads)
  <2>1. "lookup" \notin Adding
    BY DEF Adding, Owning
  <2> QED
    BY <1>3, <1>5, <2>1 DEF CallGlobal
<1>6. ASSUME NEW t \in Threads, NEW offset \in Stdin, CallCreate(t, offset)
      PROVE  Cardinality(Copies(k)') + Cardinality(Makers(k)') <= Cardinality(Threads)
  BY <1>3, <1>6, BlankInfo, TableAssumption DEF CallCreate
<1>7. ASSUME NEW t \in Threads, Lookup(t)
      PROVE  Cardinality(Copies(k)') + Cardinality(Makers(k)') <= Cardinality(Threads)
  <2>1. Copies(k)' = Copies(k)
    BY <1>1, <1>7, LookupHeld DEF Lookup, Defined
  <2>2. CASE pc'[t] = "idle"
    <3>1. Makers(k)' \subseteq Makers(k)
      BY <1>7, <2>2 DEF Makers, Lookup, Return, TypeOK, Adding, Owning
    <3> QED
      BY <2>1, <3>1, CountShrinks
  <2>3. CASE pc'[t] # "idle" /\ ~SameKey(key[t], k)
    <3>1. Makers(k)' \subseteq Makers(k)
      BY <1>7, <2>3 DEF Makers, Lookup, Return, TypeOK
    <3> QED
      BY <2>1, <3>1, CountShrinks
  <2>4. CASE pc'[t] # "idle" /\ SameKey(key[t], k)
    <3>1. Matches(bucket[BucketOf(key[t])], key[t]) = {}
      BY <1>7, <2>4 DEF Lookup, Return, TypeOK
    <3>2. Copies(k)' = {}
      BY <2>1, <2>4, <3>1, MissMeansNone
    <3>3. IsFiniteSet(Makers(k)') /\ Cardinality(Makers(k)') <= Cardinality(Threads)
      BY FS_Subset DEF Makers
    <3>4. Cardinality(Makers(k)') \in Nat
      BY <3>3, FS_CardinalityType
    <3> QED
      BY <3>2, <3>3, <3>4, FS_EmptySet
  <2> QED
    BY <2>2, <2>3, <2>4
<1>8. ASSUME NEW t \in Threads, Write(t)
      PROVE  Cardinality(Copies(k)') + Cardinality(Makers(k)') <= Cardinality(Threads)
  <2>1. Makers(k)' \subseteq Makers(k)
    BY <1>8 DEF Makers, Write, At, Return, TypeOK, Adding, Owning
  <2>2. info'[label[t]] = key[t]
    BY <1>8, TableAssumption DEF Write, At, OwnInv, Owning, TypeOK, Labels
  <2>3. CASE IsInput(key[t])
    <3>1. ~SameKey(info'[label[t]], k)
      BY <2>2, <2>3 DEF SameKey, IsInput
    <3>2. held' = held \cup {label[t]}
      BY <1>8, <2>3 DEF Write, Return
    <3>3. Copies(k)' \subseteq Copies(k)
      BY <1>0, <3>1, <3>2 DEF Copies, Defined
    <3> QED
      BY <2>1, <3>3, CountShrinks
  <2>4. CASE ~IsInput(key[t])
    <3>1. Copies(k)' = Copies(k)
      BY <1>1, <1>8, <2>4 DEF Write, Defined
    <3> QED
      BY <2>1, <3>1, CountShrinks
  <2> QED
    BY <2>3, <2>4
<1>9. ASSUME NEW t \in Threads, Cas(t)
      PROVE  Cardinality(Copies(k)') + Cardinality(Makers(k)') <= Cardinality(Threads)
  <2>1. info' = info /\ key' = key /\ info[label[t]] = key[t] /\ pc[t] \in Adding
    BY <1>9 DEF Cas, At, KeyInv, Adding, Owning
  <2>2. CASE held' = held /\ pc' = pc
    <3>1. Copies(k)' = Copies(k)
      BY <1>1, <2>2 DEF Defined
    <3>2. Makers(k)' = Makers(k)
      BY <2>1, <2>2 DEF Makers
    <3> QED
      BY <3>1, <3>2, CountShrinks
  <2>3. CASE held' = held \cup {label[t]} /\ pc' = [pc EXCEPT ![t] = "idle"]
    <3>1. Makers(k)' = Makers(k) \ {t}
      BY <2>1, <2>3 DEF Makers, TypeOK, Adding, Owning
    <3>2. CASE SameKey(key[t], k)
      <4>1. t \in Makers(k)
        BY <2>1, <3>2 DEF Makers
      <4>2. label[t] \notin (0 .. Inputs) \cup {kInitializingLabel}
        BY <1>9, TableAssumption DEF Cas, At, OwnInv, Owning, HeldInv
      <4>3. Copies(k)' = Copies(k) \cup {label[t]}
        BY <2>1, <2>3, <3>2, <4>2 DEF Copies, Defined
      <4>4. Cardinality(Copies(k)) + Cardinality(Makers(k)) <= Cardinality(Threads)
        BY DEF CountInv
      <4> QED
        BY <3>1, <4>1, <4>3, <4>4, CountFinite, Move
    <3>3. CASE ~SameKey(key[t], k)
      <4>1. Copies(k)' \subseteq Copies(k)
        BY <2>1, <2>3, <3>3 DEF Copies, Defined
      <4> QED
        BY <3>1, <4>1, CountShrinks
    <3> QED
      BY <3>2, <3>3
  <2> QED
    BY <1>9, <2>2, <2>3 DEF Cas, Return
<1>10. ASSUME NEW t \in Threads, Alloc(t) \/ Entry(t) \/ LoadHead(t)
       PROVE  Cardinality(Copies(k)') + Cardinality(Makers(k)') <= Cardinality(Threads)
  <2>1. Copies(k)' = Copies(k)
    BY <1>1, <1>10 DEF Alloc, Entry, LoadHead, Defined
  <2>2. key' = key /\ \A u \in Threads : pc'[u] \in Adding => pc[u] \in Adding
    BY <1>10 DEF Alloc, Entry, LoadHead, At, TypeOK, Adding, Owning
  <2>3. Makers(k)' \subseteq Makers(k)
    BY <2>2 DEF Makers
  <2> QED
    BY <2>1, <2>3, CountShrinks
<1>11. CASE UNCHANGED vars
  <2>1. Copies(k)' = Copies(k) /\ Makers(k)' = Makers(k)
    BY <1>11 DEF vars, Copies, Makers, Defined
  <2> QED
    BY <2>1, CountShrinks
<1> QED
  BY <1>4, <1>5, <1>6, <1>7, <1>8, <1>9, <1>10, <1>11 DEF Next, Step, Exited

\* An expression has at most one label for each thread, however lookups and
\* insertions of the same expression interleave in union_hashtable.
THEOREM DuplicatesBounded ==
    ASSUME IsFiniteSet(Threads), GlobalsApart
    PROVE  Spec => []FewDuplicates
<1>1. Init => Inv /\ HashInv /\ CountInv
  BY InitInv, InitHash, InitCount
<1>2. Inv /\ HashInv /\ CountInv /\ [Next]_vars => (Inv /\ HashInv /\ CountInv)'
  BY StepInv, NextHash, NextCount
<1>3. ASSUME Inv, CountInv
      PROVE  FewDuplicates
  <2> SUFFICES ASSUME NEW l \in Defined, ~IsInput(info[l])
               PROVE  Cardinality(Copies(info[l])) <= Cardinality(Threads)
    BY DEF FewDuplicates, Copies
  <2>1. info[l] \in Infos
    BY <1>3, LabelsApart DEF Inv, TypeOK, Defined
  <2>2. Cardinality(Copies(info[l])) + Cardinality(Makers(info[l])) <= Cardinality(Threads)
    BY <1>3, <2>1 DEF CountInv
  <2>3. \A k \in Infos : /\ IsFiniteSet(Copies(k))
                         /\ IsFiniteSet(Makers(k))
                         /\ Cardinality(Threads) \in Nat
    BY <1>3, CountFinite
  <2>4. Cardinality(Copies(info[l])) \in Nat /\ Cardinality(Makers(info[l])) \in Nat
    BY <2>1, <2>3, FS_CardinalityType
  <2> QED
    BY <2>1, <2>2, <2>3, <2>4
<1> QED
  BY <1>1, <1>2, <1>3, PTL DEF Spec
=============================================================================
