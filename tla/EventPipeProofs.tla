--------------------------- MODULE EventPipeProofs ---------------------------
(***************************************************************************)
(* Proofs about EventPipe for any number of events, any capacity of the    *)
(* pipe and any number of runs.                                            *)
(***************************************************************************)
EXTENDS EventPipe, SequenceTheorems, TLAPS

-----------------------------------------------------------------------------
(* What is left of a run. *)

\* Only the pipe of the last run can be open, and it is closed, and the target reaped,
\* when the launcher has forgotten the target.
LauncherInv ==
    /\ open \subseteq {fd}
    /\ pid = None => child = "none" /\ open = {}
    /\ drv = "idle" => pid = None
    /\ drv \in {"idle", "header", "payload", "wait"}
    /\ after \in {"idle", "header"}
    /\ child \in {"none", "running", "zombie"}
    /\ runs \in Nat
    /\ pid \in Nat \cup {None}

LEMMA InitLauncher == Init => LauncherInv
BY DEF Init, LauncherInv, None

LEMMA StepLauncher == LauncherInv /\ [Next]_vars => LauncherInv'
<1> SUFFICES ASSUME LauncherInv, [Next]_vars
             PROVE  LauncherInv'
  OBVIOUS
<1> USE DEF LauncherInv, None
<1>1. CASE Target
  BY <1>1 DEF Target, TraceCond, TraceGep, TraceMemcmp, Trace, Write, Exit
<1>2. CASE ReadsHeader \/ ReadsNothing \/ ReadsPayload
  BY <1>2 DEF ReadsHeader, ReadsNothing, ReadsPayload, Abandon
<1>3. CASE Reap
  BY <1>3 DEF Reap, Closed
<1>4. CASE TimesOut
  BY <1>4 DEF TimesOut, Kill, Abandon
<1>5. CASE GivesUp
  BY <1>5 DEF GivesUp, Terminate, Closed
<1>6. CASE Run
  BY <1>6 DEF Run, Closed
<1>7. CASE UNCHANGED vars
  BY <1>7 DEF vars
<1> QED
  BY <1>1, <1>2, <1>3, <1>4, <1>5, <1>6, <1>7 DEF Next, Driver

\* After a run, however it ended, the target is reaped and its pipe is closed, also
\* when the target crashes in the middle of an event and when fork fails
\* (symsan_read_event, symsan_terminate).
THEOREM NothingIsLeft == Spec => []NothingLeft
<1>1. LauncherInv => NothingLeft
  BY DEF LauncherInv, NothingLeft
<1> QED
  BY <1>1, InitLauncher, StepLauncher, PTL DEF Spec

-----------------------------------------------------------------------------
(* The stream of units. *)

\* The target does not die in the middle of an event, a payload is written by one
\* atomic write, and the driver knows which events have a payload.
Orderly ==
    /\ ~Crashes
    /\ MemcmpSizes \subseteq 1 .. PIPE_BUF
    /\ "rl" \notin TwoSymbolic

\* m is the header of an event that driver d can be sent.
Event(d, m) ==
    /\ m \in [kind : {"cond", "gep", "memcmp"}, id : Nat \ {0}, n : Nat,
              has_content : BOOLEAN]
    /\ m.has_content => m.n \in 1 .. PIPE_BUF
    /\ m.kind = "cond" => ~m.has_content
    /\ m.kind = "gep" => m.has_content /\ m.n = 1
    /\ m.kind = "memcmp" /\ d = "rl" => m.has_content

\* Units after the header, and what they are.
Size(m) == IF m.has_content THEN m.n ELSE 0
Body(m) == [i \in 1 .. m.n |-> Payload(m.id)]

\* The units p are events in the order of their numbers, up to number w, each with
\* its payload; the payload of the last one is missing when it is pending.  Units of
\* payload are not looked at themselves: they follow a header or are to be dropped.
Chain(d, p, w, pending) ==
    \A i \in 1 .. Len(p) :
        \/ p[i].kind = "payload"
        \/ /\ Event(d, p[i])
           /\ p[i].id <= w
           /\ i + Size(p[i]) <= Len(p)
           /\ \A j \in i + 1 .. i + Size(p[i]) : p[j] = Payload(p[i].id)
           /\ IF i + Size(p[i]) = Len(p) THEN p[i].id = w /\ ~pending
              ELSE /\ p[i + Size(p[i]) + 1].kind # "payload"
                   /\ p[i + Size(p[i]) + 1].id = p[i].id + 1
        \/ /\ Event(d, p[i])
           /\ p[i].id = w
           /\ i = Len(p)
           /\ pending
           /\ p[i].has_content

\* What is next in the stream p after h events.
Start(p, h, w, pending) ==
    IF Len(p) = 0 THEN h = w /\ ~pending
    ELSE p[1].kind # "payload" /\ p[1].id = h + 1

LEMMA SizeType ==
    ASSUME NEW d, NEW m, Event(d, m)
    PROVE  Size(m) \in Nat /\ m.kind # "payload" /\ m.id \in Nat
BY PipeAssumption DEF Event, Size

LEMMA ExpectedIsSize ==
    ASSUME NEW m, Event(driver, m)
    PROVE  Expected(m) = Size(m)
BY DEF Event, Size, Expected

\* The rest of a stream is a stream.
LEMMA DropUnits ==
    \A d, p, r, w, b : \A n \in Nat :
        /\ Chain(d, p, w, b)
        /\ Len(p) \in Nat
        /\ Len(r) = Len(p) - n
        /\ \A k \in 1 .. Len(r) : r[k] = p[k + n]
        => Chain(d, r, w, b)
<1>0. SUFFICES ASSUME NEW d, NEW p, NEW r, NEW w, NEW b, Chain(d, p, w, b),
                      NEW n \in Nat, Len(p) \in Nat, Len(r) = Len(p) - n,
                      \A k \in 1 .. Len(r) : r[k] = p[k + n]
               PROVE  Chain(d, r, w, b)
  OBVIOUS
<1>1. Len(p) \in Nat /\ Len(r) = Len(p) - n
  BY <1>0
<1>2. SUFFICES ASSUME NEW i \in 1 .. Len(r), r[i].kind # "payload"
               PROVE  \/ /\ Event(d, r[i])
                         /\ r[i].id <= w
                         /\ i + Size(r[i]) <= Len(r)
                         /\ \A j \in i + 1 .. i + Size(r[i]) : r[j] = Payload(r[i].id)
                         /\ IF i + Size(r[i]) = Len(r) THEN r[i].id = w /\ ~b
                            ELSE /\ r[i + Size(r[i]) + 1].kind # "payload"
                                 /\ r[i + Size(r[i]) + 1].id = r[i].id + 1
                      \/ /\ Event(d, r[i])
                         /\ r[i].id = w
                         /\ i = Len(r)
                         /\ b
                         /\ r[i].has_content
  BY DEF Chain
<1>3. i + n \in 1 .. Len(p)
  BY <1>1
<1> DEFINE m == r[i]
           z == Size(m)
<1>4. m = p[i + n]
  BY <1>0
<1>5. /\ Event(d, m)
      /\ \/ /\ m.id <= w
            /\ i + n + z <= Len(p)
            /\ \A j \in i + n + 1 .. i + n + z : p[j] = Payload(m.id)
            /\ IF i + n + z = Len(p) THEN m.id = w /\ ~b
               ELSE /\ p[i + n + z + 1].kind # "payload"
                    /\ p[i + n + z + 1].id = m.id + 1
         \/ /\ m.id = w
            /\ i + n = Len(p)
            /\ b
            /\ m.has_content
  BY <1>0, <1>2, <1>3, <1>4, Zenon DEF Chain
<1>6. z \in Nat
  BY <1>5, SizeType
<1> HIDE DEF m, z
<1>7. CASE /\ m.id <= w
           /\ i + n + z <= Len(p)
           /\ \A j \in i + n + 1 .. i + n + z : p[j] = Payload(m.id)
           /\ IF i + n + z = Len(p) THEN m.id = w /\ ~b
              ELSE /\ p[i + n + z + 1].kind # "payload"
                   /\ p[i + n + z + 1].id = m.id + 1
  <2>0. i + n + z <= Len(p)
    BY <1>7
  <2>1. i + z <= Len(r) /\ (i + z = Len(r) <=> i + n + z = Len(p))
    BY <1>1, <1>6, <2>0
  <2>2. ASSUME NEW j \in i + 1 .. i + z
        PROVE  r[j] = Payload(m.id)
    <3>1. j \in 1 .. Len(r) /\ j + n \in i + n + 1 .. i + n + z
      BY <1>1, <1>6, <2>1
    <3> QED
      BY <1>0, <1>7, <3>1
  <2>3. ASSUME i + z # Len(r)
        PROVE  r[i + z + 1] = p[i + n + z + 1]
    <3>1. i + z + 1 \in 1 .. Len(r) /\ i + z + 1 + n = i + n + z + 1
      BY <1>1, <1>6, <2>1, <2>3
    <3>2. r[i + z + 1] = p[i + z + 1 + n]
      BY <1>0, <3>1, Zenon
    <3> QED
      BY <3>1, <3>2, Zenon
  <2>4. IF i + z = Len(r) THEN m.id = w /\ ~b
        ELSE r[i + z + 1].kind # "payload" /\ r[i + z + 1].id = m.id + 1
    BY <1>7, <2>1, <2>3, Zenon
  <2> QED
    BY <1>5, <1>7, <2>1, <2>2, <2>4, Zenon DEF m, z
<1>8. CASE m.id = w /\ i + n = Len(p) /\ b /\ m.has_content
  <2>1. i = Len(r)
    BY <1>1, <1>8
  <2> QED
    BY <1>5, <1>8, <2>1 DEF m
<1> QED
  BY <1>5, <1>7, <1>8
\* Writing the header of the next event.
LEMMA AppendHeader ==
    \A d, p, q, m : \A w \in Nat :
        /\ Chain(d, p, w, FALSE)
        /\ Event(d, m) /\ m.id = w + 1
        /\ Len(p) \in Nat /\ Len(q) = Len(p) + 1
        /\ \A k \in 1 .. Len(p) : q[k] = p[k]
        /\ q[Len(p) + 1] = m
        => Chain(d, q, w + 1, m.has_content)
<1>0. SUFFICES ASSUME NEW d, NEW p, NEW q, NEW m, NEW w \in Nat, Chain(d, p, w, FALSE),
                      Event(d, m), m.id = w + 1, Len(p) \in Nat, Len(q) = Len(p) + 1,
                      \A k \in 1 .. Len(p) : q[k] = p[k], q[Len(p) + 1] = m
               PROVE  Chain(d, q, w + 1, m.has_content)
  OBVIOUS
<1>1. Len(p) \in Nat /\ Len(q) = Len(p) + 1
  BY <1>0
<1>2. SUFFICES ASSUME NEW i \in 1 .. Len(q), q[i].kind # "payload"
               PROVE  \/ /\ Event(d, q[i])
                         /\ q[i].id <= w + 1
                         /\ i + Size(q[i]) <= Len(q)
                         /\ \A j \in i + 1 .. i + Size(q[i]) : q[j] = Payload(q[i].id)
                         /\ IF i + Size(q[i]) = Len(q) THEN q[i].id = w + 1 /\ ~m.has_content
                            ELSE /\ q[i + Size(q[i]) + 1].kind # "payload"
                                 /\ q[i + Size(q[i]) + 1].id = q[i].id + 1
                      \/ /\ Event(d, q[i])
                         /\ q[i].id = w + 1
                         /\ i = Len(q)
                         /\ m.has_content
                         /\ q[i].has_content
  BY DEF Chain
<1> DEFINE e == q[i]
           z == Size(e)
<1>3. CASE i # Len(q)
  <2>1. i \in 1 .. Len(p)
    BY <1>1, <1>3
  <2>2. e = p[i]
    BY <1>0, <2>1
  <2>3. /\ Event(d, e)
        /\ e.id <= w
        /\ i + z <= Len(p)
        /\ \A j \in i + 1 .. i + z : p[j] = Payload(e.id)
        /\ IF i + z = Len(p) THEN e.id = w
           ELSE p[i + z + 1].kind # "payload" /\ p[i + z + 1].id = e.id + 1
    BY <1>0, <1>2, <2>1, <2>2, Zenon DEF Chain
  <2>4. z \in Nat /\ e.id \in Nat
    BY <2>3, SizeType
  <2> HIDE DEF e, z
  <2>5. i + z <= Len(q) /\ i + z # Len(q) /\ e.id <= w + 1
    BY <1>1, <2>3, <2>4
  <2>6. ASSUME NEW j \in i + 1 .. i + z
        PROVE  q[j] = Payload(e.id)
    <3>1. j \in 1 .. Len(p)
      BY <1>1, <2>3, <2>4
    <3> QED
      BY <1>0, <2>3, <3>1
  <2>7. q[i + z + 1].kind # "payload" /\ q[i + z + 1].id = e.id + 1
    <3>1. CASE i + z = Len(p)
      <4>1. q[i + z + 1] = m /\ e.id = w
        BY <1>0, <2>3, <3>1, Zenon
      <4>2. m.kind # "payload" /\ m.id = w + 1
        BY <1>0, SizeType
      <4> QED
        BY <4>1, <4>2
    <3>2. CASE i + z # Len(p)
      <4>0. i + z <= Len(p)
        BY <2>3
      <4>1. i + z + 1 \in 1 .. Len(p)
        BY <1>1, <2>4, <3>2, <4>0
      <4>2. q[i + z + 1] = p[i + z + 1]
        BY <1>0, <4>1, Zenon
      <4> QED
        BY <2>3, <3>2, <4>2, Zenon
    <3> QED
      BY <3>1, <3>2
  <2> QED
    BY <2>3, <2>5, <2>6, <2>7, Zenon DEF e, z
<1>4. CASE i = Len(q)
  <2>1. q[i] = m
    BY <1>0, <1>1, <1>4, Zenon
  <2>2. CASE m.has_content
    BY <1>0, <1>4, <2>1, <2>2
  <2>3. CASE ~m.has_content
    <3>1. Size(q[i]) = 0
      BY <2>1, <2>3 DEF Size
    <3>2. i \in Nat /\ w \in Nat
      BY <1>1
    <3>3. i + Size(q[i]) = Len(q)
      BY <1>4, <3>1, <3>2
    <3>4. q[i].id = w + 1 /\ q[i].id <= w + 1 /\ i + Size(q[i]) <= Len(q) /\ Event(d, q[i])
      BY <1>0, <1>4, <2>1, <3>1, <3>2
    <3>5. \A j \in i + 1 .. i + Size(q[i]) : q[j] = Payload(q[i].id)
      BY <3>1, <3>2
    <3> QED
      BY <2>3, <3>3, <3>4, <3>5, Zenon
  <2> QED
    BY <2>2, <2>3
<1> QED
  BY <1>3, <1>4

\* Writing the payload of the last event.
LEMMA AppendBody ==
    \A d, p, q, m, w :
        /\ Chain(d, p, w, TRUE)
        /\ Event(d, m) /\ m.has_content
        /\ Len(p) \in Nat \ {0} /\ Len(q) = Len(p) + m.n
        /\ p[Len(p)] = m
        /\ \A k \in 1 .. Len(p) : q[k] = p[k]
        /\ \A k \in Len(p) + 1 .. Len(p) + m.n : q[k] = Payload(m.id)
        => Chain(d, q, w, FALSE)
<1>0. SUFFICES ASSUME NEW d, NEW p, NEW q, NEW m, NEW w, Chain(d, p, w, TRUE),
                      Event(d, m), m.has_content, Len(p) \in Nat \ {0},
                      Len(q) = Len(p) + m.n, p[Len(p)] = m,
                      \A k \in 1 .. Len(p) : q[k] = p[k],
                      \A k \in Len(p) + 1 .. Len(p) + m.n : q[k] = Payload(m.id)
               PROVE  Chain(d, q, w, FALSE)
  BY Zenon
<1>1. Len(p) \in Nat \ {0} /\ Len(q) = Len(p) + m.n /\ m.n \in Nat
  BY <1>0 DEF Event
<1>2. SUFFICES ASSUME NEW i \in 1 .. Len(q), q[i].kind # "payload"
               PROVE  /\ Event(d, q[i])
                      /\ q[i].id <= w
                      /\ i + Size(q[i]) <= Len(q)
                      /\ \A j \in i + 1 .. i + Size(q[i]) : q[j] = Payload(q[i].id)
                      /\ IF i + Size(q[i]) = Len(q) THEN q[i].id = w
                         ELSE /\ q[i + Size(q[i]) + 1].kind # "payload"
                              /\ q[i + Size(q[i]) + 1].id = q[i].id + 1
  BY DEF Chain
<1>3. i \in 1 .. Len(p)
  <2>1. SUFFICES ASSUME i \notin 1 .. Len(p)
                 PROVE  FALSE
    OBVIOUS
  <2>2. i \in Len(p) + 1 .. Len(p) + m.n
    BY <1>1, <2>1
  <2> QED
    BY <1>0, <1>2, <2>2 DEF Payload, Header
<1> DEFINE e == q[i]
           z == Size(e)
<1>4. e = p[i]
  BY <1>0, <1>3
<1>5. /\ Event(d, e)
      /\ \/ /\ e.id <= w
            /\ i + z <= Len(p)
            /\ \A j \in i + 1 .. i + z : p[j] = Payload(e.id)
            /\ i + z # Len(p)
            /\ p[i + z + 1].kind # "payload"
            /\ p[i + z + 1].id = e.id + 1
         \/ /\ e.id = w
            /\ i = Len(p)
  BY <1>0, <1>2, <1>3, <1>4, Zenon DEF Chain
<1>6. z \in Nat /\ e.id \in Nat
  BY <1>5, SizeType
<1> HIDE DEF e, z
<1>7. CASE /\ e.id <= w
           /\ i + z <= Len(p)
           /\ \A j \in i + 1 .. i + z : p[j] = Payload(e.id)
           /\ i + z # Len(p)
           /\ p[i + z + 1].kind # "payload"
           /\ p[i + z + 1].id = e.id + 1
  <2>0. i + z <= Len(p) /\ i + z # Len(p)
    BY <1>7
  <2>1. i + z <= Len(q) /\ i + z # Len(q) /\ i + z + 1 \in 1 .. Len(p)
    BY <1>1, <1>6, <2>0
  <2>2. ASSUME NEW j \in i + 1 .. i + z
        PROVE  q[j] = Payload(e.id)
    <3>1. j \in 1 .. Len(p)
      BY <1>1, <1>6, <2>0
    <3> QED
      BY <1>0, <1>7, <3>1
  <2>3. q[i + z + 1] = p[i + z + 1]
    BY <1>0, <2>1, Zenon
  <2> QED
    BY <1>5, <1>7, <2>1, <2>2, <2>3, Zenon DEF e, z
<1>8. CASE e.id = w /\ i = Len(p)
  <2>1. e = m
    BY <1>0, <1>4, <1>8, Zenon
  <2>2. z = m.n
    BY <1>0, <2>1 DEF z, Size
  <2>3. i + z = Len(q) /\ i + z <= Len(q) /\ e.id <= w
    BY <1>1, <1>6, <1>8, <2>2
  <2>4. \A j \in i + 1 .. i + z : q[j] = Payload(e.id)
    BY <1>0, <1>8, <2>1, <2>2, Zenon
  <2> QED
    BY <1>5, <1>8, <2>3, <2>4, Zenon DEF e, z
<1> QED
  BY <1>5, <1>7, <1>8

\* Reading an event whose payload has been written.
LEMMA NextEvent ==
    \A d, v, r, w, b : \A h, n \in Nat :
        /\ Chain(d, v, w, b)
        /\ Len(v) \in Nat \ {0}
        /\ v[1].kind # "payload" /\ v[1].id = h + 1
        /\ n = Size(v[1]) + 1 /\ n <= Len(v)
        /\ Len(r) = Len(v) - n
        /\ \A k \in 1 .. Len(r) : r[k] = v[k + n]
        => Chain(d, r, w, b) /\ Start(r, h + 1, w, b)
<1> TAKE d, v, r, w, b
<1> TAKE h, n \in Nat
<1>0. HAVE /\ Chain(d, v, w, b)
           /\ Len(v) \in Nat \ {0}
           /\ v[1].kind # "payload" /\ v[1].id = h + 1
           /\ n = Size(v[1]) + 1 /\ n <= Len(v)
           /\ Len(r) = Len(v) - n
           /\ \A k \in 1 .. Len(r) : r[k] = v[k + n]
<1> DEFINE m == v[1]
           z == Size(m)
<1>1. Len(v) \in Nat /\ Len(v) # 0 /\ 1 \in 1 .. Len(v)
  BY <1>0
<1>2. /\ Event(d, m)
      /\ \/ IF 1 + z = Len(v) THEN m.id = w /\ ~b
            ELSE v[1 + z + 1].kind # "payload" /\ v[1 + z + 1].id = m.id + 1
         \/ 1 = Len(v) /\ m.has_content
  BY <1>0, <1>1, Zenon DEF Chain
<1>3. z \in Nat /\ (m.has_content => z # 0)
  BY <1>2, SizeType, PipeAssumption DEF Event, Size
<1>5. Chain(d, r, w, b)
  BY <1>0, <1>1, DropUnits, Zenon
<1>6. n = z + 1 /\ n <= Len(v) /\ Len(r) = Len(v) - n /\ m.id = h + 1
  BY <1>0
<1> HIDE DEF m, z
<1>7. /\ ~(1 = Len(v) /\ m.has_content)
      /\ Len(r) \in Nat
      /\ Len(r) = 0 <=> 1 + z = Len(v)
      /\ Len(r) # 0 => 1 \in 1 .. Len(r)
      /\ 1 + n = 1 + z + 1
  BY <1>1, <1>3, <1>6
<1>8. CASE Len(r) = 0
  <2>1. h + 1 = w /\ ~b
    BY <1>2, <1>6, <1>7, <1>8, Zenon
  <2> QED
    BY <1>5, <1>8, <2>1 DEF Start
<1>9. CASE Len(r) # 0
  <2>1. r[1] = v[1 + n]
    BY <1>0, <1>7, <1>9, Zenon
  <2>2. r[1].kind # "payload" /\ r[1].id = m.id + 1
    BY <1>2, <1>7, <1>9, <2>1, Zenon
  <2>3. r[1].id = h + 1 + 1
    BY <1>6, <2>2, Zenon
  <2> QED
    BY <1>5, <1>9, <2>2, <2>3 DEF Start
<1> QED
  BY <1>8, <1>9
-----------------------------------------------------------------------------
(* The invariant of an orderly run. *)

Units == [kind : {"cond", "gep", "memcmp", "payload", "none"}, id : Nat, n : Nat,
          has_content : BOOLEAN]

\* What the driver has not dealt with yet: the header it has read and the pipe.
Stream == IF drv = "payload" THEN <<msg>> \o pipe ELSE pipe

\* What the target has to write, when the events up to w are in the pipe.
Writing(w, pending) ==
    \/ out = <<>> /\ w = sent /\ ~pending
    \/ \E m : /\ Event(driver, m) /\ m.id = sent
              /\ out = Writes(m)
              /\ w + 1 = sent /\ ~pending
    \/ \E m : /\ Event(driver, m) /\ m.id = sent /\ m.has_content
              /\ out = <<Body(m)>>
              /\ w = sent /\ pending
              /\ Len(Stream) # 0 /\ Stream[Len(Stream)] = m

FlowType ==
    /\ driver \in Drivers
    /\ sent \in Nat
    /\ pipe \in Seq(Units)
    /\ msg \in Units
    /\ handled \in Seq(Nat)
    /\ killed \subseteq 1 .. runs

\* The driver reads: the target is there, and what it has sent and not handled is in
\* the pipe, in order.
ReadingInv ==
    drv \in {"header", "payload"} =>
        /\ pid = runs /\ fd = runs /\ runs # 0
        /\ child \in {"running", "zombie"}
        /\ child = "zombie" => out = <<>>
        /\ \E w \in Nat, b \in BOOLEAN :
              /\ Chain(driver, Stream, w, b)
              /\ Start(Stream, Len(handled), w, b)
              /\ Writing(w, b)

\* The driver waits: the target was killed, or has ended and all is handled.
WaitingInv ==
    drv = "wait" =>
        /\ pid = runs /\ runs # 0
        /\ after = "idle"
        /\ child = "zombie"
        /\ pid \in killed \/ (out = <<>> /\ Len(handled) = sent)

FlowInv ==
    /\ LauncherInv
    /\ FlowType
    /\ InSync
    /\ ReadingInv
    /\ WaitingInv

LEMMA UnitsStream ==
    \A m, p : m \in Units /\ p \in Seq(Units) =>
        /\ <<m>> \o p \in Seq(Units)
        /\ Len(<<m>> \o p) = Len(p) + 1
        /\ (<<m>> \o p)[1] = m
        /\ \A k \in 1 .. Len(p) : (<<m>> \o p)[k + 1] = p[k]
<1> TAKE m, p
<1>1. HAVE m \in Units /\ p \in Seq(Units)
<1>2. <<m>> \in Seq(Units) /\ Len(<<m>>) = 1 /\ <<m>>[1] = m /\ Len(p) \in Nat
  BY <1>1
<1>3. /\ <<m>> \o p \in Seq(Units)
      /\ Len(<<m>> \o p) = 1 + Len(p)
      /\ \A i \in 1 .. 1 + Len(p) : (<<m>> \o p)[i] = IF i <= 1 THEN <<m>>[i] ELSE p[i - 1]
  BY <1>1, <1>2, ConcatProperties
<1> DEFINE v == <<m>> \o p
<1> HIDE DEF v
<1>4. v[1] = m
  BY <1>2, <1>3 DEF v
<1>5. ASSUME NEW k \in 1 .. Len(p)
      PROVE  v[k + 1] = p[k]
  <2>1. k + 1 \in 1 .. 1 + Len(p) /\ ~(k + 1 <= 1) /\ (k + 1) - 1 = k
    BY <1>2
  <2> QED
    BY <1>3, <2>1, Zenon DEF v
<1> QED
  BY <1>2, <1>3, <1>4, <1>5 DEF v

\* What an event is in the pipe.
LEMMA EventUnit ==
    \A d, m : Event(d, m) => m \in Units /\ Body(m) \in Seq(Units) /\ Len(Body(m)) = m.n
<1> TAKE d, m
<1>1. HAVE Event(d, m)
<1>2. m \in Units /\ m.n \in Nat /\ m.id \in Nat
  BY <1>1 DEF Event, Units
<1>3. Payload(m.id) \in Units
  BY <1>2 DEF Payload, Header, Units
<1>4. Body(m) \in [1 .. m.n -> Units]
  BY <1>3 DEF Body
<1> QED
  BY <1>2, <1>4

LEMMA InitFlow == ASSUME Orderly, Init PROVE FlowInv
<1>1. LauncherInv
  BY InitLauncher
<1>2. FlowType
  BY DEF Init, FlowType, NoMsg, Header, Units
<1>3. InSync
  BY DEF Init, InSync
<1>4. ReadingInv /\ WaitingInv
  BY DEF Init, ReadingInv, WaitingInv
<1> QED
  BY <1>1, <1>2, <1>3, <1>4 DEF FlowInv

\* A target that runs is one the driver reads from.
LEMMA RunningRead ==
    ASSUME FlowInv, child = "running"
    PROVE  drv \in {"header", "payload"}
BY DEF FlowInv, LauncherInv, WaitingInv

LEMMA TraceFlow ==
    ASSUME Orderly, FlowInv, NEW kind \in {"cond", "gep", "memcmp"}, NEW n \in Nat,
           NEW hc \in BOOLEAN, hc => n \in 1 .. PIPE_BUF, kind = "cond" => ~hc,
           kind = "gep" => hc /\ n = 1, kind = "memcmp" /\ driver = "rl" => hc,
           Trace(kind, n, hc)
    PROVE  FlowType' /\ InSync' /\ ReadingInv' /\ WaitingInv'
<1>1. drv \in {"header", "payload"}
  BY RunningRead DEF Trace
<1>2. /\ child = "running" /\ out = <<>> /\ sent' = sent + 1
      /\ out' = Writes(Header(kind, sent + 1, n, hc))
      /\ UNCHANGED <<child, pipe, drv, after, msg, handled, outOfSync, pid, fd, open,
                     killed, runs, driver>>
  BY DEF Trace
<1>3. FlowType'
  BY <1>2 DEF FlowInv, FlowType
<1>4. InSync'
  BY <1>2 DEF FlowInv, FlowType, InSync
<1>5. WaitingInv'
  BY <1>1, <1>2 DEF WaitingInv
<1>6. PICK w \in Nat, b \in BOOLEAN : /\ Chain(driver, Stream, w, b)
                                     /\ Start(Stream, Len(handled), w, b)
                                     /\ Writing(w, b)
  BY <1>1 DEF FlowInv, ReadingInv
<1>7. w = sent /\ ~b
  <2>1. \A m : Writes(m) # <<>> /\ <<Body(m)>> # <<>>
    BY DEF Writes
  <2> QED
    BY <1>2, <1>6, <2>1 DEF Writing
<1> DEFINE m == Header(kind, sent + 1, n, hc)
<1>8. Event(driver, m) /\ m.id = sent + 1
  BY DEF Event, Header, FlowInv, FlowType
<1>9. Stream' = Stream
  BY <1>2 DEF Stream
<1> HIDE DEF m
<1>10. Writing(w, b)'
  BY <1>2, <1>7, <1>8 DEF Writing, m
<1>11. ReadingInv'
  BY <1>1, <1>2, <1>6, <1>9, <1>10 DEF ReadingInv, FlowInv
<1> QED
  BY <1>3, <1>4, <1>5, <1>11
LEMMA WriteFlow ==
    ASSUME Orderly, FlowInv, Write
    PROVE  FlowType' /\ InSync' /\ ReadingInv' /\ WaitingInv'
<1>1. drv \in {"header", "payload"}
  BY RunningRead DEF Write
<1> DEFINE buf == Head(out)
           n == IF Len(buf) <= Room THEN Len(buf) ELSE Room
<1>2. /\ child = "running" /\ out # <<>>
      /\ Len(buf) <= PIPE_BUF => n = Len(buf)
      /\ pipe' = pipe \o SubSeq(buf, 1, n)
      /\ out' = IF n = Len(buf) THEN Tail(out)
                ELSE <<SubSeq(buf, n + 1, Len(buf))>> \o Tail(out)
      /\ UNCHANGED <<child, sent, drv, after, msg, handled, outOfSync, pid, fd, open,
                     killed, runs, driver>>
  BY DEF Write
<1> HIDE DEF n
<1>3. InSync' /\ WaitingInv'
  BY <1>1, <1>2 DEF FlowInv, InSync, WaitingInv
<1>4. PICK w \in Nat, b \in BOOLEAN : /\ Chain(driver, Stream, w, b)
                                     /\ Start(Stream, Len(handled), w, b)
                                     /\ Writing(w, b)
  BY <1>1 DEF FlowInv, ReadingInv
<1>5. pipe \in Seq(Units) /\ msg \in Units /\ Len(pipe) \in Nat /\ handled \in Seq(Nat)
  BY DEF FlowInv, FlowType
<1>6. Stream \in Seq(Units) /\ Len(Stream) \in Nat
  BY <1>5, UnitsStream DEF Stream
\* One write of the units u.
<1>7. ASSUME NEW u \in Seq(Units), pipe' = pipe \o u
      PROVE  /\ FlowType'
             /\ Len(Stream') = Len(Stream) + Len(u)
             /\ \A k \in 1 .. Len(Stream) : Stream'[k] = Stream[k]
             /\ \A k \in Len(Stream) + 1 .. Len(Stream) + Len(u) :
                   Stream'[k] = u[k - Len(Stream)]
  <2>1. pipe' \in Seq(Units)
    BY <1>5, <1>7
  <2>2. FlowType'
    BY <1>2, <2>1 DEF FlowInv, FlowType
  <2>3. Stream' = Stream \o u
    <3>1. CASE drv = "payload"
      <4>1. <<msg>> \in Seq(Units)
        BY <1>5
      <4>2. Stream = <<msg>> \o pipe
        BY <3>1 DEF Stream
      <4>3. Stream' = <<msg>> \o (pipe \o u)
        BY <1>2, <1>7, <3>1 DEF Stream
      <4> QED
        BY <1>5, <1>7, <4>1, <4>2, <4>3, ConcatAssociative
    <3>2. CASE drv # "payload"
      BY <1>2, <1>7, <3>2 DEF Stream
    <3> QED
      BY <3>1, <3>2
  <2>4. /\ Len(Stream \o u) = Len(Stream) + Len(u)
        /\ \A k \in 1 .. Len(Stream) + Len(u) : (Stream \o u)[k] =
              IF k <= Len(Stream) THEN Stream[k] ELSE u[k - Len(Stream)]
    BY <1>6, <1>7, ConcatProperties
  <2>5. Len(u) \in Nat
    BY <1>7
  <2> DEFINE v == Stream \o u
  <2> HIDE DEF v
  <2>6. ASSUME NEW k \in 1 .. Len(Stream)
        PROVE  v[k] = Stream[k]
    <3>1. k \in 1 .. Len(Stream) + Len(u) /\ k <= Len(Stream)
      BY <1>6, <2>5
    <3> QED
      BY <2>4, <3>1, Zenon DEF v
  <2>7. ASSUME NEW k \in Len(Stream) + 1 .. Len(Stream) + Len(u)
        PROVE  v[k] = u[k - Len(Stream)]
    <3>1. k \in 1 .. Len(Stream) + Len(u) /\ ~(k <= Len(Stream))
      BY <1>6, <2>5
    <3> QED
      BY <2>4, <3>1, Zenon DEF v
  <2> QED
    BY <2>2, <2>3, <2>4, <2>6, <2>7, Zenon DEF v
<1>8. CASE \E m : /\ Event(driver, m) /\ m.id = sent
                  /\ out = Writes(m)
                  /\ w + 1 = sent /\ ~b
  <2>1. PICK m : Event(driver, m) /\ m.id = sent /\ out = Writes(m) /\ w + 1 = sent /\ ~b
    BY <1>8
  <2>2. m \in Units /\ m.has_content \in BOOLEAN
    BY <2>1, EventUnit DEF Event
  <2>3. /\ buf = <<m>>
        /\ Tail(out) = IF m.has_content THEN <<Body(m)>> ELSE <<>>
    BY <2>1, <2>2 DEF Writes, Body
  <2>4. n = 1 /\ Len(buf) = 1 /\ SubSeq(buf, 1, 1) = <<m>>
    <3>1. Len(<<m>>) = 1 /\ <<m>> \in Seq(Units)
      BY <2>2
    <3>2. n = 1 /\ Len(buf) = 1
      <4>1. PIPE_BUF \in Nat /\ 1 <= PIPE_BUF
        BY PipeAssumption
      <4>2. Len(buf) <= PIPE_BUF => n = Len(buf)
        BY <1>2
      <4>3. Len(buf) = 1
        BY <2>3, <3>1
      <4> HIDE DEF buf
      <4> QED
        BY <4>1, <4>2, <4>3
    <3>3. SubSeq(<<m>>, 1, 1) = <<m>>
      BY <3>1, SubSeqFull
    <3> QED
      BY <2>3, <3>2, <3>3
  <2>5. pipe' = pipe \o <<m>> /\ out' = Tail(out)
    BY <1>2, <2>4
  <2>6. <<m>> \in Seq(Units) /\ Len(<<m>>) = 1
    BY <2>2
  <2>7. /\ FlowType'
        /\ Len(Stream') = Len(Stream) + 1
        /\ \A k \in 1 .. Len(Stream) : Stream'[k] = Stream[k]
        /\ Stream'[Len(Stream) + 1] = m
    <3>1. /\ FlowType'
          /\ Len(Stream') = Len(Stream) + 1
          /\ \A k \in 1 .. Len(Stream) : Stream'[k] = Stream[k]
          /\ \A k \in Len(Stream) + 1 .. Len(Stream) + 1 :
                Stream'[k] = <<m>>[k - Len(Stream)]
      BY <1>7, <2>5, <2>6
    <3>2. Len(Stream) + 1 \in Len(Stream) + 1 .. Len(Stream) + 1
          /\ (Len(Stream) + 1) - Len(Stream) = 1
      BY <1>6
    <3>3. Stream'[Len(Stream) + 1] = <<m>>[(Len(Stream) + 1) - Len(Stream)]
      BY <3>1, <3>2, Zenon
    <3>4. <<m>>[1] = m
      OBVIOUS
    <3> QED
      BY <3>1, <3>2, <3>3, <3>4, Zenon
  <2>8. Chain(driver, Stream', w + 1, m.has_content)
    <3>1. Chain(driver, Stream, w, FALSE)
      BY <1>4, <2>1
    <3>2. m.id = w + 1
      BY <2>1
    <3> QED
      BY <1>6, <2>1, <2>7, <3>1, <3>2, AppendHeader, Zenon
  <2>9. Start(Stream', Len(handled), w + 1, m.has_content)
    <3>1. Len(Stream') # 0
      BY <1>6, <2>7
    <3>2. CASE Len(Stream) = 0
      <4>1. Stream'[1] = m
        BY <2>7, <3>2
      <4>2. Len(handled) = w
        BY <1>4, <3>2 DEF Start
      <4> QED
        BY <2>1, <3>1, <4>1, <4>2, SizeType DEF Start
    <3>3. CASE Len(Stream) # 0
      <4>1. 1 \in 1 .. Len(Stream)
        BY <1>6, <3>3
      <4>2. Stream'[1] = Stream[1]
        BY <2>7, <4>1, Zenon
      <4> QED
        BY <1>4, <3>1, <3>3, <4>2 DEF Start
    <3> QED
      BY <3>2, <3>3
  <2>10. Writing(w + 1, m.has_content)'
    <3>1. sent' = sent /\ driver' = driver /\ w + 1 = sent
      BY <1>2, <2>1
    <3>2. CASE ~m.has_content
      BY <2>3, <2>5, <3>1, <3>2 DEF Writing
    <3>3. CASE m.has_content
      <4>1. out' = <<Body(m)>> /\ Len(Stream') # 0 /\ Stream'[Len(Stream')] = m
        BY <1>6, <2>3, <2>5, <2>7, <3>3
      <4> QED
        BY <2>1, <3>1, <3>3, <4>1 DEF Writing
    <3> QED
      BY <3>2, <3>3
  <2>11. ReadingInv'
    BY <1>1, <1>2, <2>2, <2>8, <2>9, <2>10 DEF ReadingInv, FlowInv
  <2> QED
    BY <1>3, <2>7, <2>11
<1>9. CASE \E m : /\ Event(driver, m) /\ m.id = sent /\ m.has_content
                  /\ out = <<Body(m)>>
                  /\ w = sent /\ b
                  /\ Len(Stream) # 0 /\ Stream[Len(Stream)] = m
  <2>1. PICK m : /\ Event(driver, m) /\ m.id = sent /\ m.has_content
                 /\ out = <<Body(m)>>
                 /\ w = sent /\ b
                 /\ Len(Stream) # 0 /\ Stream[Len(Stream)] = m
    BY <1>9
  <2>2. Body(m) \in Seq(Units) /\ Len(Body(m)) = m.n /\ m.n \in 1 .. PIPE_BUF
    BY <2>1, EventUnit DEF Event
  <2>3. buf = Body(m) /\ Tail(out) = <<>>
    BY <2>1
  <2>4. n = m.n /\ SubSeq(Body(m), 1, m.n) = Body(m)
    BY <1>2, <2>2, <2>3, PipeAssumption, SubSeqFull
  <2>5. pipe' = pipe \o Body(m) /\ out' = <<>>
    BY <1>2, <2>2, <2>3, <2>4
  <2>6. /\ FlowType'
        /\ Len(Stream') = Len(Stream) + m.n
        /\ \A k \in 1 .. Len(Stream) : Stream'[k] = Stream[k]
        /\ \A k \in Len(Stream) + 1 .. Len(Stream) + m.n :
              Stream'[k] = Body(m)[k - Len(Stream)]
    BY <1>7, <2>2, <2>5
  <2>7. \A k \in Len(Stream) + 1 .. Len(Stream) + m.n : Stream'[k] = Payload(m.id)
    <3>1. SUFFICES ASSUME NEW k \in Len(Stream) + 1 .. Len(Stream) + m.n
                   PROVE  Stream'[k] = Payload(m.id)
      OBVIOUS
    <3>2. k - Len(Stream) \in 1 .. m.n
      BY <1>6, <2>2
    <3>3. Body(m)[k - Len(Stream)] = Payload(m.id)
      BY <3>2 DEF Body
    <3> QED
      BY <2>6, <3>3, Zenon
  <2>8. Chain(driver, Stream', w, FALSE)
    <3>1. Chain(driver, Stream, w, TRUE)
      BY <1>4, <2>1
    <3>2. Len(Stream) \in Nat \ {0}
      BY <1>6, <2>1
    <3> QED
      BY <2>1, <2>6, <2>7, <3>1, <3>2, AppendBody, Zenon
  <2>9. Start(Stream', Len(handled), w, FALSE)
    <3>1. Len(Stream') # 0 /\ 1 \in 1 .. Len(Stream)
      BY <1>6, <2>1, <2>2, <2>6
    <3>2. Stream'[1] = Stream[1]
      BY <2>6, <3>1, Zenon
    <3> QED
      BY <1>4, <2>1, <3>1, <3>2 DEF Start
  <2>10. Writing(w, FALSE)'
    BY <1>2, <2>1, <2>5 DEF Writing
  <2>11. ReadingInv'
    BY <1>1, <1>2, <2>8, <2>9, <2>10 DEF ReadingInv, FlowInv
  <2> QED
    BY <1>3, <2>6, <2>11
<1> QED
  BY <1>2, <1>4, <1>8, <1>9 DEF Writing
\* A header arrives.
LEMMA HeaderFlow ==
    ASSUME Orderly, FlowInv, ReadsHeader
    PROVE  FlowType' /\ InSync' /\ ReadingInv' /\ WaitingInv'
<1> DEFINE m == Head(pipe)
<1>1. /\ drv = "header" /\ pipe # <<>>
      /\ msg' = m
      /\ pipe' = Tail(pipe)
      /\ outOfSync' = (outOfSync \/ m.kind = "payload")
      /\ IF Expected(m) = 0
         THEN drv' = "header" /\ handled' = Append(handled, m.id)
         ELSE drv' = "payload" /\ UNCHANGED handled
      /\ UNCHANGED <<child, out, sent, after, pid, fd, open, killed, runs, driver>>
  BY DEF ReadsHeader
<1>2. PICK w \in Nat, b \in BOOLEAN : /\ Chain(driver, pipe, w, b)
                                     /\ Start(pipe, Len(handled), w, b)
                                     /\ Writing(w, b)
  BY <1>1 DEF FlowInv, ReadingInv, Stream
<1>3. pipe \in Seq(Units) /\ Len(pipe) \in Nat /\ handled \in Seq(Nat) /\ sent \in Nat
      /\ Len(handled) \in Nat
  BY DEF FlowInv, FlowType
<1>4. /\ Len(pipe) # 0 /\ m = pipe[1] /\ m \in Units
      /\ Tail(pipe) \in Seq(Units) /\ Len(Tail(pipe)) = Len(pipe) - 1
      /\ \A k \in 1 .. Len(Tail(pipe)) : Tail(pipe)[k] = pipe[k + 1]
  <2>1. Len(pipe) # 0 /\ m = pipe[1]
    BY <1>1, <1>3
  <2> QED
    BY <1>1, <1>3, <2>1, HeadTailProperties
<1> HIDE DEF m
<1>5. m.kind # "payload" /\ m.id = Len(handled) + 1
  BY <1>2, <1>4 DEF Start
<1>6. Event(driver, m) /\ m.id <= w /\ (Size(m) # 0 => m.has_content)
  <2>1. 1 \in 1 .. Len(pipe)
    BY <1>3, <1>4
  <2>2. Event(driver, pipe[1]) /\ (pipe[1].id <= w \/ pipe[1].id = w)
    BY <1>2, <1>4, <1>5, <2>1, Zenon DEF Chain
  <2>3. pipe[1].id \in Nat
    BY <2>2, SizeType
  <2> QED
    BY <1>4, <2>2, <2>3 DEF Size
<1>7. w \in Nat /\ w <= sent
  <2>1. CASE \E e : w + 1 = sent
    BY <1>3, <2>1
  <2>2. CASE w = sent
    BY <1>3, <2>2
  <2> QED
    BY <1>2, <2>1, <2>2 DEF Writing
<1>8. Expected(m) = Size(m) /\ Size(m) \in Nat
  BY <1>6, ExpectedIsSize, SizeType
<1>9. FlowType'
  <2>0. m.id \in Nat /\ (handled' = Append(handled, m.id) \/ handled' = handled)
    BY <1>1, <1>3, <1>5
  <2>1. handled' \in Seq(Nat)
    BY <1>3, <2>0, AppendProperties
  <2>2. pipe' \in Seq(Units) /\ msg' \in Units
    BY <1>1, <1>4
  <2> QED
    BY <1>1, <2>1, <2>2 DEF FlowInv, FlowType
<1>10. WaitingInv'
  BY <1>1 DEF WaitingInv
<1>11. CASE Size(m) # 0
  <2>1. drv' = "payload" /\ handled' = handled /\ ~outOfSync'
    BY <1>1, <1>5, <1>8, <1>11 DEF FlowInv, InSync
  <2>2. InSync'
    BY <1>1, <2>1 DEF FlowInv, InSync
  <2>3. Stream' = <<m>> \o Tail(pipe) /\ Stream = pipe
    BY <1>1, <2>1 DEF Stream
  <2>4. <<m>> \o Tail(pipe) = pipe
    <3>1. pipe = SubSeq(pipe, 1, Len(pipe))
      BY <1>3, SubSeqFull
    <3>2. Tail(pipe) = SubSeq(pipe, 2, Len(pipe))
      BY <1>1, <1>3, TailIsSubSeq
    <3>3. 1 \in 1 .. Len(pipe) /\ Len(pipe) \in 1 .. Len(pipe)
      BY <1>3, <1>4
    <3>4. SubSeq(pipe, 1, Len(pipe)) = <<pipe[1]>> \o SubSeq(pipe, 1 + 1, Len(pipe))
      BY <1>3, <3>3, SubSeqRecursiveFirst
    <3> QED
      BY <1>4, <3>1, <3>2, <3>4
  <2>5. Stream' = Stream
    BY <2>3, <2>4
  <2>6. Writing(w, b)'
    BY <1>1, <1>2, <2>5 DEF Writing
  <2>7. Stream = pipe
    BY <2>3
  <2>8. ReadingInv'
    BY <1>1, <1>2, <2>1, <2>5, <2>6, <2>7 DEF FlowInv, ReadingInv
  <2> QED
    BY <1>9, <1>10, <2>2, <2>8
<1>12. CASE Size(m) = 0
  <2>1. drv' = "header" /\ handled' = Append(handled, m.id) /\ ~outOfSync'
    BY <1>1, <1>5, <1>8, <1>12 DEF FlowInv, InSync
  <2>2. InSync' /\ Len(handled') = Len(handled) + 1
    <3>1. /\ Len(handled') = Len(handled) + 1
          /\ handled' = [i \in 1 .. Len(handled') |-> i]
      BY <1>3, <1>5, <2>1 DEF FlowInv, InSync
    <3>2. Len(handled') <= sent
      BY <1>3, <1>5, <1>6, <1>7, <3>1
    <3> QED
      BY <1>1, <2>1, <3>1, <3>2 DEF InSync
  <2>3. Stream' = Tail(pipe) /\ Stream = pipe
    BY <1>1, <2>1 DEF Stream
  <2>4. Chain(driver, Tail(pipe), w, b) /\ Start(Tail(pipe), Len(handled) + 1, w, b)
    <3>1. Len(pipe) \in Nat \ {0} /\ 1 <= Len(pipe) /\ 1 = Size(pipe[1]) + 1
      BY <1>3, <1>4, <1>12
    <3>2. pipe[1].kind # "payload" /\ pipe[1].id = Len(handled) + 1
      BY <1>4, <1>5
    <3> QED
      BY <1>2, <1>3, <1>4, <3>1, <3>2, NextEvent
  <2>5. Writing(w, b)'
    <3>1. sent' = sent /\ out' = out /\ driver' = driver
      BY <1>1
    <3>2. CASE ~b
      BY <1>2, <3>1, <3>2 DEF Writing
    <3>3. CASE b
      <4>1. Len(Tail(pipe)) # 0
        BY <2>4, <3>3 DEF Start
      <4>2. Len(Tail(pipe)) \in 1 .. Len(Tail(pipe)) /\ Len(Tail(pipe)) + 1 = Len(pipe)
        BY <1>3, <1>4, <4>1
      <4>3. Tail(pipe)[Len(Tail(pipe))] = pipe[Len(pipe)]
        BY <1>4, <4>2, Zenon
      <4>4. Len(Stream') # 0 /\ Stream'[Len(Stream')] = Stream[Len(Stream)]
        BY <2>3, <4>1, <4>3
      <4> QED
        BY <1>2, <3>1, <3>3, <4>4 DEF Writing
    <3> QED
      BY <3>2, <3>3
  <2>6. ReadingInv'
    BY <1>1, <2>1, <2>2, <2>3, <2>4, <2>5 DEF FlowInv, ReadingInv
  <2> QED
    BY <1>9, <1>10, <2>2, <2>6
<1> QED
  BY <1>11, <1>12

\* The payload arrives.  All of it is there: a target that has not written it is running,
\* and the driver waits for it.
LEMMA PayloadFlow ==
    ASSUME Orderly, FlowInv, ReadsPayload
    PROVE  FlowType' /\ InSync' /\ ReadingInv' /\ WaitingInv'
<1> DEFINE n == Got(Expected(msg))
<1>1. /\ drv = "payload" /\ Readable
      /\ pipe' = SubSeq(pipe, n + 1, Len(pipe))
      /\ outOfSync' = (outOfSync \/ \E i \in 1 .. n : pipe[i] # Payload(msg.id))
      /\ IF n = Expected(msg)
         THEN /\ handled' = Append(handled, msg.id)
              /\ drv' = "header"
              /\ UNCHANGED after
         ELSE Abandon("header") /\ UNCHANGED handled
      /\ UNCHANGED <<child, out, sent, msg, pid, fd, open, killed, runs, driver>>
  BY DEF ReadsPayload
<1> DEFINE v == <<msg>> \o pipe
<1>2. PICK w \in Nat, b \in BOOLEAN : /\ Chain(driver, v, w, b)
                                     /\ Start(v, Len(handled), w, b)
                                     /\ Writing(w, b)
  BY <1>1 DEF FlowInv, ReadingInv, Stream
<1>3. pipe \in Seq(Units) /\ Len(pipe) \in Nat /\ handled \in Seq(Nat) /\ sent \in Nat
      /\ Len(handled) \in Nat /\ msg \in Units
  BY DEF FlowInv, FlowType
<1>4. /\ Len(v) = Len(pipe) + 1 /\ v[1] = msg
      /\ \A k \in 1 .. Len(pipe) : v[k + 1] = pipe[k]
  BY <1>3, UnitsStream
<1>5. Stream = v
  BY <1>1 DEF Stream
<1> HIDE DEF v
<1>6. 1 \in 1 .. Len(v) /\ Len(v) \in Nat \ {0} /\ Len(v) # 0
  BY <1>3, <1>4
<1>7. msg.kind # "payload" /\ msg.id = Len(handled) + 1
  BY <1>2, <1>4, <1>6 DEF Start
<1> DEFINE z == Size(msg)
<1>8. /\ Event(driver, msg)
      /\ \/ /\ msg.id <= w
            /\ 1 + z <= Len(v)
            /\ \A j \in 1 + 1 .. 1 + z : v[j] = Payload(msg.id)
         \/ msg.id = w /\ 1 = Len(v) /\ b
  BY <1>2, <1>4, <1>6, <1>7, Zenon DEF Chain
<1>9. z \in Nat /\ Expected(msg) = z /\ msg.id \in Nat
  BY <1>8, ExpectedIsSize, SizeType
<1> HIDE DEF z
<1>10. ~(1 = Len(v) /\ b)
  <2>1. SUFFICES ASSUME 1 = Len(v), b
                 PROVE  FALSE
    OBVIOUS
  <2>2. pipe = <<>>
    BY <1>3, <1>4, <2>1
  <2>3. child = "zombie"
    BY <1>1, <2>2 DEF Readable, FlowInv, ReadingInv
  <2>4. out = <<>>
    BY <1>1, <2>3 DEF FlowInv, ReadingInv
  <2> QED
    BY <1>2, <2>1, <2>4 DEF Writing
<1>11. /\ msg.id <= w
       /\ z <= Len(pipe)
       /\ \A j \in 1 + 1 .. 1 + z : v[j] = Payload(msg.id)
  <2>1. msg.id <= w /\ 1 + z <= Len(v) /\ \A j \in 1 + 1 .. 1 + z : v[j] = Payload(msg.id)
    BY <1>8, <1>10, Zenon
  <2>2. 1 + z <= Len(v)
    BY <2>1
  <2>3. z <= Len(pipe)
    BY <1>3, <1>4, <1>9, <2>2
  <2> QED
    BY <2>1, <2>3
<1>12. n = z
  BY <1>9, <1>11 DEF Got
<1> HIDE DEF n
<1>13. ~outOfSync'
  <2>1. ASSUME NEW i \in 1 .. z
        PROVE  pipe[i] = Payload(msg.id)
    <3>1. i \in 1 .. Len(pipe) /\ i + 1 \in 1 + 1 .. 1 + z
      BY <1>3, <1>9, <1>11
    <3> QED
      BY <1>4, <1>11, <3>1, Zenon
  <2> QED
    BY <1>1, <1>12, <2>1 DEF FlowInv, InSync
<1>14. drv' = "header" /\ handled' = Append(handled, msg.id)
  BY <1>1, <1>9, <1>12
<1>15. w \in Nat /\ w <= sent
  <2>1. CASE \E e : w + 1 = sent
    BY <1>3, <2>1
  <2>2. CASE w = sent
    BY <1>3, <2>2
  <2> QED
    BY <1>2, <2>1, <2>2 DEF Writing
<1>16. InSync' /\ Len(handled') = Len(handled) + 1
  <2>1. /\ Len(handled') = Len(handled) + 1
        /\ handled' = [i \in 1 .. Len(handled') |-> i]
    BY <1>3, <1>7, <1>14 DEF FlowInv, InSync
  <2>2. Len(handled') <= sent
    BY <1>3, <1>7, <1>11, <1>15, <2>1
  <2> QED
    BY <1>1, <1>13, <2>1, <2>2 DEF InSync
<1> DEFINE r == SubSeq(pipe, z + 1, Len(pipe))
<1>17. /\ r \in Seq(Units)
       /\ Len(r) = Len(pipe) - z
       /\ \A k \in 1 .. Len(r) : r[k] = pipe[k + z]
  <2>1. z <= Len(pipe)
    BY <1>11
  <2>2. \A k \in z + 1 .. Len(pipe) : pipe[k] \in Units
    <3>1. ASSUME NEW k \in z + 1 .. Len(pipe)
          PROVE  pipe[k] \in Units
      <4>1. k \in 1 .. Len(pipe)
        BY <1>3, <1>9
      <4> QED
        BY <1>3, <4>1, ElementOfSeq
    <3> QED
      BY <3>1
  <2>3. z + 1 \in Int /\ Len(pipe) \in Int
    BY <1>3, <1>9
  <2>4. /\ r \in Seq(Units)
        /\ Len(r) = IF z + 1 <= Len(pipe) THEN Len(pipe) - (z + 1) + 1 ELSE 0
        /\ \A k \in 1 .. Len(pipe) - (z + 1) + 1 : r[k] = pipe[z + 1 + k - 1]
    BY <2>2, <2>3, SubSeqProperties
  <2> HIDE DEF r
  <2>5. Len(r) = IF z + 1 <= Len(pipe) THEN Len(pipe) - (z + 1) + 1 ELSE 0
    BY <2>4
  <2>6. Len(r) = Len(pipe) - z /\ Len(pipe) - (z + 1) + 1 = Len(pipe) - z
    BY <1>3, <1>9, <2>1, <2>5
  <2>7. ASSUME NEW k \in 1 .. Len(r)
        PROVE  r[k] = pipe[k + z]
    <3>1. k \in 1 .. Len(pipe) - (z + 1) + 1 /\ z + 1 + k - 1 = k + z
      BY <1>3, <1>9, <2>6
    <3>2. r[k] = pipe[z + 1 + k - 1]
      BY <2>4, <3>1, Zenon
    <3> QED
      BY <3>1, <3>2, Zenon
  <2> QED
    BY <2>4, <2>6, <2>7
<1>18. pipe' = r
  BY <1>1, <1>12
<1> HIDE DEF r
<1>19. Len(r) = Len(v) - (z + 1) /\ \A k \in 1 .. Len(r) : r[k] = v[k + (z + 1)]
  <2>1. Len(r) = Len(pipe) - z /\ Len(v) = Len(pipe) + 1 /\ z <= Len(pipe)
    BY <1>4, <1>11, <1>17
  <2>2. Len(r) = Len(v) - (z + 1)
    BY <1>3, <1>9, <2>1
  <2>3. ASSUME NEW k \in 1 .. Len(r)
        PROVE  r[k] = v[k + (z + 1)]
    <3>1. k + z \in 1 .. Len(pipe) /\ k + z + 1 = k + (z + 1)
      BY <1>3, <1>9, <2>1
    <3>2. r[k] = pipe[k + z] /\ v[k + z + 1] = pipe[k + z]
      BY <1>4, <1>17, <3>1, Zenon
    <3> QED
      BY <3>1, <3>2, Zenon
  <2> QED
    BY <2>2, <2>3
<1>20. Chain(driver, r, w, b) /\ Start(r, Len(handled) + 1, w, b)
  <2>1. z + 1 \in Nat /\ z + 1 = Size(v[1]) + 1 /\ z + 1 <= Len(v)
    <3>1. z <= Len(pipe) /\ Len(v) = Len(pipe) + 1
      BY <1>4, <1>11
    <3> QED
      BY <1>3, <1>4, <1>9, <3>1 DEF z
  <2>2. v[1].kind # "payload" /\ v[1].id = Len(handled) + 1
    BY <1>4, <1>7
  <2> QED
    BY <1>2, <1>3, <1>6, <1>19, <2>1, <2>2, NextEvent, Zenon
<1>21. Stream' = r
  BY <1>14, <1>18 DEF Stream
<1>22. Writing(w, b)'
  <2>1. sent' = sent /\ out' = out /\ driver' = driver
    BY <1>1
  <2>2. CASE ~b
    BY <1>2, <2>1, <2>2 DEF Writing
  <2>3. CASE b
    <3>1. Len(r) # 0
      BY <1>20, <2>3 DEF Start
    <3>2. Len(r) = Len(v) - (z + 1)
      BY <1>19
    <3>3. Len(r) \in Nat
      BY <1>17
    <3>5. Len(r) \in 1 .. Len(r) /\ Len(r) + (z + 1) = Len(v)
      BY <1>6, <1>9, <3>1, <3>2, <3>3
    <3>4. r[Len(r)] = v[Len(v)]
      BY <1>19, <3>5, Zenon
    <3> QED
      BY <1>2, <1>5, <1>21, <2>1, <2>3, <3>1, <3>4 DEF Writing
  <2> QED
    BY <2>2, <2>3
<1>23. FlowType'
  <2>1. handled' \in Seq(Nat)
    BY <1>3, <1>9, <1>14
  <2>2. pipe' \in Seq(Units)
    BY <1>17, <1>18
  <2> QED
    BY <1>1, <2>1, <2>2 DEF FlowInv, FlowType
<1>24. ReadingInv'
  BY <1>1, <1>14, <1>16, <1>20, <1>21, <1>22 DEF FlowInv, ReadingInv
<1>25. WaitingInv'
  BY <1>14 DEF WaitingInv
<1> QED
  BY <1>16, <1>23, <1>24, <1>25
\* The other steps.
LEMMA RestFlow ==
    ASSUME Orderly, FlowInv,
           Exit \/ ReadsNothing \/ Reap \/ TimesOut \/ GivesUp \/ Run \/ UNCHANGED vars
    PROVE  FlowType' /\ InSync' /\ ReadingInv' /\ WaitingInv'
<1>1. runs \in Nat /\ runs # None
  BY DEF FlowInv, LauncherInv, None
<1>2. CASE Exit
  <2>1. drv \in {"header", "payload"} /\ out = <<>> /\ Stream' = Stream
    BY <1>2, RunningRead DEF Exit, Orderly, Stream
  <2>2. \A w, b : Writing(w, b) => Writing(w, b)'
    BY <1>2, <2>1 DEF Writing, Exit
  <2>3. ReadingInv'
    BY <1>2, <2>1, <2>2 DEF FlowInv, ReadingInv, Exit
  <2>4. FlowType' /\ WaitingInv'
    BY <1>2, <2>1 DEF FlowInv, FlowType, WaitingInv, Exit
  <2>5. InSync'
    BY <1>2 DEF FlowInv, InSync, Exit
  <2> QED
    BY <2>3, <2>4, <2>5
<1>3. CASE ReadsNothing
  <2>1. /\ drv = "header" /\ drv' = "wait" /\ after' = "idle"
        /\ fd # None => pipe = <<>> /\ Readable
        /\ UNCHANGED <<child, out, sent, pipe, msg, handled, outOfSync, pid, fd, open,
                       killed, runs, driver>>
    BY <1>3 DEF ReadsNothing, Abandon
  <2>2. fd = runs /\ pid = runs /\ runs # 0
    BY <2>1 DEF FlowInv, ReadingInv
  <2>3. pipe = <<>> /\ child = "zombie" /\ out = <<>>
    BY <1>1, <2>1, <2>2 DEF Readable, FlowInv, ReadingInv
  <2>4. Stream = <<>> /\ Len(Stream) = 0
    BY <2>1, <2>3 DEF Stream
  <2>5. PICK w \in Nat, b \in BOOLEAN : Start(Stream, Len(handled), w, b) /\ Writing(w, b)
    BY <2>1 DEF FlowInv, ReadingInv
  <2>6. Len(handled) = sent
    <3>1. \A m : Writes(m) # <<>> /\ <<Body(m)>> # <<>>
      BY DEF Writes
    <3>2. w = sent
      BY <2>3, <2>5, <3>1 DEF Writing
    <3> QED
      BY <2>4, <2>5, <3>2 DEF Start
  <2>7. FlowType' /\ WaitingInv' /\ ReadingInv'
    BY <2>1, <2>2, <2>3, <2>6 DEF FlowInv, FlowType, WaitingInv, ReadingInv
  <2>8. InSync'
    BY <2>1 DEF FlowInv, InSync
  <2> QED
    BY <2>7, <2>8
<1>4. CASE Reap
  <2>1. drv' = "idle"
    BY <1>4 DEF Reap, FlowInv, WaitingInv
  <2>2. ReadingInv' /\ WaitingInv'
    BY <2>1 DEF ReadingInv, WaitingInv
  <2>3. FlowType'
    BY <1>4 DEF FlowInv, FlowType, Reap
  <2>4. InSync'
    BY <1>4 DEF FlowInv, InSync, Reap
  <2> QED
    BY <2>2, <2>3, <2>4
<1>5. CASE TimesOut
  <2>1. /\ drv = "header" /\ drv' = "wait" /\ after' = "idle"
        /\ killed' = killed \cup {pid}
        /\ child' = IF child = "running" /\ pid \in {runs, -1} THEN "zombie" ELSE child
        /\ UNCHANGED <<out, sent, pipe, msg, handled, outOfSync, pid, fd, open, runs, driver>>
    BY <1>5 DEF TimesOut, Abandon, Kill
  <2>2. pid = runs /\ runs # 0 /\ child' = "zombie"
    BY <2>1 DEF FlowInv, ReadingInv
  <2>3. FlowType'
    BY <1>1, <2>1, <2>2 DEF FlowInv, FlowType
  <2>4. WaitingInv' /\ ReadingInv'
    BY <2>1, <2>2 DEF WaitingInv, ReadingInv
  <2>5. InSync'
    BY <2>1 DEF FlowInv, InSync
  <2> QED
    BY <2>3, <2>4, <2>5
<1>6. CASE GivesUp
  <2>1. /\ drv = "header" /\ drv' = "idle"
        /\ killed' = killed \cup {pid} /\ pipe' = <<>>
        /\ UNCHANGED <<out, sent, after, msg, handled, outOfSync, fd, runs, driver>>
    BY <1>1, <1>6 DEF GivesUp, Terminate, FlowInv, ReadingInv
  <2>2. pid = runs /\ runs # 0
    BY <2>1 DEF FlowInv, ReadingInv
  <2>3. FlowType'
    BY <1>1, <2>1, <2>2 DEF FlowInv, FlowType
  <2>4. WaitingInv' /\ ReadingInv'
    BY <2>1 DEF WaitingInv, ReadingInv
  <2>5. InSync'
    BY <2>1 DEF FlowInv, InSync
  <2> QED
    BY <2>3, <2>4, <2>5
<1>7. CASE Run
  <2>1. /\ drv = "idle" /\ runs' = runs + 1 /\ fd' = runs + 1 /\ out' = <<>> /\ sent' = 0
        /\ pipe' = <<>> /\ handled' = <<>>
        /\ UNCHANGED <<after, msg, outOfSync, killed, driver>>
    BY <1>7 DEF Run
  <2>2. FlowType'
    BY <1>1, <2>1 DEF FlowInv, FlowType
  <2>3. InSync'
    BY <2>1 DEF FlowInv, InSync
  <2>4. WaitingInv'
    BY <1>7 DEF Run, WaitingInv
  <2>5. ReadingInv'
    <3>1. SUFFICES ASSUME drv' \in {"header", "payload"}
                   PROVE  ReadingInv'
      BY DEF ReadingInv
    <3>2. child' = "running" /\ pid' = runs + 1 /\ drv' = "header"
      BY <1>7, <3>1 DEF Run
    <3>3. Stream' = <<>> /\ Len(handled') = 0
      BY <2>1, <3>2 DEF Stream
    <3>4. Chain(driver', <<>>, 0, FALSE) /\ Start(<<>>, 0, 0, FALSE)
      BY DEF Chain, Start
    <3>5. Writing(0, FALSE)'
      BY <2>1 DEF Writing
    <3>6. pid' = runs' /\ fd' = runs' /\ runs' # 0
      BY <1>1, <2>1, <3>2
    <3>7. \E w \in Nat, b \in BOOLEAN : /\ Chain(driver', Stream', w, b)
                                         /\ Start(Stream', Len(handled'), w, b)
                                         /\ Writing(w, b)'
      <4>1. Chain(driver', Stream', 0, FALSE) /\ Start(Stream', Len(handled'), 0, FALSE)
        BY <3>3, <3>4
      <4>2. 0 \in Nat /\ FALSE \in BOOLEAN
        OBVIOUS
      <4> QED
        BY <3>5, <4>1, <4>2, Zenon
    <3> QED
      BY <3>2, <3>6, <3>7 DEF ReadingInv
  <2> QED
    BY <2>2, <2>3, <2>4, <2>5
<1>8. CASE UNCHANGED vars
  <2>1. UNCHANGED <<driver, child, out, sent, pipe, drv, after, msg, handled, outOfSync, pid,
                    fd, open, killed, runs>>
    BY <1>8 DEF vars
  <2>2. FlowType' /\ WaitingInv'
    BY <2>1 DEF FlowInv, FlowType, WaitingInv
  <2>3. InSync'
    BY <2>1 DEF FlowInv, InSync
  <2>4. Stream' = Stream
    BY <2>1 DEF Stream
  <2>5. \A w, b : Writing(w, b) => Writing(w, b)'
    BY <2>1, <2>4 DEF Writing
  <2>6. ReadingInv'
    BY <2>1, <2>4, <2>5 DEF FlowInv, ReadingInv
  <2> QED
    BY <2>2, <2>3, <2>6
<1> QED
  BY <1>2, <1>3, <1>4, <1>5, <1>6, <1>7, <1>8

LEMMA StepFlow == ASSUME Orderly PROVE FlowInv /\ [Next]_vars => FlowInv'
<1> SUFFICES ASSUME FlowInv, [Next]_vars
             PROVE  FlowInv'
  OBVIOUS
<1>1. LauncherInv'
  BY StepLauncher DEF FlowInv
<1>2. CASE TraceCond
  <2>1. Trace("cond", 0, FALSE) /\ 0 \in Nat
    BY <1>2 DEF TraceCond
  <2>2. FlowType' /\ InSync' /\ ReadingInv' /\ WaitingInv'
    BY <2>1, TraceFlow
  <2> QED
    BY <1>1, <2>2 DEF FlowInv
<1>3. CASE TraceGep
  <2>0. PIPE_BUF \in Nat /\ 1 <= PIPE_BUF
    BY PipeAssumption
  <2>1. 1 \in 1 .. PIPE_BUF
    BY <2>0
  <2>2. Trace("gep", 1, TRUE)
    BY <1>3, Zenon DEF TraceGep
  <2>3. FlowType' /\ InSync' /\ ReadingInv' /\ WaitingInv'
    BY <2>1, <2>2, TraceFlow
  <2> QED
    BY <1>1, <2>3 DEF FlowInv
<1>4. ASSUME NEW n \in MemcmpSizes, NEW hc \in BOOLEAN, TraceMemcmp(n, hc)
      PROVE  FlowInv'
  <2>1. n \in Nat /\ n \in 1 .. PIPE_BUF
    BY PipeAssumption DEF Orderly
  <2>2. driver = "rl" => hc
    BY <1>4 DEF TraceMemcmp, Orderly
  <2> QED
    BY <1>1, <1>4, <2>1, <2>2, TraceFlow DEF TraceMemcmp, FlowInv
<1>5. CASE Write
  BY <1>1, <1>5, WriteFlow DEF FlowInv
<1>6. CASE ReadsHeader
  BY <1>1, <1>6, HeaderFlow DEF FlowInv
<1>7. CASE ReadsPayload
  BY <1>1, <1>7, PayloadFlow DEF FlowInv
<1>8. CASE Exit \/ ReadsNothing \/ Reap \/ TimesOut \/ GivesUp \/ Run \/ UNCHANGED vars
  BY <1>1, <1>8, RestFlow DEF FlowInv
<1> QED
  BY <1>2, <1>3, <1>4, <1>5, <1>6, <1>7, <1>8 DEF Next, Target, Driver

\* As long as the target does not die in the middle of an event, its payloads are written
\* by atomic writes and the driver knows which events have one, the driver never takes a
\* payload for a header, and handles every event once and in order.
THEOREM DriverInSync == ASSUME Orderly PROVE Spec => []InSync
<1>1. FlowInv => InSync
  BY DEF FlowInv
<1> QED
  BY <1>1, InitFlow, StepFlow, PTL DEF Spec

\* Then kill() is only called for a target the launcher has started: the pid of
\* symsan_terminate and of the timeout is never -1.
THEOREM OnlyTargetKilled == ASSUME Orderly PROVE Spec => []KillsOnlyTarget
<1>1. FlowInv => KillsOnlyTarget
  BY DEF FlowInv, FlowType, KillsOnlyTarget
<1> QED
  BY <1>1, InitFlow, StepFlow, PTL DEF Spec

\* Then the driver sees the end of a run only when it has handled every event of a target
\* that ended by itself.
THEOREM EveryEventHandled == ASSUME Orderly PROVE Spec => []AllHandled
<1>1. FlowInv => AllHandled
  BY DEF FlowInv, WaitingInv, AllHandled
<1> QED
  BY <1>1, InitFlow, StepFlow, PTL DEF Spec
=============================================================================
