-------------------------- MODULE TaintInputProofs --------------------------
(***************************************************************************)
(* Proofs about TaintInput for any input, any programs, and any number of  *)
(* descriptors and threads: as long as no call has slipped through the     *)
(* wrappers, labels stand for the offsets of the bytes that carry them.    *)
(***************************************************************************)
EXTENDS TaintInput, SequenceTheorems, WellFoundedInduction, TLAPS

File == [of : {"input", "other", "stdin"}, pos : 0 .. Size, next : 0 .. Size]

ReadCall == [call : Streams \cup {"read"}, fd : Fds, n : Nat \ {0}, offset : Nat, taint : BOOLEAN]
CloseCall == [call : {"fclose"}, fd : Fds]

Types ==
    /\ prog \in Programs
    /\ fds \in [Fds -> {None} \cup File]
    /\ tainted \in [fd : Fds \cup {-1}, is_utmp : BOOLEAN, offset : Nat]
    /\ tainted_socket \in [fd : Fds \cup {-1}, offset : Nat]
    /\ current_stdin_offset \in Nat
    /\ utmp \in File
    /\ calls \in [Threads -> {None} \cup ReadCall \cup CloseCall]

\* What the wrappers take for the input is the input, or standard input, and they know
\* every descriptor of the input.  One that is not open is about to be forgotten.
KnownPart ==
    /\ \A fd \in Fds : Open(fd) =>
          /\ mode # "socket" /\ fds[fd].of = "input" => taint_get_file(fd)
          /\ taint_get_file(fd) => fds[fd].of \in {"input", "stdin"}
    /\ \A fd \in Fds : taint_get_file(fd) /\ ~Open(fd) =>
          fd \in Closing \/ (mode = "forced" /\ fd = 0)
    /\ ~Named => tainted.fd \in {-1, 0}

\* The counter of labels is where standard input is.
CountPart ==
    /\ mode = "forced" /\ Open(0) => fds[0].of = "input"
    /\ Counted(0) /\ Open(0) /\ fds[0].of = "input" => current_stdin_offset = fds[0].next

\* A call that reads has its descriptor for itself, and what it has asked for is still so.
CallPart ==
    \A t \in Threads : Reading(t) =>
        /\ Open(calls[t].fd)
        /\ \A u \in Threads : Reading(u) /\ u # t => calls[u].fd # calls[t].fd
        /\ mode # "socket" => calls[t].offset = OffsetOf(calls[t].call, fds[calls[t].fd])
        /\ calls[t].taint => fds[calls[t].fd].of \in {"input", "stdin"}
        /\ fds[calls[t].fd].of = "input" /\ mode # "socket" => calls[t].taint
        /\ calls[t].call = "read" /\ Counted(calls[t].fd) =>
               fds[calls[t].fd].pos = fds[calls[t].fd].next
        /\ calls[t].fd # tainted_socket.fd

\* The user accounting file is taken for the input when it is, at its position.
UtmpPart ==
    /\ tainted.is_utmp <=> utmp.of = "input"
    /\ tainted.is_utmp => Named /\ tainted.offset = utmp.pos

\* The connection with the peer is the only one, and its offset counts its bytes.
SocketPart ==
    /\ tainted_socket.fd # -1 => Uses("socket")
    /\ tainted_socket.fd = -1 => tainted_socket.offset = 0
    /\ \A fd \in Fds : Open(fd) =>
          /\ tainted_socket.fd = fd => fds[fd].of = "input" /\ tainted_socket.offset = fds[fd].pos
          /\ mode = "socket" /\ fds[fd].of = "input" => tainted_socket.fd = fd

\* A byte with a label is of the input, and at its offset; one of the input has its label.
GoodByte(b) ==
    /\ b.label > 0 => b.of = "input" /\ b.label = b.off + 1
    /\ b.of = "input" /\ b.off < Size => b.label = b.off + 1

LastPart == \A b \in Range(last) : GoodByte(b)

Core == Types /\ KnownPart /\ CountPart /\ CallPart /\ UtmpPart /\ SocketPart

Inv == slip = "none" => Core /\ LastPart

-----------------------------------------------------------------------------
(* What the operators give. *)

\* A set of naturals has a least element.
LEMMA MinIs ==
    ASSUME NEW T, T \subseteq Nat, T # {}
    PROVE  Min(T) \in T /\ \A k \in T : Min(T) <= k
<1>1. PICK m \in T : \A k \in T : <<k, m>> \notin OpToRel(<, Nat)
  BY NatLessThanWellFounded, WFMin
<1>2. \A a, b \in Nat : a < b => <<a, b>> \in OpToRel(<, Nat)
  BY DEF OpToRel
<1>3. ASSUME NEW k \in T
      PROVE  m <= k
  <2>1. m \in Nat /\ k \in Nat
    OBVIOUS
  <2>2. ~(k < m)
    BY <1>1, <1>2, <2>1, Zenon
  <2> QED
    BY <2>1, <2>2
<1> QED
  BY <1>3 DEF Min

LEMMA Constants ==
    /\ Size \in Nat /\ Size > 0 /\ MaxFd \in Nat /\ 0 \in Fds /\ -1 \notin Fds /\ Fds \subseteq Nat
    /\ None \notin File /\ None \notin ReadCall /\ None \notin CloseCall
    /\ \A n \in Counts : n \in Nat \ {0}
<1>1. Size \in Nat /\ Size > 0 /\ MaxFd \in Nat
  BY InputAssumption DEF Size
<1>2. 0 \in Fds /\ -1 \notin Fds /\ Fds \subseteq Nat
  BY <1>1 DEF Fds
<1>3. File \subseteq [of : {"input", "other", "stdin"}, pos : Nat, next : Nat]
  BY <1>1 DEF File
<1>4. CloseCall \subseteq [call : {"fclose"}, fd : Nat]
  BY <1>2 DEF CloseCall
<1>5. ReadCall \subseteq [call : {"read", "fread", "fread item", "fgets", "gets", "getline", "getc"},
                         fd : Nat, n : Nat, offset : Nat, taint : BOOLEAN]
  BY <1>2 DEF ReadCall, Streams
<1>6. \A n \in Counts : n \in Nat \ {0}
  BY InputAssumption
<1> QED
  BY <1>1, <1>2, <1>3, <1>4, <1>5, <1>6, NoneAssumption

LEMMA OpenFile ==
    ASSUME Types, NEW fd \in Fds, Open(fd)
    PROVE  /\ fds[fd] \in File /\ fds[fd].of \in {"input", "other", "stdin"}
           /\ fds[fd].pos \in 0 .. Size /\ fds[fd].next \in 0 .. Size
<1>1. fds[fd] \in File
  BY DEF Types, Open
<1> QED
  BY <1>1 DEF File

LEMMA AtIs ==
    ASSUME NEW file \in {"input", "other", "stdin"}, NEW pos \in 0 .. Size
    PROVE  /\ At(file, pos) \in File /\ At(file, pos) # None
           /\ At(file, pos).of = file /\ At(file, pos).pos = pos /\ At(file, pos).next = pos
<1>1. At(file, pos) \in File
  BY DEF At, File
<1>2. At(file, pos).of = file /\ At(file, pos).pos = pos /\ At(file, pos).next = pos
  BY DEF At
<1> QED
  BY <1>1, <1>2, Constants

LEMMA ReadingCall ==
    ASSUME Types, NEW t \in Threads, Reading(t)
    PROVE  /\ calls[t] \in ReadCall /\ calls[t].fd \in Fds /\ calls[t].n \in Nat \ {0}
           /\ calls[t].call \in Streams \cup {"read"} /\ calls[t].offset \in Nat
           /\ calls[t].taint \in BOOLEAN
<1>1. calls[t] \in {None} \cup ReadCall \cup CloseCall /\ calls[t] # None
      /\ calls[t].call # "fclose"
  BY DEF Types, Reading
<1>2. calls[t] \in ReadCall
  BY <1>1 DEF CloseCall
<1> QED
  BY <1>2 DEF ReadCall

LEMMA ClosingCall ==
    ASSUME Types, NEW t \in Threads, calls[t] # None, ~Reading(t)
    PROVE  calls[t] \in CloseCall /\ calls[t].fd \in Fds /\ calls[t].call = "fclose"
<1>1. calls[t] \in {None} \cup ReadCall \cup CloseCall /\ calls[t].call = "fclose"
  BY DEF Types, Reading
<1>2. calls[t] \in CloseCall
  BY <1>1 DEF ReadCall, Streams
<1> QED
  BY <1>2 DEF CloseCall

LEMMA Lowest ==
    ASSUME \E fd \in Fds : ~Open(fd)
    PROVE  LowestFree \in Fds /\ ~Open(LowestFree)
<1> DEFINE T == {fd \in Fds : ~Open(fd)}
<1>1. T \subseteq Nat /\ T # {}
  BY Constants
<1>2. Min(T) \in T
  BY <1>1, MinIs
<1> QED
  BY <1>2 DEF LowestFree

\* No slip: none of the conditions holds.
LEMMA NoSlip ==
    ASSUME NEW names, "none" \notin names, FirstSlip(names) = "none"
    PROVE  names = {}
<1>1. ASSUME names # {}
      PROVE  FALSE
  <2>1. FirstSlip(names) \in names
    BY <1>1 DEF FirstSlip
  <2> QED
    BY <2>1
<1> QED
  BY <1>1

LEMMA InitInv == Init => Inv
<1> SUFFICES ASSUME Init PROVE Core /\ LastPart
  BY DEF Inv
<1>1. /\ prog \in Programs /\ calls = [t \in Threads |-> None] /\ last = <<>>
      /\ tainted = [fd |-> IF mode = "socket" THEN -1 ELSE 0, is_utmp |-> FALSE, offset |-> 0]
      /\ tainted_socket = [fd |-> -1, offset |-> 0] /\ current_stdin_offset = 0
      /\ utmp = At("other", 0)
      /\ mode \in {"file", "forced", "regular", "pipe", "socket"}
  BY InputAssumption DEF Init, mode
<1>2. PICK file \in {"input", "stdin"} :
         /\ fds = [fd \in Fds |-> IF fd = 0 THEN At(file, 0) ELSE None]
         /\ file = "stdin" <=> mode \in {"file", "socket"}
  BY DEF Init
<1>3. At(file, 0) \in File /\ At(file, 0) # None /\ At(file, 0).of = file
      /\ At(file, 0).pos = 0 /\ At(file, 0).next = 0
      /\ At("other", 0) \in File /\ At("other", 0).of = "other"
  BY AtIs, Constants
<1>4. /\ fds \in [Fds -> {None} \cup File] /\ \A fd \in Fds : Open(fd) <=> fd = 0
      /\ Open(0) /\ fds[0].of = file /\ fds[0].next = 0
  BY <1>2, <1>3, Constants DEF Open
<1>5. \A t \in Threads : ~Reading(t)
  BY <1>1 DEF Reading
<1>6. Types
  BY <1>1, <1>3, <1>4, Constants DEF Types
<1>7. KnownPart
  BY <1>1, <1>2, <1>4, Constants DEF KnownPart, taint_get_file, Named
<1>8. CountPart
  BY <1>1, <1>2, <1>4 DEF CountPart
<1>9. CallPart
  BY <1>5 DEF CallPart
<1>10. UtmpPart
  BY <1>1, <1>3 DEF UtmpPart
<1>11. SocketPart
  BY <1>1, <1>2, <1>4, Constants DEF SocketPart
<1>12. LastPart
  BY <1>1 DEF LastPart, Range
<1> QED
  BY <1>6, <1>7, <1>8, <1>9, <1>10, <1>11, <1>12 DEF Core

-----------------------------------------------------------------------------
(* Opening and closing. *)

\* A program with sockets makes no such calls.
LEMMA NoSockets ==
    ASSUME Types, SocketPart,
           Uses("open") \/ Uses("fopen") \/ Uses("freopen") \/ Uses("seek") \/ Uses("pread") \/ Uses("mmap")
    PROVE  ~Uses("socket") /\ tainted_socket.fd = -1
BY SocketAssumption DEF Types, SocketPart, Uses

\* A step that leaves the program alone.
LEMMA SameProgram ==
    ASSUME prog' = prog
    PROVE  /\ mode' = mode /\ (Named' <=> Named)
           /\ \A fd : Counted(fd)' <=> Counted(fd)
           /\ \A call : Uses(call)' <=> Uses(call)
BY DEF mode, Named, Counted, Uses

\* Calls that stay keep what they know when their descriptors stay.
LEMMA CallsKept ==
    ASSUME Types, CallPart, prog' = prog,
           \A t \in Threads : Reading(t)' =>
               /\ Reading(t) /\ calls'[t] = calls[t] /\ calls[t].fd # tainted_socket'.fd
               /\ fds'[calls[t].fd].of = fds[calls[t].fd].of /\ Open(calls[t].fd)'
               /\ mode # "socket" => fds'[calls[t].fd] = fds[calls[t].fd]
    PROVE  CallPart'
<1>1. mode' = mode /\ \A fd : Counted(fd)' => mode # "socket" /\ Counted(fd)
  BY SameProgram DEF Counted
<1>2. \A u \in Threads : Reading(u)' => Reading(u) /\ calls'[u] = calls[u]
  OBVIOUS
<1>3. ASSUME NEW t \in Threads, Reading(t)'
      PROVE  /\ Open(calls[t].fd)'
             /\ \A u \in Threads : Reading(u)' /\ u # t => calls'[u].fd # calls'[t].fd
             /\ mode' # "socket" => calls'[t].offset = OffsetOf(calls'[t].call, fds'[calls'[t].fd])
             /\ calls'[t].taint => fds'[calls'[t].fd].of \in {"input", "stdin"}
             /\ fds'[calls'[t].fd].of = "input" /\ mode' # "socket" => calls'[t].taint
             /\ calls'[t].call = "read" /\ Counted(calls[t].fd)' =>
                    fds'[calls'[t].fd].pos = fds'[calls'[t].fd].next
             /\ calls'[t].fd # tainted_socket'.fd
  <2>1. PICK c : c = calls[t]
    OBVIOUS
  <2>2. /\ Reading(t) /\ calls'[t] = c /\ c.fd # tainted_socket'.fd
        /\ fds'[c.fd].of = fds[c.fd].of /\ Open(calls[t].fd)'
        /\ mode # "socket" => fds'[c.fd] = fds[c.fd]
    BY <1>3, <2>1
  <2>3. /\ \A u \in Threads : Reading(u) /\ u # t => calls[u].fd # c.fd
        /\ mode # "socket" => c.offset = OffsetOf(c.call, fds[c.fd])
        /\ c.taint => fds[c.fd].of \in {"input", "stdin"}
        /\ fds[c.fd].of = "input" /\ mode # "socket" => c.taint
        /\ c.call = "read" /\ Counted(c.fd) => fds[c.fd].pos = fds[c.fd].next
    BY <2>1, <2>2 DEF CallPart
  <2>4. Counted(calls[t].fd)' => mode # "socket" /\ Counted(c.fd)
    BY <1>1, <2>2 DEF Counted, mode
  <2> QED
    BY <1>1, <1>2, <2>2, <2>3, <2>4
<1> QED
  BY <1>3, Zenon DEF CallPart

LEMMA CallsStay ==
    ASSUME Types, CallPart, prog' = prog, calls' = calls, tainted_socket' = tainted_socket,
           \A t \in Threads : Reading(t) => fds'[calls[t].fd] = fds[calls[t].fd]
    PROVE  CallPart' /\ Closing' = Closing /\ Pending' = Pending
<1>1. /\ \A t : Reading(t)' <=> Reading(t)
      /\ Closing' = Closing /\ Pending' = Pending
  BY DEF Reading, Closing, Pending
<1>2. \A t \in Threads : Reading(t) => Open(calls[t].fd) /\ calls[t].fd # tainted_socket.fd
  BY DEF CallPart
<1>3. \A t \in Threads : Reading(t) => Open(calls[t].fd)'
  BY <1>2 DEF Open
<1> QED
  BY <1>1, <1>2, <1>3, CallsKept

\* A file is opened as fd: what the absence of a slip says of it.
Opened(file, fd) ==
    /\ file \in {"input", "other"} /\ fd \in Fds /\ fd \notin Pending
    /\ fds' = [fds EXCEPT ![fd] = At(file, 0)]
    /\ mode = "forced" => fd # 0
    /\ file = "input" => Named /\ ~SecondInput(fd) /\ tainted' = [tainted EXCEPT !.fd = fd]
    /\ file = "other" => tainted' = tainted /\ ~taint_get_file(fd)
    /\ UNCHANGED <<prog, tainted_socket, current_stdin_offset, utmp, calls>>

LEMMA OpenedCore ==
    ASSUME Core, ~Uses("socket"), NEW file, NEW fd, Opened(file, fd)
    PROVE  Core'
<1>1. /\ Types /\ KnownPart /\ CountPart /\ CallPart /\ UtmpPart /\ SocketPart
  BY Zenon DEF Core
<1>2. /\ file \in {"input", "other"} /\ fd \in Fds /\ fd \notin Pending
      /\ fds' = [fds EXCEPT ![fd] = At(file, 0)]
      /\ mode = "forced" => fd # 0
      /\ file = "input" => Named /\ ~SecondInput(fd) /\ tainted' = [tainted EXCEPT !.fd = fd]
      /\ file = "other" => tainted' = tainted /\ ~taint_get_file(fd)
      /\ prog' = prog /\ tainted_socket' = tainted_socket /\ utmp' = utmp /\ calls' = calls
      /\ current_stdin_offset' = current_stdin_offset
  BY DEF Opened
<1>3. At(file, 0) \in File /\ At(file, 0) # None /\ At(file, 0).of = file /\ At(file, 0).next = 0
  BY <1>2, AtIs, Constants
<1>4. /\ fds' \in [Fds -> {None} \cup File] /\ fds'[fd] = At(file, 0)
      /\ \A g \in Fds : g # fd => fds'[g] = fds[g]
      /\ Open(fd)' /\ \A g \in Fds : g # fd => (Open(g)' <=> Open(g))
  BY <1>1, <1>2, <1>3 DEF Types, Open
<1>5. mode' = mode /\ (Named' <=> Named) /\ (\A g : Counted(g)' <=> Counted(g))
      /\ (\A call : Uses(call)' <=> Uses(call))
  BY <1>2, SameProgram
<1>6. /\ tainted' \in [fd : Fds \cup {-1}, is_utmp : BOOLEAN, offset : Nat]
      /\ tainted'.is_utmp = tainted.is_utmp /\ tainted'.offset = tainted.offset
      /\ file = "input" => tainted'.fd = fd
      /\ file = "other" => tainted'.fd = tainted.fd
  BY <1>1, <1>2 DEF Types
<1>7. CallPart' /\ Closing' = Closing
  <2>1. \A t \in Threads : Reading(t) => fds'[calls[t].fd] = fds[calls[t].fd]
    BY <1>1, <1>2, <1>4, ReadingCall DEF Pending
  <2> QED
    BY <1>1, <1>2, <2>1, CallsStay
<1>8. Types'
  BY <1>1, <1>2, <1>4, <1>6 DEF Types
<1>9. KnownPart'
  <2>1. ASSUME NEW g \in Fds, Open(g)'
        PROVE  /\ mode # "socket" /\ fds'[g].of = "input" => taint_get_file(g)'
               /\ taint_get_file(g)' => fds'[g].of \in {"input", "stdin"}
    <3>1. CASE g = fd
      BY <1>2, <1>3, <1>4, <1>5, <1>6, <3>1 DEF taint_get_file, Named
    <3>2. CASE g # fd
      <4>1. fds'[g] = fds[g] /\ Open(g)
        BY <1>4, <2>1, <3>2
      <4>2. CASE file = "input"
        <5>1. fds[g].of = "input" => mode = "forced" /\ g = 0
          BY <1>2, <3>2, <4>1, <4>2 DEF SecondInput
        <5> QED
          BY <1>1, <1>5, <1>6, <3>2, <4>1, <4>2, <5>1 DEF KnownPart, taint_get_file
      <4>3. CASE file = "other"
        BY <1>1, <1>5, <1>6, <4>1, <4>3 DEF KnownPart, taint_get_file
      <4> QED
        BY <1>2, <4>2, <4>3
    <3> QED
      BY <3>1, <3>2
  <2>2. ASSUME NEW g \in Fds, taint_get_file(g)', ~Open(g)'
        PROVE  g \in Closing' \/ (mode = "forced" /\ g = 0)
    <3>1. g # fd /\ ~Open(g)
      BY <1>4, <2>2
    <3>2. CASE file = "input"
      BY <1>5, <1>6, <2>2, <3>1, <3>2 DEF taint_get_file
    <3>3. CASE file = "other"
      BY <1>1, <1>5, <1>6, <1>7, <2>2, <3>1, <3>3 DEF KnownPart, taint_get_file
    <3> QED
      BY <1>2, <3>2, <3>3
  <2>3. ~Named' => tainted'.fd \in {-1, 0}
    BY <1>1, <1>2, <1>5, <1>6 DEF KnownPart
  <2> QED
    BY <1>5, <2>1, <2>2, <2>3 DEF KnownPart
<1>10. CountPart'
  <2>1. CASE fd # 0
    BY <1>1, <1>2, <1>4, <1>5, <2>1, Constants DEF CountPart
  <2>2. CASE fd = 0
    <3>1. mode # "forced"
      BY <1>2, <2>2
    <3>2. CASE file = "input"
      <4>1. mode = "file"
        BY <1>2, <3>1, <3>2 DEF Named
      <4> QED
        BY <1>5, <4>1 DEF CountPart, Counted
    <3>3. CASE file = "other"
      BY <1>3, <1>4, <1>5, <2>2, <3>1, <3>3 DEF CountPart
    <3> QED
      BY <1>2, <3>2, <3>3
  <2> QED
    BY <2>1, <2>2
<1>11. UtmpPart'
  BY <1>1, <1>2, <1>5, <1>6 DEF UtmpPart
<1>12. SocketPart'
  <2>1. tainted_socket'.fd = -1
    BY <1>1, <1>2 DEF SocketPart
  <2>2. file = "input" => mode # "socket"
    BY <1>2 DEF Named
  <2> QED
    BY <1>1, <1>2, <1>3, <1>4, <1>5, <2>1, <2>2, Constants DEF SocketPart
<1> QED
  BY <1>7, <1>8, <1>9, <1>10, <1>11, <1>12 DEF Core

\* A descriptor that is not open is of no call that reads.
LEMMA FreeIsIdle ==
    ASSUME Types, CallPart, NEW fd, ~Open(fd)
    PROVE  fd \notin Pending
BY DEF CallPart, Pending

\* What OpenSlip rules out.
LEMMA OpenedBy ==
    ASSUME Types, KnownPart, NEW file \in Files, NEW fd \in Fds, NEW tracked \in BOOLEAN,
           OpenSlip(file, fd, tracked) = "none", fd \notin Pending,
           Open(fd) /\ file = "other" => ~taint_get_file(fd),
           fds' = [fds EXCEPT ![fd] = At(file, 0)],
           tainted' = IF tracked THEN taint_set_file(file, fd) ELSE tainted,
           UNCHANGED <<prog, tainted_socket, current_stdin_offset, utmp, calls>>
    PROVE  Opened(file, fd)
<1>1. file \in {"input", "other"} /\ ~(mode = "forced" /\ fd = 0)
  BY DEF Files, OpenSlip
<1>2. CASE file = "input"
  <2>1. Named /\ ~SecondInput(fd) /\ tracked
    BY <1>1, <1>2 DEF OpenSlip, Slip
  <2>2. tainted' = [tainted EXCEPT !.fd = fd]
    BY <1>2, <2>1 DEF taint_set_file
  <2> QED
    BY <1>1, <1>2, <2>1, <2>2 DEF Opened
<1>3. CASE file = "other"
  <2>1. ~(fd \in Closing /\ taint_get_file(fd))
    BY <1>1, <1>3 DEF OpenSlip, Slip
  <2>2. ~taint_get_file(fd)
    BY <1>1, <1>3, <2>1 DEF KnownPart
  <2>3. tainted' = tainted
    BY <1>3 DEF taint_set_file
  <2> QED
    BY <1>1, <1>3, <2>2, <2>3 DEF Opened
<1> QED
  BY <1>1, <1>2, <1>3

\* Nothing is delivered.
LEMMA NothingDelivered ==
    ASSUME last' = <<>>
    PROVE  LastPart'
BY DEF LastPart, Range

LEMMA OpenCore ==
    ASSUME Core, slip' = "none", NEW file \in Files,
           \/ DoOpen(file, FALSE) \/ DoOpen(file, TRUE) \/ DoFopen(file)
           \/ \E fd \in Fds : DoFreopen(file, fd)
    PROVE  Core' /\ LastPart'
<1>1. Types /\ KnownPart /\ CallPart /\ SocketPart
  BY Zenon DEF Core
<1>2. ASSUME NEW directory \in BOOLEAN, DoOpen(file, directory)
      PROVE  Core' /\ LastPart'
  <2> DEFINE tracked == LowestFree # 0 /\ ~directory
  <2>1. /\ tainted' = IF tracked THEN taint_set_file(file, LowestFree) ELSE tainted
        /\ OpenSlip(file, LowestFree, tracked) = "none"
        /\ fds' = [fds EXCEPT ![LowestFree] = At(file, 0)]
        /\ last' = <<>> /\ Uses("open") /\ \E fd \in Fds : ~Open(fd)
        /\ UNCHANGED <<prog, tainted_socket, current_stdin_offset, utmp, calls>>
    BY <1>2 DEF DoOpen
  <2>2. LowestFree \in Fds /\ ~Open(LowestFree) /\ LowestFree \notin Pending
    BY <1>1, <2>1, Lowest, FreeIsIdle
  <2>3. tracked \in BOOLEAN
    OBVIOUS
  <2> HIDE DEF tracked
  <2>4. Opened(file, LowestFree)
    BY <1>1, <2>1, <2>2, <2>3, OpenedBy
  <2> QED
    BY <1>1, <2>1, <2>4, NoSockets, OpenedCore, NothingDelivered
<1>3. ASSUME DoFopen(file)
      PROVE  Core' /\ LastPart'
  <2>1. /\ tainted' = taint_set_file(file, LowestFree)
        /\ OpenSlip(file, LowestFree, TRUE) = "none"
        /\ fds' = [fds EXCEPT ![LowestFree] = At(file, 0)]
        /\ last' = <<>> /\ Uses("fopen") /\ \E fd \in Fds : ~Open(fd)
        /\ UNCHANGED <<prog, tainted_socket, current_stdin_offset, utmp, calls>>
    BY <1>3 DEF DoFopen
  <2>2. LowestFree \in Fds /\ ~Open(LowestFree) /\ LowestFree \notin Pending
    BY <1>1, <2>1, Lowest, FreeIsIdle
  <2>3. Opened(file, LowestFree)
    BY <1>1, <2>1, <2>2, OpenedBy
  <2> QED
    BY <1>1, <2>1, <2>3, NoSockets, OpenedCore, NothingDelivered
<1>4. ASSUME NEW fd \in Fds, DoFreopen(file, fd)
      PROVE  Core' /\ LastPart'
  <2>1. /\ tainted' = taint_set_file(file, fd)
        /\ fds' = [fds EXCEPT ![fd] = At(file, 0)]
        /\ last' = <<>> /\ Uses("freopen") /\ Open(fd)
        /\ UNCHANGED <<prog, tainted_socket, current_stdin_offset, utmp, calls>>
    BY <1>4 DEF DoFreopen
  <2>2. ~(fd \in Pending \/ (file # "input" /\ taint_get_file(fd)))
        /\ OpenSlip(file, fd, TRUE) = "none"
    BY <1>4 DEF DoFreopen
  <2>3. Opened(file, fd)
    BY <1>1, <2>1, <2>2, OpenedBy
  <2> QED
    BY <1>1, <2>1, <2>3, NoSockets, OpenedCore, NothingDelivered
<1> QED
  BY <1>2, <1>3, <1>4

\* A descriptor that is closed, and that the wrappers may forget.
Closed(fd) ==
    /\ fd \in Fds /\ Open(fd) /\ fd \notin Pending
    /\ fds' = [fds EXCEPT ![fd] = None]
    /\ UNCHANGED <<prog, tainted_socket, current_stdin_offset, utmp>>

LEMMA ClosedParts ==
    ASSUME Core, NEW fd, Closed(fd)
    PROVE  /\ fds' \in [Fds -> {None} \cup File] /\ ~Open(fd)'
           /\ \A g \in Fds : g # fd => fds'[g] = fds[g] /\ (Open(g)' <=> Open(g))
           /\ \A t \in Threads : Reading(t) => fds'[calls[t].fd] = fds[calls[t].fd]
           /\ CountPart' /\ SocketPart'
<1>1. /\ Types /\ CountPart /\ CallPart /\ SocketPart
  BY Zenon DEF Core
<1>2. /\ fds' \in [Fds -> {None} \cup File] /\ fd \in Fds /\ ~Open(fd)'
      /\ \A g \in Fds : g # fd => fds'[g] = fds[g] /\ (Open(g)' <=> Open(g))
  BY <1>1 DEF Closed, Types, Open
<1>3. \A t \in Threads : Reading(t) => fds'[calls[t].fd] = fds[calls[t].fd]
  BY <1>1, <1>2, ReadingCall DEF Closed, Pending
<1>4. mode' = mode /\ (Named' <=> Named) /\ (\A g : Counted(g)' <=> Counted(g))
      /\ (\A call : Uses(call)' <=> Uses(call))
      /\ current_stdin_offset' = current_stdin_offset /\ tainted_socket' = tainted_socket
  BY SameProgram DEF Closed
<1>5. CountPart'
  BY <1>1, <1>2, <1>4, Constants DEF CountPart
<1>6. SocketPart'
  BY <1>1, <1>2, <1>4 DEF SocketPart
<1> QED
  BY <1>2, <1>3, <1>5, <1>6

LEMMA CloseCore ==
    ASSUME Core, slip' = "none", NEW fd \in Fds, DoClose(fd) \/ WriteSame(fd)
    PROVE  Core' /\ LastPart'
<1>1. /\ Types /\ KnownPart /\ CallPart /\ UtmpPart /\ SocketPart
  BY Zenon DEF Core
<1>2. /\ Open(fd) /\ fd \notin Pending /\ fds' = [fds EXCEPT ![fd] = None] /\ last' = <<>>
      /\ prog' = prog /\ tainted_socket' = tainted_socket
      /\ current_stdin_offset' = current_stdin_offset
      /\ utmp' = utmp /\ calls' = calls
      /\ tainted' = taint_close_file(fd) \/ (tainted' = tainted /\ ~taint_get_file(fd))
  BY DEF DoClose, WriteSame, Slip
<1>3. Closed(fd)
  BY <1>2 DEF Closed
<1>4. /\ fds' \in [Fds -> {None} \cup File] /\ ~Open(fd)'
      /\ \A g \in Fds : g # fd => fds'[g] = fds[g] /\ (Open(g)' <=> Open(g))
      /\ CountPart' /\ SocketPart'
  BY <1>3, ClosedParts
<1>5. CallPart' /\ Closing' = Closing
  <2>1. \A t \in Threads : Reading(t) => fds'[calls[t].fd] = fds[calls[t].fd]
    BY <1>3, ClosedParts
  <2> QED
    BY <1>1, <1>2, <2>1, CallsStay
<1>6. mode' = mode /\ (Named' <=> Named)
  BY <1>2, SameProgram
<1>7. /\ tainted' \in [fd : Fds \cup {-1}, is_utmp : BOOLEAN, offset : Nat]
      /\ tainted'.is_utmp = tainted.is_utmp /\ tainted'.offset = tainted.offset
      /\ \A g \in Fds : g # fd => (tainted'.fd = g <=> tainted.fd = g)
      /\ tainted'.fd = fd => mode = "socket"
      /\ tainted'.fd \in {-1, tainted.fd}
  <2>1. -1 # fd /\ \A g \in Fds : g # -1
    BY Constants
  <2>2. CASE tainted' = taint_close_file(fd)
    BY <1>1, <2>1, <2>2 DEF Types, taint_close_file
  <2>3. CASE tainted' = tainted /\ ~taint_get_file(fd)
    BY <1>1, <2>3 DEF Types, taint_get_file
  <2> QED
    BY <1>2, <2>2, <2>3
<1>8. Types'
  BY <1>1, <1>2, <1>4, <1>7 DEF Types
<1>9. KnownPart'
  <2>1. \A g \in Fds : g # fd => (taint_get_file(g)' <=> taint_get_file(g))
    BY <1>6, <1>7 DEF taint_get_file
  <2>2. taint_get_file(fd)' => mode = "forced" /\ fd = 0
    BY <1>6, <1>7 DEF taint_get_file
  <2>3. ~Named' => tainted'.fd \in {-1, 0}
    BY <1>1, <1>6, <1>7 DEF KnownPart
  <2> QED
    BY <1>1, <1>4, <1>5, <1>6, <2>1, <2>2, <2>3 DEF KnownPart
<1>10. UtmpPart'
  BY <1>1, <1>2, <1>6, <1>7 DEF UtmpPart
<1> QED
  BY <1>2, <1>4, <1>5, <1>8, <1>9, <1>10, NothingDelivered DEF Core

\* A thread that was in no call is in one, or the other way round.
LEMMA OneCall ==
    ASSUME Types, NEW t \in Threads, NEW c, calls' = [calls EXCEPT ![t] = c]
    PROVE  /\ calls'[t] = c
           /\ \A u \in Threads : u # t => calls'[u] = calls[u] /\ (Reading(u)' <=> Reading(u))
           /\ Reading(t)' <=> c # None /\ c.call # "fclose"
<1>1. calls'[t] = c /\ \A u \in Threads : u # t => calls'[u] = calls[u]
  BY DEF Types
<1> QED
  BY <1>1 DEF Reading

LEMMA FcloseBeginCore ==
    ASSUME Core, slip' = "none", NEW t \in Threads, NEW fd \in Fds, FcloseBegin(t, fd)
    PROVE  Core' /\ LastPart'
<1>1. /\ Types /\ KnownPart /\ CallPart /\ UtmpPart /\ SocketPart
  BY Zenon DEF Core
<1> DEFINE c == [call |-> "fclose", fd |-> fd]
<1>2. /\ Open(fd) /\ fd \notin Pending /\ fds' = [fds EXCEPT ![fd] = None] /\ last' = <<>>
      /\ calls[t] = None /\ calls' = [calls EXCEPT ![t] = c]
      /\ prog' = prog /\ tainted_socket' = tainted_socket
      /\ current_stdin_offset' = current_stdin_offset
      /\ utmp' = utmp /\ tainted' = tainted
  BY DEF FcloseBegin, Slip
<1>3. Closed(fd)
  BY <1>2 DEF Closed
<1>4. /\ fds' \in [Fds -> {None} \cup File] /\ ~Open(fd)'
      /\ \A g \in Fds : g # fd => fds'[g] = fds[g] /\ (Open(g)' <=> Open(g))
      /\ CountPart' /\ SocketPart'
      /\ \A u \in Threads : Reading(u) => fds'[calls[u].fd] = fds[calls[u].fd]
  BY <1>3, ClosedParts
<1>5. c \in CloseCall /\ c # None /\ c.fd = fd /\ c.call = "fclose"
  BY Constants DEF CloseCall
<1> HIDE DEF c
<1>6. /\ calls'[t] = c /\ ~Reading(t)' /\ ~Reading(t)
      /\ \A u \in Threads : u # t => calls'[u] = calls[u] /\ (Reading(u)' <=> Reading(u))
  BY <1>1, <1>2, <1>5, OneCall DEF Reading
<1>7. CallPart'
  <2>1. ASSUME NEW u \in Threads, Reading(u)'
        PROVE  /\ Reading(u) /\ calls'[u] = calls[u] /\ calls[u].fd # tainted_socket'.fd
               /\ fds'[calls[u].fd] = fds[calls[u].fd] /\ Open(calls[u].fd)'
    <3>1. Reading(u) /\ calls'[u] = calls[u]
      BY <1>6, <2>1
    <3>2. Open(calls[u].fd) /\ calls[u].fd # tainted_socket.fd
      BY <1>1, <3>1 DEF CallPart
    <3> QED
      BY <1>2, <1>4, <3>1, <3>2 DEF Open
  <2> QED
    BY <1>1, <1>2, <2>1, CallsKept
<1>8. Closing \cup {fd} \subseteq Closing'
  BY <1>2, <1>5, <1>6 DEF Closing
<1>9. mode' = mode /\ (Named' <=> Named)
  BY <1>2, SameProgram
<1>10. Types'
  BY <1>1, <1>2, <1>4, <1>5 DEF Types
<1>11. KnownPart'
  <2>1. \A g : taint_get_file(g)' <=> taint_get_file(g)
    BY <1>2, <1>9 DEF taint_get_file
  <2> QED
    BY <1>1, <1>2, <1>4, <1>8, <1>9, <2>1 DEF KnownPart
<1>12. UtmpPart'
  BY <1>1, <1>2, <1>9 DEF UtmpPart
<1> QED
  BY <1>2, <1>4, <1>7, <1>10, <1>11, <1>12, NothingDelivered DEF Core

LEMMA FcloseEndCore ==
    ASSUME Core, slip' = "none", NEW t \in Threads, NEW ok \in BOOLEAN, FcloseEnd(t, ok)
    PROVE  Core' /\ LastPart'
<1>1. /\ Types /\ KnownPart /\ CountPart /\ CallPart /\ UtmpPart /\ SocketPart
  BY Zenon DEF Core
<1>2. PICK fd : fd = calls[t].fd
  OBVIOUS
<1>3. /\ calls[t] # None /\ calls[t].call = "fclose"
      /\ tainted' = taint_close_file(fd) \/ (tainted' = tainted /\ (Open(fd) \/ fd # tainted.fd))
      /\ calls' = [calls EXCEPT ![t] = None] /\ last' = <<>>
      /\ Open(fd) => tainted' = tainted
      /\ prog' = prog /\ tainted_socket' = tainted_socket /\ fds' = fds
      /\ current_stdin_offset' = current_stdin_offset /\ utmp' = utmp
  BY <1>2 DEF FcloseEnd, Slip
<1>4. ~Reading(t) /\ fd \in Fds
  BY <1>1, <1>2, <1>3, ClosingCall DEF Reading
<1>5. /\ calls'[t] = None /\ ~Reading(t)'
      /\ \A u \in Threads : u # t => calls'[u] = calls[u] /\ (Reading(u)' <=> Reading(u))
  BY <1>1, <1>3, OneCall
<1>6. mode' = mode /\ (Named' <=> Named) /\ (\A g : Counted(g)' <=> Counted(g))
      /\ (\A call : Uses(call)' <=> Uses(call)) /\ (\A g : Open(g)' <=> Open(g))
  BY <1>3, SameProgram DEF Open
<1>7. CallPart'
  <2>1. ASSUME NEW u \in Threads, Reading(u)'
        PROVE  /\ Reading(u) /\ calls'[u] = calls[u] /\ calls[u].fd # tainted_socket'.fd
               /\ fds'[calls[u].fd] = fds[calls[u].fd] /\ Open(calls[u].fd)'
    <3>1. Reading(u) /\ calls'[u] = calls[u]
      BY <1>5, <2>1
    <3>2. Open(calls[u].fd) /\ calls[u].fd # tainted_socket.fd
      BY <1>1, <3>1 DEF CallPart
    <3> QED
      BY <1>3, <1>6, <3>1, <3>2
  <2> QED
    BY <1>1, <1>3, <2>1, CallsKept
<1>8. Closing \subseteq Closing' \cup {fd}
  BY <1>2, <1>5 DEF Closing
<1>9. /\ tainted' \in [fd : Fds \cup {-1}, is_utmp : BOOLEAN, offset : Nat]
      /\ tainted'.is_utmp = tainted.is_utmp /\ tainted'.offset = tainted.offset
      /\ \A g \in Fds : g # fd => (tainted'.fd = g <=> tainted.fd = g)
      /\ ~Open(fd) => tainted'.fd # fd
      /\ tainted'.fd \in {-1, tainted.fd}
  <2>1. -1 # fd /\ \A g \in Fds : g # -1
    BY <1>4, Constants
  <2> QED
    BY <1>1, <1>3, <2>1 DEF Types, taint_close_file
<1>10. Types'
  BY <1>1, <1>3, <1>9 DEF Types
<1>11. KnownPart'
  <2>1. \A g \in Fds : g # fd => (taint_get_file(g)' <=> taint_get_file(g))
    BY <1>6, <1>9 DEF taint_get_file
  <2>2. ~Open(fd) /\ taint_get_file(fd)' => mode = "forced" /\ fd = 0
    BY <1>6, <1>9 DEF taint_get_file
  <2>3. Open(fd) => (taint_get_file(fd)' <=> taint_get_file(fd))
    BY <1>3, <1>6 DEF taint_get_file
  <2>4. ~Named' => tainted'.fd \in {-1, 0}
    BY <1>1, <1>6, <1>9 DEF KnownPart
  <2>5. ASSUME NEW g \in Fds, Open(g)
        PROVE  /\ mode # "socket" /\ fds[g].of = "input" => taint_get_file(g)'
               /\ taint_get_file(g)' => fds[g].of \in {"input", "stdin"}
    BY <1>1, <2>1, <2>3, <2>5 DEF KnownPart
  <2>6. ASSUME NEW g \in Fds, taint_get_file(g)', ~Open(g)
        PROVE  g \in Closing' \/ (mode = "forced" /\ g = 0)
    BY <1>1, <1>8, <2>1, <2>2, <2>6 DEF KnownPart
  <2> QED
    BY <1>3, <1>6, <2>4, <2>5, <2>6 DEF KnownPart
<1>12. CountPart' /\ SocketPart'
  BY <1>1, <1>3, <1>6 DEF CountPart, SocketPart
<1>13. UtmpPart'
  BY <1>1, <1>3, <1>6, <1>9 DEF UtmpPart
<1> QED
  BY <1>3, <1>7, <1>10, <1>11, <1>12, <1>13, NothingDelivered DEF Core

\* A step that changes nothing that counts.
LEMMA Unchanged ==
    ASSUME Core, UNCHANGED <<prog, fds, tainted, tainted_socket, current_stdin_offset, utmp, calls>>
    PROVE  Core'
<1>1. /\ Types /\ KnownPart /\ CountPart /\ CallPart /\ UtmpPart /\ SocketPart
  BY Zenon DEF Core
<1>2. /\ mode' = mode /\ (Named' <=> Named) /\ (\A g : Counted(g)' <=> Counted(g))
      /\ (\A call : Uses(call)' <=> Uses(call)) /\ (\A g : Open(g)' <=> Open(g))
      /\ (\A g : taint_get_file(g)' <=> taint_get_file(g))
  BY SameProgram DEF Open, taint_get_file
<1>3. CallPart' /\ Closing' = Closing
  BY <1>1, CallsStay
<1>4. Types' /\ UtmpPart'
  BY <1>1, <1>2 DEF Types, UtmpPart
<1>5. KnownPart'
  BY <1>1, <1>2, <1>3 DEF KnownPart
<1>6. CountPart' /\ SocketPart'
  BY <1>1, <1>2 DEF CountPart, SocketPart
<1> QED
  BY <1>3, <1>4, <1>5, <1>6 DEF Core

LEMMA FailedOpenCore ==
    ASSUME Core, slip' = "none", NEW file \in Files, OpenFails(file) \/ Stat(file)
    PROVE  Core' /\ LastPart'
<1>1. /\ last' = <<>>
      /\ UNCHANGED <<prog, fds, tainted, tainted_socket, current_stdin_offset, utmp, calls>>
  BY DEF OpenFails, Stat, Slip
<1> QED
  BY <1>1, Unchanged, NothingDelivered

-----------------------------------------------------------------------------
(* Positions. *)

\* A descriptor at another position of its file.
LEMMA MovedParts ==
    ASSUME Core, NEW fd \in Fds, Open(fd), NEW f \in File, f.of = fds[fd].of,
           fds' = [fds EXCEPT ![fd] = f], prog' = prog, tainted' = tainted, Closing' = Closing
    PROVE  /\ fds' \in [Fds -> {None} \cup File] /\ fds'[fd] = f
           /\ \A g \in Fds : g # fd => fds'[g] = fds[g]
           /\ \A g \in Fds : fds'[g].of = fds[g].of /\ (Open(g)' <=> Open(g))
           /\ KnownPart'
<1>1. Types /\ KnownPart
  BY Zenon DEF Core
<1>2. /\ fds' \in [Fds -> {None} \cup File] /\ fds'[fd] = f
      /\ \A g \in Fds : g # fd => fds'[g] = fds[g]
  BY <1>1 DEF Types
<1>3. \A g \in Fds : fds'[g].of = fds[g].of /\ (Open(g)' <=> Open(g))
  BY <1>2, Constants DEF Open
<1>4. mode' = mode /\ (Named' <=> Named) /\ \A g : taint_get_file(g)' <=> taint_get_file(g)
  BY SameProgram DEF taint_get_file
<1>5. KnownPart'
  BY <1>1, <1>3, <1>4 DEF KnownPart
<1> QED
  BY <1>2, <1>3, <1>5

LEMMA Repositioned ==
    ASSUME NEW g \in File, NEW p
    PROVE  LET f == [[g EXCEPT !.pos = p] EXCEPT !.next = p]
           IN  f.of = g.of /\ f.next = p /\ (p \in 0 .. Size => f \in File)
BY DEF File

LEMMA SeekCore ==
    ASSUME Core, slip' = "none", NEW fd \in Fds, NEW pos \in Offsets, NEW stream \in BOOLEAN,
           Seek(fd, pos, stream)
    PROVE  Core' /\ LastPart'
<1>1. /\ Types /\ CountPart /\ CallPart /\ UtmpPart /\ SocketPart
  BY Zenon DEF Core
<1> DEFINE f == [[fds[fd] EXCEPT !.pos = pos] EXCEPT !.next = pos]
           names == {n \in {"counted seek"} : Counted(fd) /\ pos # fds[fd].next}
                        \cup {n \in {"seek in use"} : fd \in Pending}
                        \cup {n \in {"under a stream"} : ~stream /\ fds[fd].next # fds[fd].pos}
<1>2. /\ Open(fd) /\ Uses("seek") /\ last' = <<>> /\ FirstSlip(names) = "none"
      /\ fds' = [fds EXCEPT ![fd].pos = pos,
                            ![fd].next = IF stream \/ ~(fds[fd].next # fds[fd].pos) THEN pos ELSE @]
      /\ prog' = prog /\ tainted' = tainted /\ tainted_socket' = tainted_socket /\ utmp' = utmp
      /\ calls' = calls /\ current_stdin_offset' = current_stdin_offset
  BY DEF Seek
<1>3. /\ (Counted(fd) => pos = fds[fd].next) /\ fd \notin Pending
      /\ stream \/ ~(fds[fd].next # fds[fd].pos)
  <2>1. names = {}
    BY <1>2, NoSlip
  <2> QED
    BY <2>1
<1>4. fds[fd] \in File /\ fds[fd].of \in {"input", "other", "stdin"}
  BY <1>1, <1>2, OpenFile
<1>5. f \in File /\ f.of = fds[fd].of /\ f.next = pos
  BY <1>4, Repositioned DEF Offsets
<1>6. fds' = [fds EXCEPT ![fd] = f]
  <2>1. fds \in [Fds -> {None} \cup File]
    BY <1>1 DEF Types
  <2> QED
    BY <1>2, <1>3, <2>1
<1> HIDE DEF f, names
<1>7. /\ \A t : Reading(t)' <=> Reading(t)
      /\ Closing' = Closing
  BY <1>2 DEF Reading, Closing
<1>8. /\ fds' \in [Fds -> {None} \cup File] /\ fds'[fd] = f
      /\ \A g \in Fds : g # fd => fds'[g] = fds[g]
      /\ \A g \in Fds : fds'[g].of = fds[g].of /\ (Open(g)' <=> Open(g))
      /\ KnownPart'
  BY <1>2, <1>5, <1>6, <1>7, MovedParts
<1>9. CallPart'
  <2>1. \A t \in Threads : Reading(t) => fds'[calls[t].fd] = fds[calls[t].fd]
    BY <1>1, <1>3, <1>8, ReadingCall DEF Pending
  <2> QED
    BY <1>1, <1>2, <2>1, CallsStay
<1>10. mode' = mode /\ (Named' <=> Named) /\ (\A g : Counted(g)' <=> Counted(g))
       /\ (\A call : Uses(call)' <=> Uses(call))
  BY <1>2, SameProgram
<1>11. Types' /\ UtmpPart'
  BY <1>1, <1>2, <1>8, <1>10 DEF Types, UtmpPart
<1>12. CountPart'
  BY <1>1, <1>2, <1>3, <1>5, <1>8, <1>10, Constants DEF CountPart
<1>13. SocketPart'
  <2>1. tainted_socket.fd = -1
    BY <1>1, <1>2, NoSockets
  <2> QED
    BY <1>1, <1>2, <1>8, <1>10, <2>1, Constants DEF SocketPart
<1> QED
  BY <1>2, <1>8, <1>9, <1>11, <1>12, <1>13, NothingDelivered DEF Core

-----------------------------------------------------------------------------
(* Reading. *)

LEMMA BeginCore ==
    ASSUME Core, slip' = "none", NEW t \in Threads, NEW call \in Streams \cup {"read"},
           NEW fd \in Fds, NEW n \in Counts, Begin(t, call, fd, n)
    PROVE  Core' /\ LastPart'
<1>1. /\ Types /\ KnownPart /\ CountPart /\ CallPart /\ UtmpPart /\ SocketPart
  BY Zenon DEF Core
<1> DEFINE c == [call |-> call, fd |-> fd, n |-> n, offset |-> OffsetOf(call, fds[fd]),
                 taint |-> taint_get_file(fd)]
           names == {m \in {"shared"} : fd \in Pending}
                        \cup {m \in {"read from a socket"} : mode = "socket" /\ fd = tainted_socket.fd}
                        \cup {m \in {"mixed"} : call = "read" /\ Counted(fd) /\ fds[fd].next # fds[fd].pos}
<1>2. /\ Open(fd) /\ last' = <<>> /\ FirstSlip(names) = "none"
      /\ calls[t] = None /\ calls' = [calls EXCEPT ![t] = c]
      /\ prog' = prog /\ tainted' = tainted /\ tainted_socket' = tainted_socket /\ utmp' = utmp
      /\ fds' = fds /\ current_stdin_offset' = current_stdin_offset
  BY DEF Begin
<1>3. /\ fd \notin Pending /\ ~(mode = "socket" /\ fd = tainted_socket.fd)
      /\ call = "read" /\ Counted(fd) => fds[fd].next = fds[fd].pos
  <2>1. names = {}
    BY <1>2, NoSlip
  <2> QED
    BY <2>1
<1>4. fd # tainted_socket.fd
  <2>1. tainted_socket.fd # -1 => mode = "socket"
    BY <1>1, SocketAssumption DEF SocketPart, Types, Uses, mode
  <2> QED
    BY <1>3, <2>1, Constants
<1>5. OffsetOf(call, fds[fd]) \in Nat /\ n \in Nat \ {0} /\ taint_get_file(fd) \in BOOLEAN
  <2>1. fds[fd].pos \in Nat /\ fds[fd].next \in Nat
    <3>1. fds[fd].pos \in 0 .. Size /\ fds[fd].next \in 0 .. Size
      BY <1>1, <1>2, OpenFile
    <3> QED
      BY <3>1, Constants
  <2> QED
    BY <2>1, Constants DEF OffsetOf, taint_get_file
<1>6. /\ c \in ReadCall /\ c # None /\ c.call = call /\ c.fd = fd
      /\ c.offset = OffsetOf(call, fds[fd]) /\ c.taint = taint_get_file(fd)
      /\ call # "fclose"
  <2>1. c \in ReadCall
    BY <1>5 DEF ReadCall
  <2> QED
    BY <2>1, Constants DEF Streams
<1> HIDE DEF c, names
<1>7. /\ calls'[t] = c /\ Reading(t)' /\ ~Reading(t)
      /\ \A u \in Threads : u # t => calls'[u] = calls[u] /\ (Reading(u)' <=> Reading(u))
  BY <1>1, <1>2, <1>6, OneCall DEF Reading
<1>8. mode' = mode /\ (Named' <=> Named) /\ (\A g : Counted(g)' <=> Counted(g))
      /\ (\A k : Uses(k)' <=> Uses(k)) /\ (\A g : Open(g)' <=> Open(g))
      /\ (\A g : taint_get_file(g)' <=> taint_get_file(g))
  BY <1>2, SameProgram DEF Open, taint_get_file
<1>9. \A u \in Threads : Reading(u) => calls[u].fd # fd
  BY <1>3 DEF Pending
<1>10. ASSUME NEW v \in Threads, Reading(v)'
       PROVE  /\ Open(calls[v].fd)'
              /\ \A u \in Threads : Reading(u)' /\ u # v => calls'[u].fd # calls'[v].fd
              /\ mode' # "socket" => calls'[v].offset = OffsetOf(calls'[v].call, fds'[calls'[v].fd])
              /\ calls'[v].taint => fds'[calls'[v].fd].of \in {"input", "stdin"}
              /\ fds'[calls'[v].fd].of = "input" /\ mode' # "socket" => calls'[v].taint
              /\ calls'[v].call = "read" /\ Counted(calls[v].fd)' =>
                     fds'[calls'[v].fd].pos = fds'[calls'[v].fd].next
              /\ calls'[v].fd # tainted_socket'.fd
  <2>1. CASE v = t
    <3>1. Open(calls[v].fd)'
      BY <1>2, <1>6, <1>7, <2>1 DEF Open
    <3>2. Counted(calls[v].fd)' => Counted(fd)
      BY <1>6, <1>7, <1>8, <2>1 DEF Counted
    <3>3. \A u \in Threads : Reading(u)' /\ u # v => calls'[u].fd # calls'[v].fd
      BY <1>6, <1>7, <1>9, <2>1
    <3>4. /\ taint_get_file(fd) => fds[fd].of \in {"input", "stdin"}
          /\ fds[fd].of = "input" /\ mode # "socket" => taint_get_file(fd)
      BY <1>1, <1>2 DEF KnownPart
    <3> QED
      BY <1>2, <1>3, <1>4, <1>6, <1>7, <1>8, <2>1, <3>1, <3>2, <3>3, <3>4
  <2>2. CASE v # t
    <3>1. PICK d : d = calls[v]
      OBVIOUS
    <3>2. Reading(v) /\ calls'[v] = d
      BY <1>7, <1>10, <2>2, <3>1
    <3>3. /\ \A u \in Threads : Reading(u) /\ u # v => calls[u].fd # d.fd
          /\ mode # "socket" => d.offset = OffsetOf(d.call, fds[d.fd])
          /\ d.taint => fds[d.fd].of \in {"input", "stdin"}
          /\ fds[d.fd].of = "input" /\ mode # "socket" => d.taint
          /\ d.call = "read" /\ Counted(d.fd) => fds[d.fd].pos = fds[d.fd].next
          /\ Open(d.fd) /\ d.fd # tainted_socket.fd /\ d.fd # fd
      BY <1>1, <1>9, <3>1, <3>2 DEF CallPart
    <3>4. Open(calls[v].fd)' /\ (Counted(calls[v].fd)' => Counted(d.fd))
      BY <1>2, <1>8, <3>2, <3>3 DEF Open, Counted
    <3>5. \A u \in Threads : Reading(u)' /\ u # v => calls'[u].fd # d.fd
      BY <1>6, <1>7, <3>3
    <3> QED
      BY <1>2, <1>8, <3>2, <3>3, <3>4, <3>5
  <2> QED
    BY <2>1, <2>2
<1>11. CallPart'
  BY <1>10, Zenon DEF CallPart
<1>12. Closing' = Closing
  BY <1>2, <1>7 DEF Closing
<1>13. Types' /\ UtmpPart'
  BY <1>1, <1>2, <1>6, <1>8 DEF Types, UtmpPart
<1>14. KnownPart'
  BY <1>1, <1>2, <1>8, <1>12 DEF KnownPart
<1>15. CountPart' /\ SocketPart'
  BY <1>1, <1>2, <1>8 DEF CountPart, SocketPart
<1> QED
  BY <1>2, <1>11, <1>13, <1>14, <1>15, NothingDelivered DEF Core

\* A call ends between where it starts and the end of the input.
LEMMA EndOfIs ==
    ASSUME NEW call, NEW pos \in 0 .. Size, NEW n \in Nat
    PROVE  EndOf(call, pos, n) \in pos .. Size
<1> DEFINE limit == IF call = "getline" THEN Size ELSE Min({Size, pos + n})
           lines == {i \in pos + 1 .. limit : Input[i] = "nl"}
<1>1. Size \in Nat /\ pos \in Nat /\ pos <= Size
  BY Constants
<1>2. Min({Size, pos + n}) \in {Size, pos + n} /\ Min({Size, pos + n}) <= Size
  <2>1. {Size, pos + n} \subseteq Nat /\ {Size, pos + n} # {}
    BY <1>1
  <2> QED
    BY <2>1, MinIs
<1>3. limit \in pos .. Size
  BY <1>1, <1>2
<1> HIDE DEF limit
<1>4. ASSUME lines # {}
      PROVE  Min(lines) \in pos .. Size
  <2>1. lines \subseteq pos .. Size /\ lines \subseteq Nat
    BY <1>1, <1>3
  <2> HIDE DEF lines
  <2>2. Min(lines) \in lines
    BY <1>4, <2>1, MinIs
  <2> QED
    BY <2>1, <2>2
<1>5. EndOf(call, pos, n) = IF call \in {"fgets", "gets", "getline"} /\ lines # {} THEN Min(lines) ELSE limit
  BY DEF EndOf, limit
<1> QED
  BY <1>3, <1>4, <1>5

\* A call gives no more labels than it reads bytes.
LEMMA LabelledOfIs ==
    ASSUME NEW call, NEW pos \in Nat, NEW k \in Nat, NEW n
    PROVE  LabelledOf(call, pos, k, n) \in 0 .. k
<1> DEFINE nuls == {i \in pos + 1 .. pos + k : Input[i] = "nul"}
<1>1. ASSUME nuls # {}
      PROVE  Min(nuls) - 1 - pos \in 0 .. k
  <2>1. nuls \subseteq pos + 1 .. pos + k /\ nuls \subseteq Nat
    OBVIOUS
  <2> HIDE DEF nuls
  <2>2. Min(nuls) \in pos + 1 .. pos + k
    BY <1>1, <2>1, MinIs
  <2> QED
    BY <2>2
<1>2. CASE call \in {"fgets", "gets"}
  <2>1. LabelledOf(call, pos, k, n) = IF nuls = {} THEN k ELSE Min(nuls) - 1 - pos
    BY <1>2 DEF LabelledOf
  <2> HIDE DEF nuls
  <2> QED
    BY <1>1, <2>1
<1>3. CASE call = "fread item"
  <2>1. LabelledOf(call, pos, k, n) = IF k = n THEN k ELSE 0
    BY <1>3 DEF LabelledOf
  <2> QED
    BY <2>1
<1>4. CASE call \notin {"fgets", "gets", "fread item"}
  <2>1. LabelledOf(call, pos, k, n) = k
    BY <1>4 DEF LabelledOf
  <2> QED
    BY <2>1
<1> QED
  BY <1>2, <1>3, <1>4

\* The bytes delivered are good when each one is.
LEMMA AllGood ==
    ASSUME NEW n \in Nat, NEW s, DOMAIN s = 1 .. n, last' = s, \A i \in 1 .. n : GoodByte(s[i])
    PROVE  LastPart'
<1>1. \A b \in Range(last') : GoodByte(b)
  BY DEF Range
<1> QED
  BY <1>1 DEF LastPart, GoodByte

LEMMA ByteIs ==
    ASSUME NEW of, NEW off \in Nat, NEW label \in Int,
           label > 0 => of = "input" /\ label = off + 1,
           of = "input" /\ off < Size => label = off + 1
    PROVE  GoodByte([of |-> of, off |-> off, label |-> label])
BY DEF GoodByte

\* What is known of an open descriptor that is not the connection with the peer.
LEMMA KnownFile ==
    ASSUME Core, NEW fd \in Fds, Open(fd), fd # tainted_socket.fd
    PROVE  /\ fds[fd].of = "input" => mode # "socket" /\ taint_get_file(fd)
           /\ taint_get_file(fd) => mode # "socket" /\ fds[fd].of \in {"input", "stdin"}
           /\ taint_get_file(fd) /\ Counted(fd) => fd = 0
<1>1. KnownPart /\ SocketPart
  BY Zenon DEF Core
<1>2. fds[fd].of = "input" => mode # "socket"
  BY <1>1 DEF SocketPart
<1>3. taint_get_file(fd) /\ Counted(fd) => fd = 0
  <2>1. mode = "pipe" => tainted.fd \in {-1, 0}
    BY <1>1 DEF KnownPart, Named
  <2> QED
    BY <2>1, Constants DEF taint_get_file, Counted
<1> QED
  BY <1>1, <1>2, <1>3 DEF KnownPart, taint_get_file

\* The k bytes of a call and their labels, once nothing slips.
LEMMA LabelledGood ==
    ASSUME Core, NEW t \in Threads, Reading(t), NEW start \in Nat, NEW k \in Nat,
           NEW file, NEW tainting \in BOOLEAN, start + k <= Size,
           last' = Labelled(calls[t], file, start, k, tainting),
           tainting => file = "input" /\ Slip(k > 0, ReadSlip(calls[t], start, k)) = "none",
           ~tainting => file # "input",
           tainting => \A i \in Nat : get_label_for(calls[t].fd, calls[t].offset, i) = start + i + 1
    PROVE  LastPart'
<1>1. PICK c : c = calls[t]
  OBVIOUS
<1>2. c.call \in Streams \cup {"read"} /\ c.n \in Nat
  BY <1>1, ReadingCall DEF Core
<1>3. CASE k = 0 \/ c.call = "getc"
  <2>1. CASE last' = <<>>
    BY <2>1, NothingDelivered
  <2>2. CASE last' = <<BeforeTheBuffer>>
    <3>1. GoodByte(BeforeTheBuffer)
      BY ByteIs DEF BeforeTheBuffer
    <3> HIDE DEF BeforeTheBuffer
    <3>2. DOMAIN <<BeforeTheBuffer>> = 1 .. 1 /\ \A i \in 1 .. 1 : <<BeforeTheBuffer>>[i] = BeforeTheBuffer
      OBVIOUS
    <3> QED
      BY <2>2, <3>1, <3>2, AllGood
  <2> QED
    BY <1>1, <1>3, <2>1, <2>2 DEF Labelled
<1>4. CASE k > 0 /\ c.call # "getc"
  <2>1. PICK n : n = LabelledOf(c.call, start, k, c.n)
    OBVIOUS
  <2>2. n \in 0 .. k
    BY <2>1, LabelledOfIs
  <2>3. tainting => c.call # "gets" /\ n >= k
    <3>1. tainting => ReadSlip(c, start, k) = "none"
      BY <1>1, <1>4 DEF Slip
    <3>2. ReadSlip(c, start, k) = "none" => c.call # "gets" /\ ~(n < k)
      BY <2>1 DEF ReadSlip, Slip
    <3> QED
      BY <2>2, <3>1, <3>2
  <2> DEFINE label(i) == IF ~tainting THEN 0
                         ELSE IF i < n THEN get_label_for(c.fd, c.offset, i) ELSE Stale
             s == [i \in 1 .. k |-> [of |-> file, off |-> start + i - 1, label |-> label(i - 1)]]
  <2>4. Labelled(c, file, start, k, tainting) = s \o <<>>
    BY <1>4, <2>1, <2>3 DEF Labelled, Delivered
  <2>5. s \in Seq({s[i] : i \in 1 .. k})
    <3>1. s \in [1 .. k -> {s[i] : i \in 1 .. k}]
      OBVIOUS
    <3> HIDE DEF s
    <3> QED
      BY <3>1, SeqDef
  <2>6. last' = s
    <3> HIDE DEF s
    <3> QED
      BY <1>1, <2>4, <2>5
  <2>7. ASSUME NEW i \in 1 .. k
        PROVE  GoodByte(s[i])
    <3>1. i - 1 \in Nat /\ i - 1 < k /\ start + i - 1 \in Nat /\ start + i - 1 < Size
      BY Constants
    <3>2. label(i - 1) = IF tainting THEN start + (i - 1) + 1 ELSE 0
      BY <1>1, <2>2, <2>3, <3>1
    <3>3. s[i] = [of |-> file, off |-> start + i - 1, label |-> label(i - 1)]
      OBVIOUS
    <3> HIDE DEF s, label
    <3>4. label(i - 1) \in Int /\ (tainting => label(i - 1) = (start + i - 1) + 1)
          /\ (~tainting => label(i - 1) = 0)
      BY <3>1, <3>2
    <3> QED
      BY <3>1, <3>3, <3>4, ByteIs
  <2>8. DOMAIN s = 1 .. k
    OBVIOUS
  <2> HIDE DEF s
  <2> QED
    BY <2>6, <2>7, <2>8, AllGood
<1> QED
  BY <1>3, <1>4

\* What a call takes leaves the descriptor in its file, and a counted one where it was
\* plus what was taken.
LEMMA TakenIs ==
    ASSUME NEW f \in File, NEW call, NEW k \in Nat,
           OffsetOf(call, f) + k <= Size
    PROVE  /\ Taken(f, call, k) \in File /\ Taken(f, call, k).of = f.of
           /\ call \in Streams \/ f.pos = f.next => Taken(f, call, k).next = f.next + k
<1>1. Size \in Nat /\ f.of \in {"input", "other", "stdin"} /\ f.pos \in 0 .. Size /\ f.next \in 0 .. Size
  BY Constants DEF File
<1>2. CASE call \in Streams
  <2>1. f.next + k \in 0 .. Size /\ (IF f.next = f.pos THEN Size ELSE f.pos) \in 0 .. Size
    BY <1>1, <1>2 DEF OffsetOf
  <2>2. Taken(f, call, k) = [f EXCEPT !.next = @ + k, !.pos = IF f.next = f.pos THEN Size ELSE @]
    BY <1>2 DEF Taken
  <2> QED
    BY <1>2, <2>1, <2>2 DEF File
<1>3. CASE call \notin Streams
  <2>1. f.pos + k \in 0 .. Size /\ (IF f.next = f.pos THEN f.next + k ELSE f.next) \in 0 .. Size
    BY <1>1, <1>3 DEF OffsetOf
  <2>2. Taken(f, call, k) = [f EXCEPT !.pos = @ + k, !.next = IF f.next = f.pos THEN @ + k ELSE @]
    BY <1>3 DEF Taken
  <2> QED
    BY <1>3, <2>1, <2>2 DEF File
<1> QED
  BY <1>2, <1>3

LEMMA EndCore ==
    ASSUME Core, slip' = "none", NEW t \in Threads, End(t)
    PROVE  Core' /\ LastPart'
<1>1. /\ Types /\ KnownPart /\ CountPart /\ CallPart /\ UtmpPart /\ SocketPart
  BY Zenon DEF Core
<1> DEFINE c == calls[t]
           f == fds[c.fd]
           start == IF c.call \in Streams THEN f.next ELSE f.pos
           k == EndOf(c.call, start, c.n) - start
           tainting == IF c.call \in {"fread", "fread item"} THEN c.taint ELSE taint_get_file(c.fd)
<1>2. /\ Reading(t)
      /\ fds' = [fds EXCEPT ![c.fd] = Taken(f, c.call, k)]
      /\ calls' = [calls EXCEPT ![t] = None]
      /\ last' = Labelled(c, f.of, start, k, tainting)
      /\ current_stdin_offset' =
             IF tainting THEN CountedBy(c.fd, LabelsTaken(c, start, k)) ELSE current_stdin_offset
      /\ tainting => f.of # "stdin"
      /\ tainting => Slip(k > 0, ReadSlip(c, start, k)) = "none"
      /\ prog' = prog /\ tainted' = tainted /\ tainted_socket' = tainted_socket /\ utmp' = utmp
  BY DEF End, Slip
<1>3. c = calls[t] /\ f = fds[c.fd] /\ start = OffsetOf(c.call, f)
  BY DEF OffsetOf
<1>4. /\ c.fd \in Fds /\ c.n \in Nat \ {0} /\ c.call \in Streams \cup {"read"}
      /\ c.offset \in Nat /\ c.taint \in BOOLEAN
  BY <1>1, <1>2, ReadingCall
<1>5. /\ Open(c.fd) /\ c.fd # tainted_socket.fd
      /\ \A u \in Threads : Reading(u) /\ u # t => calls[u].fd # c.fd
      /\ mode # "socket" => c.offset = start
      /\ c.taint => f.of \in {"input", "stdin"}
      /\ f.of = "input" /\ mode # "socket" => c.taint
      /\ c.call = "read" /\ Counted(c.fd) => f.pos = f.next
  BY <1>1, <1>2, <1>3 DEF CallPart
<1>6. /\ f \in File /\ f.pos \in 0 .. Size /\ f.next \in 0 .. Size
      /\ f.of \in {"input", "other", "stdin"}
  BY <1>1, <1>4, <1>5, OpenFile
<1>7. start \in 0 .. Size
  BY <1>6
<1>8. k = EndOf(c.call, start, c.n) - start /\ tainting \in BOOLEAN
  BY <1>4 DEF taint_get_file
<1>9. /\ tainting => f.of = "input" /\ mode # "socket" /\ taint_get_file(c.fd)
      /\ ~tainting => f.of # "input"
  <2>1. /\ f.of = "input" => mode # "socket" /\ taint_get_file(c.fd)
        /\ taint_get_file(c.fd) => f.of \in {"input", "stdin"}
    BY <1>4, <1>5, KnownFile
  <2>2. tainting => f.of \in {"input", "stdin"}
    BY <1>5, <2>1
  <2>3. f.of = "input" => tainting
    BY <1>5, <2>1
  <2> QED
    BY <1>2, <2>1, <2>2, <2>3
<1>10. taint_get_file(c.fd) /\ Counted(c.fd) => c.fd = 0
  BY <1>4, <1>5, KnownFile
<1> HIDE DEF c, f, start, k, tainting
<1>11. k \in Nat /\ start \in Nat /\ start + k <= Size
  <2>1. EndOf(c.call, start, c.n) \in start .. Size
    BY <1>4, <1>7, EndOfIs
  <2> QED
    BY <1>7, <1>8, <2>1, Constants
<1>12. Taken(f, c.call, k) \in File /\ Taken(f, c.call, k).of = f.of
       /\ (c.call \in Streams \/ f.pos = f.next => Taken(f, c.call, k).next = f.next + k)
  BY <1>3, <1>6, <1>11, TakenIs
<1>13. /\ calls'[t] = None /\ ~Reading(t)'
       /\ \A u \in Threads : u # t => calls'[u] = calls[u] /\ (Reading(u)' <=> Reading(u))
  BY <1>1, <1>2, OneCall
<1>14. Closing' = Closing
  BY <1>2, <1>13 DEF Closing
<1>15. /\ fds' \in [Fds -> {None} \cup File] /\ fds'[c.fd] = Taken(f, c.call, k)
       /\ \A g \in Fds : g # c.fd => fds'[g] = fds[g]
       /\ \A g \in Fds : fds'[g].of = fds[g].of /\ (Open(g)' <=> Open(g))
       /\ KnownPart'
  BY <1>2, <1>3, <1>4, <1>5, <1>12, <1>14, MovedParts
<1>16. CallPart'
  <2>1. ASSUME NEW u \in Threads, Reading(u)'
        PROVE  /\ Reading(u) /\ calls'[u] = calls[u] /\ calls[u].fd # tainted_socket'.fd
               /\ fds'[calls[u].fd] = fds[calls[u].fd] /\ Open(calls[u].fd)'
    <3>1. u # t /\ Reading(u) /\ calls'[u] = calls[u] /\ calls[u].fd # c.fd /\ calls[u].fd \in Fds
      BY <1>1, <1>5, <1>13, <2>1, ReadingCall
    <3>2. Open(calls[u].fd) /\ calls[u].fd # tainted_socket.fd
      BY <1>1, <3>1 DEF CallPart
    <3>3. fds'[calls[u].fd] = fds[calls[u].fd]
      BY <1>15, <3>1
    <3> QED
      BY <1>2, <3>1, <3>2, <3>3 DEF Open
  <2> QED
    BY <1>1, <1>2, <2>1, CallsKept
<1>17. mode' = mode /\ (Named' <=> Named) /\ (\A g : Counted(g)' <=> Counted(g))
       /\ (\A call : Uses(call)' <=> Uses(call))
  BY <1>2, SameProgram
<1>18. Counted(c.fd) /\ tainting => c.fd = 0 /\ current_stdin_offset = start /\ f.next = start
                                    /\ (c.call \in Streams \/ f.pos = f.next)
  <2>1. ASSUME Counted(c.fd), tainting
        PROVE  c.fd = 0 /\ current_stdin_offset = start /\ f.next = start
               /\ (c.call \in Streams \/ f.pos = f.next)
    <3>1. c.fd = 0 /\ f.of = "input"
      BY <1>9, <1>10, <2>1
    <3>2. current_stdin_offset = f.next
      BY <1>1, <1>3, <1>5, <2>1, <3>1 DEF CountPart
    <3>3. c.call \in Streams \/ f.pos = f.next
      BY <1>4, <1>5, <2>1
    <3>4. start = f.next
      BY <1>3, <3>3 DEF OffsetOf
    <3> QED
      BY <3>1, <3>2, <3>3, <3>4
  <2> QED
    BY <2>1
<1>19. ASSUME tainting, NEW i \in Nat
       PROVE  get_label_for(c.fd, c.offset, i) = start + i + 1
  BY <1>5, <1>9, <1>18, <1>19 DEF get_label_for
<1>20. LastPart'
  <2>1. PICK b \in BOOLEAN : b = tainting
    BY <1>8
  <2>2. PICK file, from, n : file = f.of /\ from = start /\ n = k
    OBVIOUS
  <2>3. /\ last' = Labelled(calls[t], file, from, n, b) /\ from \in Nat /\ n \in Nat /\ from + n <= Size
        /\ b => file = "input" /\ Slip(n > 0, ReadSlip(calls[t], from, n)) = "none"
        /\ ~b => file # "input"
    BY <1>2, <1>3, <1>9, <1>11, <2>1, <2>2
  <2>4. b => \A i \in Nat : get_label_for(calls[t].fd, calls[t].offset, i) = from + i + 1
    BY <1>3, <1>19, <2>1, <2>2
  <2> QED
    BY <1>2, <2>3, <2>4, LabelledGood
<1>21. current_stdin_offset' =
           IF tainting /\ Counted(c.fd) THEN current_stdin_offset + k ELSE current_stdin_offset
  <2>1. tainting => LabelsTaken(c, start, k) = k
    <3>1. PICK n : n = LabelledOf(c.call, start, k, c.n)
      OBVIOUS
    <3>2. n \in 0 .. k
      BY <1>11, <3>1, LabelledOfIs
    <3>3. ASSUME tainting, k > 0
          PROVE  c.call # "gets" /\ ~(n < k)
      <4>1. ReadSlip(c, start, k) = "none"
        BY <1>2, <3>3 DEF Slip
      <4> QED
        BY <3>1, <4>1 DEF ReadSlip, Slip
    <3>4. LabelsTaken(c, start, k) = IF k = 0 THEN 0 ELSE n + (IF c.call = "gets" THEN 1 ELSE 0)
      BY <3>1 DEF LabelsTaken
    <3> QED
      BY <1>11, <3>2, <3>3, <3>4
  <2>2. current_stdin_offset \in Nat
    BY <1>1 DEF Types
  <2> QED
    BY <1>2, <1>11, <2>1, <2>2 DEF CountedBy
<1>22. Types'
  <2>1. current_stdin_offset' \in Nat
    BY <1>1, <1>11, <1>21 DEF Types
  <2> QED
    BY <1>1, <1>2, <1>15, <2>1 DEF Types
<1>23. CountPart'
  <2>1. CASE c.fd = 0
    <3>1. fds'[0].of = f.of /\ (Open(0)' <=> Open(0)) /\ Open(0) /\ fds[0] = f
      BY <1>3, <1>5, <1>15, <2>1, Constants
    <3>2. ASSUME Counted(0), f.of = "input"
          PROVE  current_stdin_offset' = fds'[0].next
      <4>1. tainting
        BY <1>8, <1>9, <3>2
      <4>2. current_stdin_offset' = start + k /\ f.next = start
            /\ (c.call \in Streams \/ f.pos = f.next)
        BY <1>18, <1>21, <2>1, <3>2, <4>1
      <4>3. fds'[0].next = f.next + k
        BY <1>12, <1>15, <2>1, <4>2
      <4> QED
        BY <4>2, <4>3
    <3> QED
      BY <1>1, <1>17, <3>1, <3>2 DEF CountPart
  <2>2. CASE c.fd # 0
    <3>1. fds'[0] = fds[0] /\ (Open(0)' <=> Open(0))
      BY <1>15, <2>2, Constants
    <3>2. current_stdin_offset' = current_stdin_offset
      BY <1>18, <1>21, <2>2
    <3> QED
      BY <1>1, <1>17, <3>1, <3>2 DEF CountPart
  <2> QED
    BY <2>1, <2>2
<1>24. UtmpPart'
  BY <1>1, <1>2, <1>17 DEF UtmpPart
<1>25. SocketPart'
  <2>1. ASSUME NEW g \in Fds, Open(g)
        PROVE  /\ tainted_socket.fd = g => fds'[g].of = "input" /\ tainted_socket.offset = fds'[g].pos
               /\ mode = "socket" /\ fds'[g].of = "input" => tainted_socket.fd = g
    BY <1>1, <1>5, <1>15, <2>1 DEF SocketPart
  <2> QED
    BY <1>1, <1>2, <1>15, <1>17, <2>1 DEF SocketPart
<1> QED
  BY <1>15, <1>16, <1>20, <1>22, <1>23, <1>24, <1>25 DEF Core

LEMMA PreadCore ==
    ASSUME Core, slip' = "none", NEW fd \in Fds, NEW n \in Counts, NEW offset \in Offsets,
           Pread(fd, n, offset)
    PROVE  Core' /\ LastPart'
<1>1. /\ Types /\ SocketPart
  BY Zenon DEF Core
<1> DEFINE k == Max({0, Min({Size, offset + n}) - offset})
           label(i) == IF taint_get_file(fd) THEN get_label_for(fd, offset, i) ELSE 0
           names == {m \in {"counted pread"} : Counted(fd)}
                        \cup {m \in {"standard input"} : fds[fd].of = "stdin" /\ taint_get_file(fd)}
           s == [i \in 1 .. k |-> [of |-> fds[fd].of, off |-> offset + i - 1, label |-> label(i - 1)]]
<1>2. /\ Open(fd) /\ Uses("pread") /\ FirstSlip(names) = "none"
      /\ last' = s
      /\ current_stdin_offset' = IF taint_get_file(fd) THEN CountedBy(fd, k) ELSE current_stdin_offset
      /\ UNCHANGED <<prog, fds, tainted, tainted_socket, utmp, calls>>
  BY DEF Pread, Delivered
<1>3. ~Counted(fd) /\ (taint_get_file(fd) => fds[fd].of # "stdin")
  <2>1. names = {}
    BY <1>2, NoSlip
  <2> QED
    BY <2>1
<1>4. taint_get_file(fd) <=> fds[fd].of = "input"
  <2>1. fd # tainted_socket.fd
    BY <1>1, <1>2, NoSockets, Constants
  <2> QED
    BY <1>2, <1>3, <2>1, KnownFile
<1>5. current_stdin_offset \in Nat
  BY <1>1 DEF Types
<1>6. Core'
  <2> HIDE DEF k
  <2>1. CountedBy(fd, k) = current_stdin_offset
    BY <1>3, <1>5 DEF CountedBy
  <2>2. current_stdin_offset' = current_stdin_offset
    BY <1>2, <2>1
  <2> QED
    BY <1>2, <2>2, Unchanged
<1>7. k \in Nat
  <2>1. offset \in Nat /\ n \in Nat /\ Size \in Nat
    BY Constants DEF Offsets
  <2>2. Min({Size, offset + n}) \in Nat
    <3>1. {Size, offset + n} \subseteq Nat /\ {Size, offset + n} # {}
      BY <2>1
    <3> QED
      BY <3>1, MinIs
  <2>3. PICK x \in Int : x = Min({Size, offset + n}) - offset
    BY <2>1, <2>2
  <2>4. Max({0, x}) \in Nat
    <3>1. \E m \in {0, x} : \A y \in {0, x} : m >= y
      <4>1. CASE x >= 0
        BY <4>1
      <4>2. CASE x < 0
        BY <4>2
      <4> QED
        BY <4>1, <4>2
    <3>2. Max({0, x}) \in {0, x} /\ \A y \in {0, x} : Max({0, x}) >= y
      BY <3>1 DEF Max
    <3> QED
      BY <3>2
  <2> QED
    BY <2>3, <2>4
<1> HIDE DEF k
<1>8. ASSUME NEW i \in 1 .. k
      PROVE  GoodByte(s[i])
  <2>1. s[i] = [of |-> fds[fd].of, off |-> offset + i - 1, label |-> label(i - 1)]
    OBVIOUS
  <2>2. offset \in Nat /\ offset + i - 1 \in Nat
    BY <1>7, Constants DEF Offsets
  <2>3. label(i - 1) = IF taint_get_file(fd) THEN (offset + i - 1) + 1 ELSE 0
    BY <1>3, <1>7, <2>2 DEF get_label_for
  <2> HIDE DEF s, label
  <2>4. PICK l \in Int : l = label(i - 1)
    BY <2>2, <2>3
  <2>5. l > 0 => fds[fd].of = "input" /\ l = (offset + i - 1) + 1
    BY <1>4, <2>3, <2>4
  <2>6. fds[fd].of = "input" => l = (offset + i - 1) + 1
    BY <1>4, <2>3, <2>4
  <2> QED
    BY <2>1, <2>2, <2>4, <2>5, <2>6, ByteIs
<1>9. DOMAIN s = 1 .. k
  OBVIOUS
<1> HIDE DEF s
<1> QED
  BY <1>2, <1>6, <1>7, <1>8, <1>9, AllGood

LEMMA MmapCore ==
    ASSUME Core, slip' = "none", NEW fd \in Fds \cup {-1}, NEW n \in Counts, NEW offset \in Offsets,
           Mmap(fd, n, offset)
    PROVE  Core' /\ LastPart'
<1>1. /\ Types /\ SocketPart
  BY Zenon DEF Core
<1> DEFINE fsize == IF mode = "pipe" THEN 1 ELSE Size
           tainted_length == IF offset + n > fsize THEN fsize - offset ELSE n
           file == IF fd = -1 THEN "constant" ELSE fds[fd].of
           label(i) == IF ~taint_get_file(fd) THEN 0
                       ELSE IF i < tainted_length THEN get_label_for(fd, offset, i) ELSE Uninit
           names == {m \in {"counted mmap"} : fd # -1 /\ Counted(fd)}
                        \cup {m \in {"anonymous"} : fd = -1 /\ taint_get_file(fd)}
                        \cup {m \in {"standard input"} : /\ fd # -1
                                                         /\ fds[fd].of = "stdin"
                                                         /\ taint_get_file(fd)}
           s == [i \in 1 .. n |-> [of |-> file, off |-> offset + i - 1, label |-> label(i - 1)]]
<1>2. /\ fd # -1 => Open(fd)
      /\ Uses("mmap") /\ FirstSlip(names) = "none" /\ offset <= fsize
      /\ last' = s
      /\ current_stdin_offset' =
             IF taint_get_file(fd) THEN CountedBy(fd, tainted_length) ELSE current_stdin_offset
      /\ UNCHANGED <<prog, fds, tainted, tainted_socket, utmp, calls>>
  BY DEF Mmap, Delivered
<1>3. /\ fd # -1 => ~Counted(fd) /\ (taint_get_file(fd) => fds[fd].of # "stdin")
      /\ fd = -1 => ~taint_get_file(fd)
  <2>1. names = {}
    BY <1>2, NoSlip
  <2> QED
    BY <2>1
<1> HIDE DEF names
<1>4. taint_get_file(fd) <=> file = "input"
  <2>1. CASE fd = -1
    BY <1>3, <2>1
  <2>2. CASE fd # -1
    <3>1. fd \in Fds /\ fd # tainted_socket.fd
      BY <1>1, <1>2, <2>2, NoSockets, Constants
    <3>2. taint_get_file(fd) <=> fds[fd].of = "input"
      BY <1>2, <1>3, <2>2, <3>1, KnownFile
    <3> QED
      BY <2>2, <3>2
  <2> QED
    BY <2>1, <2>2
<1>5. taint_get_file(fd) => ~Counted(fd) /\ fsize = Size
  BY <1>3 DEF Counted
<1>6. offset \in Nat /\ n \in Nat \ {0} /\ Size \in Nat /\ current_stdin_offset \in Nat
  BY <1>1, Constants DEF Offsets, Types
<1>7. Core'
  <2>1. tainted_length \in Int
    BY <1>6
  <2>2. taint_get_file(fd) => CountedBy(fd, tainted_length) = current_stdin_offset
    BY <1>5, <1>6, <2>1 DEF CountedBy
  <2> HIDE DEF tainted_length
  <2>3. current_stdin_offset' = current_stdin_offset
    BY <1>2, <2>2
  <2> QED
    BY <1>2, <2>3, Unchanged
<1>8. ASSUME NEW i \in 1 .. n
      PROVE  GoodByte(s[i])
  <2>1. s[i] = [of |-> file, off |-> offset + i - 1, label |-> label(i - 1)]
    OBVIOUS
  <2>2. offset + i - 1 \in Nat /\ i - 1 \in Nat /\ i - 1 < n
    BY <1>6
  <2>3. /\ ~taint_get_file(fd) => label(i - 1) = 0
        /\ taint_get_file(fd) /\ offset + i - 1 < Size => label(i - 1) = (offset + i - 1) + 1
        /\ taint_get_file(fd) => label(i - 1) \in {(offset + i - 1) + 1, -1}
    <3>1. taint_get_file(fd) => get_label_for(fd, offset, i - 1) = (offset + i - 1) + 1
      BY <1>5, <1>6, <2>2 DEF get_label_for
    <3>2. taint_get_file(fd) /\ offset + i - 1 < Size => i - 1 < tainted_length
      BY <1>5, <1>6, <2>2
    <3> HIDE DEF tainted_length
    <3> QED
      BY <3>1, <3>2 DEF Uninit
  <2> HIDE DEF s, label, file
  <2>4. PICK l \in Int : l = label(i - 1)
    BY <2>2, <2>3
  <2>5. l > 0 => file = "input" /\ l = (offset + i - 1) + 1
    BY <1>4, <2>2, <2>3, <2>4
  <2>6. file = "input" /\ offset + i - 1 < Size => l = (offset + i - 1) + 1
    BY <1>4, <2>3, <2>4
  <2> QED
    BY <2>1, <2>2, <2>4, <2>5, <2>6, ByteIs
<1>9. DOMAIN s = 1 .. n
  OBVIOUS
<1> HIDE DEF s
<1> QED
  BY <1>2, <1>6, <1>7, <1>8, <1>9, AllGood

-----------------------------------------------------------------------------
(* Sockets and user accounting files. *)

LEMMA ConnectCore ==
    ASSUME Core, slip' = "none", NEW peer \in Files, Connect(peer)
    PROVE  Core' /\ LastPart'
<1>1. /\ Types /\ KnownPart /\ CountPart /\ CallPart /\ UtmpPart /\ SocketPart
  BY Zenon DEF Core
<1>2. PICK fd : fd = LowestFree
  OBVIOUS
<1> DEFINE names == {n \in {"second connection"} : peer = "input" /\ tainted_socket.fd # -1}
                        \cup {n \in {"socket closed"} : peer = "other" /\ fd = tainted_socket.fd}
<1>3. /\ Uses("socket") /\ (\E g \in Fds : ~Open(g)) /\ last' = <<>>
      /\ fds' = [fds EXCEPT ![fd] = At(peer, 0)] /\ FirstSlip(names) = "none"
      /\ tainted_socket' = IF peer = "input" THEN [tainted_socket EXCEPT !.fd = fd] ELSE tainted_socket
      /\ prog' = prog /\ tainted' = tainted /\ utmp' = utmp /\ calls' = calls
      /\ current_stdin_offset' = current_stdin_offset
  BY <1>2 DEF Connect
<1>4. /\ peer = "input" => tainted_socket.fd = -1
      /\ peer = "other" => fd # tainted_socket.fd
  <2>1. names = {}
    BY <1>3, NoSlip
  <2> QED
    BY <2>1
<1> HIDE DEF names
<1>5. fd \in Fds /\ ~Open(fd) /\ fd \notin Pending
  BY <1>1, <1>2, <1>3, Lowest, FreeIsIdle
<1>6. mode = "socket" /\ mode' = "socket"
  BY <1>1, <1>3, SocketAssumption DEF Types, Uses, mode
<1>7. (\A call : Uses(call)' <=> Uses(call)) /\ (Named' <=> Named) /\ ~Named
  BY <1>3, <1>6, SameProgram DEF Named
<1>8. peer \in {"input", "other"} /\ At(peer, 0) \in File /\ At(peer, 0) # None
      /\ At(peer, 0).of = peer /\ At(peer, 0).pos = 0
  BY AtIs, Constants DEF Files
<1>9. /\ fds' \in [Fds -> {None} \cup File] /\ fds'[fd] = At(peer, 0)
      /\ \A g \in Fds : g # fd => fds'[g] = fds[g]
      /\ Open(fd)' /\ \A g \in Fds : g # fd => (Open(g)' <=> Open(g))
  BY <1>1, <1>3, <1>5, <1>8 DEF Types, Open
<1>10. /\ tainted_socket' \in [fd : Fds \cup {-1}, offset : Nat]
       /\ tainted_socket'.offset = tainted_socket.offset
       /\ peer = "input" => tainted_socket'.fd = fd
       /\ peer = "other" => tainted_socket'.fd = tainted_socket.fd
  BY <1>1, <1>3, <1>5, <1>8 DEF Types
<1>11. CallPart'
  <2>1. ASSUME NEW t \in Threads, Reading(t)'
        PROVE  /\ Reading(t) /\ calls'[t] = calls[t] /\ calls[t].fd # tainted_socket'.fd
               /\ fds'[calls[t].fd] = fds[calls[t].fd] /\ Open(calls[t].fd)'
    <3>1. Reading(t) /\ calls'[t] = calls[t]
      BY <1>3, <2>1 DEF Reading
    <3>2. Open(calls[t].fd) /\ calls[t].fd # tainted_socket.fd /\ calls[t].fd # fd
          /\ calls[t].fd \in Fds
      BY <1>1, <1>5, <3>1, ReadingCall DEF CallPart, Pending
    <3>3. fds'[calls[t].fd] = fds[calls[t].fd]
      BY <1>9, <3>2
    <3>4. calls[t].fd # tainted_socket'.fd
      BY <1>8, <1>10, <3>2
    <3> QED
      BY <3>1, <3>2, <3>3, <3>4 DEF Open
  <2> QED
    BY <1>1, <1>3, <2>1, CallsKept
<1>12. Types' /\ UtmpPart'
  BY <1>1, <1>3, <1>7, <1>9, <1>10 DEF Types, UtmpPart
<1>13. KnownPart'
  <2>1. \A g : ~taint_get_file(g)'
    BY <1>6 DEF taint_get_file
  <2> QED
    BY <1>1, <1>3, <1>6, <1>7, <2>1 DEF KnownPart
<1>14. CountPart'
  BY <1>6 DEF CountPart, Counted
<1>15. SocketPart'
  <2>1. tainted_socket'.fd = -1 => tainted_socket'.offset = 0
    BY <1>1, <1>4, <1>8, <1>10 DEF SocketPart
  <2>2. ASSUME NEW g \in Fds, Open(g)'
        PROVE  /\ tainted_socket'.fd = g => fds'[g].of = "input" /\ tainted_socket'.offset = fds'[g].pos
               /\ fds'[g].of = "input" => tainted_socket'.fd = g
    <3>1. CASE peer = "input"
      <4>1. tainted_socket'.fd = fd /\ tainted_socket'.offset = 0 /\ tainted_socket.fd = -1
        BY <1>1, <1>4, <1>10, <3>1 DEF SocketPart
      <4>2. g # fd => fds'[g].of # "input"
        BY <1>1, <1>6, <1>9, <2>2, <4>1, Constants DEF SocketPart
      <4> QED
        BY <1>8, <1>9, <3>1, <4>1, <4>2
    <3>2. CASE peer = "other"
      <4>1. CASE g = fd
        BY <1>4, <1>8, <1>9, <1>10, <3>2, <4>1
      <4>2. CASE g # fd
        BY <1>1, <1>6, <1>9, <1>10, <2>2, <3>2, <4>2 DEF SocketPart
      <4> QED
        BY <4>1, <4>2
    <3> QED
      BY <1>8, <3>1, <3>2
  <2> QED
    BY <1>3, <1>7, <2>1, <2>2 DEF SocketPart
<1> QED
  BY <1>3, <1>11, <1>12, <1>13, <1>14, <1>15, NothingDelivered DEF Core

LEMMA RecvCore ==
    ASSUME Core, slip' = "none", NEW fd \in Fds, NEW n \in Counts, NEW peek \in BOOLEAN,
           Recv(fd, n, peek)
    PROVE  Core' /\ LastPart'
<1>1. /\ Types /\ KnownPart /\ CountPart /\ CallPart /\ UtmpPart /\ SocketPart
  BY Zenon DEF Core
<1>2. PICK file, pos : file = fds[fd].of /\ pos = fds[fd].pos
  OBVIOUS
<1>3. PICK k : k = Min({Size, pos + n}) - pos
  OBVIOUS
<1> DEFINE label(i) == IF tainted_socket.fd = fd THEN tainted_socket.offset + i + 1 ELSE 0
           s == [i \in 1 .. k |-> [of |-> file, off |-> pos + i - 1, label |-> label(i - 1)]]
<1>4. /\ Uses("socket") /\ Open(fd) /\ k > 0 /\ last' = s
      /\ fds' = IF peek THEN fds ELSE [fds EXCEPT ![fd] = At(file, pos + k)]
      /\ tainted_socket' = IF tainted_socket.fd = fd
                           THEN [tainted_socket EXCEPT !.offset = SocketOffset(k)]
                           ELSE tainted_socket
      /\ peek => tainted_socket.fd # fd
      /\ prog' = prog /\ tainted' = tainted /\ utmp' = utmp /\ calls' = calls
      /\ current_stdin_offset' = current_stdin_offset
  BY <1>2, <1>3 DEF Recv, Delivered, Slip
<1>5. fds[fd] \in File /\ file \in {"input", "other", "stdin"} /\ pos \in 0 .. Size
  BY <1>1, <1>2, <1>4, OpenFile
<1>6. k \in Nat /\ pos \in Nat /\ pos + k \in 0 .. Size
  <2>1. Size \in Nat /\ n \in Nat /\ pos \in Nat
    BY <1>5, Constants
  <2>2. Min({Size, pos + n}) \in Nat /\ Min({Size, pos + n}) <= Size
    <3>1. {Size, pos + n} \subseteq Nat /\ {Size, pos + n} # {}
      BY <2>1
    <3> QED
      BY <3>1, MinIs
  <2> QED
    BY <1>3, <1>4, <2>1, <2>2
<1>7. mode = "socket" /\ mode' = "socket"
  BY <1>1, <1>4, SocketAssumption DEF Types, Uses, mode
<1>8. (\A call : Uses(call)' <=> Uses(call)) /\ (Named' <=> Named)
  BY <1>4, SameProgram
<1>9. tainted_socket.fd = fd <=> file = "input"
  BY <1>1, <1>2, <1>4, <1>7 DEF SocketPart
<1>10. tainted_socket.fd = fd => tainted_socket.offset = pos
  BY <1>1, <1>2, <1>4 DEF SocketPart
<1>11. LastPart'
  <2>1. ASSUME NEW i \in 1 .. k
        PROVE  GoodByte(s[i])
    <3>1. s[i] = [of |-> file, off |-> pos + i - 1, label |-> label(i - 1)]
      OBVIOUS
    <3>2. pos + i - 1 \in Nat
      BY <1>6
    <3>3. label(i - 1) = IF file = "input" THEN (pos + i - 1) + 1 ELSE 0
      BY <1>6, <1>9, <1>10
    <3> HIDE DEF s, label
    <3>4. PICK l \in Int : l = label(i - 1)
      BY <3>2, <3>3
    <3>5. (l > 0 => file = "input" /\ l = (pos + i - 1) + 1) /\ (file = "input" => l = (pos + i - 1) + 1)
      BY <3>3, <3>4
    <3> QED
      BY <3>1, <3>2, <3>4, <3>5, ByteIs
  <2>2. DOMAIN s = 1 .. k
    OBVIOUS
  <2> HIDE DEF s
  <2> QED
    BY <1>4, <1>6, <2>1, <2>2, AllGood
<1> HIDE DEF s, label
<1>12. /\ fds' \in [Fds -> {None} \cup File]
       /\ \A g \in Fds : g # fd => fds'[g] = fds[g]
       /\ fds'[fd] # None /\ fds'[fd].of = file
       /\ ~peek => fds'[fd].pos = pos + k
       /\ peek => fds'[fd].pos = pos
  <2>1. At(file, pos + k) \in File /\ At(file, pos + k) # None /\ At(file, pos + k).of = file
        /\ At(file, pos + k).pos = pos + k
    BY <1>5, <1>6, AtIs
  <2>2. fds \in [Fds -> {None} \cup File] /\ fds[fd] # None
    BY <1>1, <1>4 DEF Types, Open
  <2>3. CASE peek
    BY <1>2, <1>4, <2>2, <2>3
  <2>4. CASE ~peek
    BY <1>4, <2>1, <2>2, <2>4
  <2> QED
    BY <2>3, <2>4
<1>13. \A g \in Fds : fds'[g].of = fds[g].of /\ (Open(g)' <=> Open(g))
  BY <1>2, <1>4, <1>12 DEF Open
<1>14. /\ tainted_socket' \in [fd : Fds \cup {-1}, offset : Nat]
       /\ tainted_socket'.fd = tainted_socket.fd
       /\ tainted_socket.fd = fd => tainted_socket'.offset = pos + k
       /\ tainted_socket.fd # fd => tainted_socket'.offset = tainted_socket.offset
  BY <1>1, <1>4, <1>6, <1>10 DEF Types, SocketOffset
<1>15. CallPart'
  <2>1. ASSUME NEW t \in Threads, Reading(t)'
        PROVE  /\ Reading(t) /\ calls'[t] = calls[t] /\ calls[t].fd # tainted_socket'.fd
               /\ fds'[calls[t].fd].of = fds[calls[t].fd].of /\ Open(calls[t].fd)'
    <3>1. Reading(t) /\ calls'[t] = calls[t]
      BY <1>4, <2>1 DEF Reading
    <3>2. PICK g \in Fds : g = calls[t].fd
      BY <1>1, <3>1, ReadingCall
    <3>3. Open(g) /\ g # tainted_socket.fd
      BY <1>1, <3>1, <3>2 DEF CallPart
    <3>4. Open(calls[t].fd)'
      BY <1>13, <3>1, <3>2, <3>3 DEF Open
    <3> QED
      BY <1>13, <1>14, <3>1, <3>2, <3>3, <3>4
  <2> QED
    BY <1>1, <1>4, <1>7, <2>1, CallsKept
<1>16. Types' /\ UtmpPart'
  BY <1>1, <1>4, <1>8, <1>12, <1>14 DEF Types, UtmpPart
<1>17. KnownPart'
  <2>1. \A g : ~taint_get_file(g)'
    BY <1>7 DEF taint_get_file
  <2> QED
    BY <1>1, <1>4, <1>7, <1>8, <2>1 DEF KnownPart
<1>18. CountPart'
  BY <1>7 DEF CountPart, Counted
<1>19. SocketPart'
  <2>1. tainted_socket'.fd = -1 => tainted_socket'.offset = 0
    BY <1>1, <1>14, Constants DEF SocketPart
  <2>2. ASSUME NEW g \in Fds, Open(g)'
        PROVE  /\ tainted_socket'.fd = g => fds'[g].of = "input" /\ tainted_socket'.offset = fds'[g].pos
               /\ fds'[g].of = "input" => tainted_socket'.fd = g
    <3>1. CASE g = fd
      BY <1>4, <1>9, <1>12, <1>14, <3>1
    <3>2. CASE g # fd
      BY <1>1, <1>7, <1>12, <1>13, <1>14, <2>2, <3>2 DEF SocketPart
    <3> QED
      BY <3>1, <3>2
  <2> QED
    BY <1>1, <1>8, <1>14, <2>1, <2>2 DEF SocketPart
<1> QED
  BY <1>11, <1>15, <1>16, <1>17, <1>18, <1>19 DEF Core

\* A step that changes the user accounting file and what is known of it.
LEMMA Accounting ==
    ASSUME Core, UNCHANGED <<prog, fds, tainted_socket, current_stdin_offset, calls>>,
           tainted' \in [fd : Fds \cup {-1}, is_utmp : BOOLEAN, offset : Nat],
           tainted'.fd = tainted.fd, utmp' \in File, UtmpPart'
    PROVE  Core'
<1>1. /\ Types /\ KnownPart /\ CountPart /\ CallPart /\ SocketPart
  BY Zenon DEF Core
<1>2. /\ mode' = mode /\ (Named' <=> Named) /\ (\A g : Counted(g)' <=> Counted(g))
      /\ (\A call : Uses(call)' <=> Uses(call)) /\ (\A g : Open(g)' <=> Open(g))
      /\ (\A g : taint_get_file(g)' <=> taint_get_file(g))
  BY SameProgram DEF Open, taint_get_file
<1>3. CallPart' /\ Closing' = Closing
  BY <1>1, CallsStay
<1>4. Types'
  BY <1>1 DEF Types
<1>5. KnownPart'
  BY <1>1, <1>2, <1>3 DEF KnownPart
<1>6. CountPart' /\ SocketPart'
  BY <1>1, <1>2 DEF CountPart, SocketPart
<1> QED
  BY <1>3, <1>4, <1>5, <1>6 DEF Core

LEMMA UtmpxnameCore ==
    ASSUME Core, NEW file \in Files, Utmpxname(file)
    PROVE  Core' /\ LastPart'
<1>1. Types
  BY Zenon DEF Core
<1> DEFINE known == Named /\ file = "input"
           base == [tainted EXCEPT !.is_utmp = known]
<1>2. /\ file = "input" => Named
      /\ tainted' = [base EXCEPT !.offset = IF known THEN 0 ELSE base.offset]
      /\ utmp' = At(file, 0) /\ last' = <<>>
      /\ UNCHANGED <<prog, fds, tainted_socket, current_stdin_offset, calls>>
  BY DEF Utmpxname, is_taint_file
<1>3. known \in BOOLEAN /\ (known <=> file = "input") /\ (known => Named)
  BY <1>2
<1> HIDE DEF known
<1>4. /\ base \in [fd : Fds \cup {-1}, is_utmp : BOOLEAN, offset : Nat]
      /\ base.fd = tainted.fd /\ base.is_utmp = known
  BY <1>1, <1>3 DEF Types
<1> HIDE DEF base
<1>5. /\ tainted' \in [fd : Fds \cup {-1}, is_utmp : BOOLEAN, offset : Nat]
      /\ tainted'.fd = tainted.fd /\ tainted'.is_utmp = known
      /\ known => tainted'.offset = 0
  BY <1>2, <1>4
<1>6. utmp' \in File /\ utmp'.of = file /\ utmp'.pos = 0
  BY <1>2, AtIs, Constants DEF Files
<1>7. Named' <=> Named
  BY <1>2, SameProgram
<1>8. UtmpPart'
  BY <1>3, <1>5, <1>6, <1>7 DEF UtmpPart
<1> QED
  BY <1>2, <1>5, <1>6, <1>8, Accounting, NothingDelivered

LEMMA SetutxentCore ==
    ASSUME Core, Setutxent
    PROVE  Core' /\ LastPart'
<1>1. Types /\ UtmpPart
  BY Zenon DEF Core
<1>2. /\ tainted' = IF tainted.is_utmp THEN [tainted EXCEPT !.offset = 0] ELSE tainted
      /\ utmp' = At(utmp.of, 0) /\ last' = <<>>
      /\ UNCHANGED <<prog, fds, tainted_socket, current_stdin_offset, calls>>
  BY DEF Setutxent
<1>3. /\ tainted' \in [fd : Fds \cup {-1}, is_utmp : BOOLEAN, offset : Nat]
      /\ tainted'.fd = tainted.fd /\ tainted'.is_utmp = tainted.is_utmp
      /\ tainted.is_utmp => tainted'.offset = 0
  BY <1>1, <1>2 DEF Types
<1>4. utmp' \in File /\ utmp'.of = utmp.of /\ utmp'.pos = 0
  <2>1. utmp.of \in {"input", "other", "stdin"} /\ 0 \in 0 .. Size
    BY <1>1, Constants DEF Types, File
  <2> QED
    BY <1>2, <2>1, AtIs
<1>5. Named' <=> Named
  BY <1>2, SameProgram
<1>6. UtmpPart'
  BY <1>1, <1>3, <1>4, <1>5 DEF UtmpPart
<1> QED
  BY <1>2, <1>3, <1>4, <1>6, Accounting, NothingDelivered

LEMMA GetutxentCore ==
    ASSUME Core, Getutxent
    PROVE  Core' /\ LastPart'
<1>1. Types /\ UtmpPart
  BY Zenon DEF Core
<1>2. PICK file, pos : file = utmp.of /\ pos = utmp.pos
  OBVIOUS
<1>3. PICK l : l = IF tainted.is_utmp THEN get_label_for(-1, tainted.offset, 0) ELSE 0
  OBVIOUS
<1> DEFINE s == [i \in 1 .. 1 |-> [of |-> file, off |-> pos + i - 1,
                    label |-> IF tainted.is_utmp THEN get_label_for(-1, tainted.offset, i - 1) ELSE 0]]
<1>4. /\ tainted' = IF tainted.is_utmp THEN [tainted EXCEPT !.offset = @ + 1] ELSE tainted
      /\ pos < Size /\ utmp' = At(file, pos + 1)
      /\ last' = s
      /\ UNCHANGED <<prog, fds, tainted_socket, current_stdin_offset, calls>>
  BY <1>2 DEF Getutxent, Delivered
<1>5. file \in {"input", "other", "stdin"} /\ pos \in Nat /\ pos + 1 \in 0 .. Size
  BY <1>1, <1>2, <1>4, Constants DEF Types, File
<1>6. /\ tainted' \in [fd : Fds \cup {-1}, is_utmp : BOOLEAN, offset : Nat]
      /\ tainted'.fd = tainted.fd /\ tainted'.is_utmp = tainted.is_utmp
      /\ tainted.is_utmp => tainted'.offset = tainted.offset + 1
      /\ tainted.offset \in Nat
  BY <1>1, <1>4 DEF Types
<1>7. utmp' \in File /\ utmp'.of = file /\ utmp'.pos = pos + 1
  BY <1>4, <1>5, AtIs
<1>8. Named' <=> Named
  BY <1>4, SameProgram
<1>9. UtmpPart'
  BY <1>1, <1>2, <1>6, <1>7, <1>8 DEF UtmpPart
<1>10. l \in Int /\ (file = "input" => l = pos + 1) /\ (file # "input" => l = 0)
  <2>1. tainted.is_utmp => ~Counted(-1) /\ tainted.offset = pos
    BY <1>1, <1>2 DEF UtmpPart, Named, Counted
  <2>2. tainted.is_utmp => l = pos + 1
    BY <1>3, <1>5, <2>1 DEF get_label_for
  <2> QED
    BY <1>1, <1>2, <1>3, <1>5, <2>2 DEF UtmpPart
<1>11. s[1] = [of |-> file, off |-> pos, label |-> l] /\ DOMAIN s = 1 .. 1
  BY <1>3, <1>5
<1> HIDE DEF s
<1>12. LastPart'
  <2>1. GoodByte(s[1])
    <3>1. (l > 0 => file = "input" /\ l = pos + 1) /\ (file = "input" /\ pos < Size => l = pos + 1)
      BY <1>10
    <3> QED
      BY <1>5, <1>10, <1>11, <3>1, ByteIs
  <2>2. \A i \in 1 .. 1 : GoodByte(s[i])
    BY <2>1
  <2> QED
    BY <1>4, <1>11, <2>2, AllGood
<1> QED
  BY <1>4, <1>6, <1>7, <1>9, <1>12, Accounting

-----------------------------------------------------------------------------
(* The theorems. *)

LEMMA StepInv == Inv /\ [Next]_vars => Inv'
<1> SUFFICES ASSUME Inv, [Next]_vars, slip' = "none"
             PROVE  Core' /\ LastPart'
  BY DEF Inv
<1>1. CASE UNCHANGED vars
  <2>1. Core /\ LastPart /\ last' = last
        /\ UNCHANGED <<prog, fds, tainted, tainted_socket, current_stdin_offset, utmp, calls>>
    BY <1>1 DEF Inv, vars
  <2> QED
    BY <2>1, Unchanged DEF LastPart
<1>2. ASSUME Next
      PROVE  Core' /\ LastPart'
  <2>1. Core
    BY <1>2 DEF Next, Inv
  <2>2. ASSUME NEW file \in Files, DoOpen(file, FALSE) \/ DoOpen(file, TRUE) \/ DoFopen(file)
        PROVE  Core' /\ LastPart'
    BY <2>1, <2>2, OpenCore
  <2>3. ASSUME NEW file \in Files, OpenFails(file) \/ Stat(file)
        PROVE  Core' /\ LastPart'
    BY <2>1, <2>3, FailedOpenCore
  <2>4. ASSUME NEW file \in Files, Connect(file)
        PROVE  Core' /\ LastPart'
    BY <2>1, <2>4, ConnectCore
  <2>5. ASSUME NEW file \in Files, Utmpxname(file)
        PROVE  Core' /\ LastPart'
    BY <2>1, <2>5, UtmpxnameCore
  <2>6. ASSUME NEW file \in Files, NEW fd \in Fds, DoFreopen(file, fd)
        PROVE  Core' /\ LastPart'
    BY <2>1, <2>6, OpenCore
  <2>7. ASSUME NEW fd \in Fds, DoClose(fd) \/ WriteSame(fd)
        PROVE  Core' /\ LastPart'
    BY <2>1, <2>7, CloseCore
  <2>8. ASSUME NEW fd \in Fds, NEW pos \in Offsets, NEW stream \in BOOLEAN, Seek(fd, pos, stream)
        PROVE  Core' /\ LastPart'
    BY <2>1, <2>8, SeekCore
  <2>9. ASSUME NEW t \in Threads, NEW fd \in Fds, NEW n \in Counts,
               NEW call \in Streams \cup {"read"}, Begin(t, call, fd, n)
        PROVE  Core' /\ LastPart'
    BY <2>1, <2>9, BeginCore
  <2>10. ASSUME NEW t \in Threads, End(t)
         PROVE  Core' /\ LastPart'
    BY <2>1, <2>10, EndCore
  <2>11. ASSUME NEW t \in Threads, NEW ok \in BOOLEAN, FcloseEnd(t, ok)
         PROVE  Core' /\ LastPart'
    BY <2>1, <2>11, FcloseEndCore
  <2>12. ASSUME NEW t \in Threads, NEW fd \in Fds, FcloseBegin(t, fd)
         PROVE  Core' /\ LastPart'
    BY <2>1, <2>12, FcloseBeginCore
  <2>13. ASSUME NEW fd \in Fds, NEW n \in Counts, NEW offset \in Offsets, Pread(fd, n, offset)
         PROVE  Core' /\ LastPart'
    BY <2>1, <2>13, PreadCore
  <2>14. ASSUME NEW fd \in Fds \cup {-1}, NEW n \in Counts, NEW offset \in Offsets, Mmap(fd, n, offset)
         PROVE  Core' /\ LastPart'
    BY <2>1, <2>14, MmapCore
  <2>15. ASSUME NEW fd \in Fds, NEW n \in Counts, NEW peek \in BOOLEAN, Recv(fd, n, peek)
         PROVE  Core' /\ LastPart'
    BY <2>1, <2>15, RecvCore
  <2>16. ASSUME Setutxent \/ Getutxent
         PROVE  Core' /\ LastPart'
    BY <2>1, <2>16, SetutxentCore, GetutxentCore
  <2> QED
    BY <1>2, <2>2, <2>3, <2>4, <2>5, <2>6, <2>7, <2>8, <2>9, <2>10, <2>11, <2>12, <2>13, <2>14,
       <2>15, <2>16, Zenon DEF Next
<1> QED
  BY <1>1, <1>2

LEMMA InvAlways == Spec => []Inv
<1> QED
  BY InitInv, StepInv, PTL DEF Spec

\* Whatever the program opens, closes, seeks in and reads, and however its threads are
\* interleaved, a label that a wrapper gives is that of the offset the byte has in the
\* input (get_label_for and its callers), until the first use the wrappers do not follow.
THEOREM LabelsAreRight == Spec => []LabelsRight
<1>1. Inv => LabelsRight
  BY DEF Inv, LastPart, GoodByte, LabelsRight
<1> QED
  BY <1>1, InvAlways, PTL

\* No byte of the input is delivered without its label by a wrapper that gives labels: a
\* descriptor of the input stays known (taint_set_file, taint_close_file).
THEOREM NothingStaysUnlabelled == Spec => []NothingUnlabelled
<1>1. Inv => NothingUnlabelled
  BY DEF Inv, LastPart, GoodByte, NothingUnlabelled
<1> QED
  BY <1>1, InvAlways, PTL

\* The counter of labels of a pipe is where the stream is (current_stdin_offset): no call
\* has taken more or fewer labels than it has delivered bytes.
THEOREM CounterIsRight == Spec => []CounterFollows
<1>1. Inv => CounterFollows
  BY DEF Inv, Core, CountPart, Counted, CounterFollows
<1> QED
  BY <1>1, InvAlways, PTL

=============================================================================
