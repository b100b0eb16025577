----------------------------- MODULE TaintInput -----------------------------
(***************************************************************************)
(* The taint sources: the wrappers of the C library that read the input    *)
(* put a label on every byte they deliver, and a label stands for an       *)
(* offset of the input.  Which descriptor is the input, and at which       *)
(* offset a call reads, is found out by the wrappers.                      *)
(*                                                                         *)
(* The kernel and the C library are external: a descriptor has a file and  *)
(* a position, and the stream on it a buffer, from next to pos.  A call    *)
(* that reads takes two steps, because the wrapper asks for the position   *)
(* before it reads.  slip names the first use of the interface that the    *)
(* wrappers do not follow; a behaviour ends there.                         *)
(***************************************************************************)
EXTENDS Integers, Sequences, FiniteSetsExt, Functions

CONSTANTS
    Input,      \* the bytes of the input: "x", "nul" or "nl"
    MaxFd,      \* bound: the descriptors are 0 .. MaxFd
    Threads,
    Programs,   \* records: mode, calls (the calls the program makes)
    Counts,     \* bound: how many bytes a call asks for
    None

ASSUME InputAssumption ==
    /\ Input \in Seq({"x", "nul", "nl"})
    /\ Len(Input) > 0
    /\ MaxFd \in Nat
    /\ Counts \subseteq Nat \ {0}
    /\ \A p \in Programs : p.mode \in {"file", "forced", "regular", "pipe", "socket"}

\* The kernel refuses to seek in a socket or to map it, and to receive from a file: a
\* program with sockets has no other descriptors than those, and standard input.
ASSUME SocketAssumption ==
    \A p \in Programs : "socket" \in p.calls =>
        /\ p.mode = "socket"
        /\ p.calls \cap {"open", "fopen", "freopen", "seek", "pread", "mmap"} = {}

\* None is neither a file nor a call: it has no fields.
ASSUME NoneAssumption ==
    /\ None \notin [of : {"input", "other", "stdin"}, pos : Nat, next : Nat]
    /\ None \notin [call : {"fclose"}, fd : Nat]
    /\ None \notin [call : {"read", "fread", "fread item", "fgets", "gets", "getline", "getc"},
                    fd : Nat, n : Nat, offset : Nat, taint : BOOLEAN]

Size == Len(Input)
Fds == 0 .. MaxFd

\* The input is the file taint_file names ("file", "forced" when force_stdin is
\* set and standard input is that file), standard input ("regular", "pipe") or
\* what comes from a peer ("socket").
VARIABLES
    prog,
    fds,        \* the file, the position and the stream of every descriptor
    tainted,    \* tainted: fd, is_utmp, offset
    tainted_socket,
    current_stdin_offset,
    utmp,       \* the user accounting file that is read, and the position in it
    calls,      \* by thread: the call between its two steps, or None
    last,       \* the bytes delivered last: their source, offset and label
    slip

vars == <<prog, fds, tainted, tainted_socket, current_stdin_offset, utmp, calls, last, slip>>

mode == prog.mode

\* A label is 0, the offset it stands for plus CONST_OFFSET, or one of these.
Uninit == -1
Stale == -2     \* the label the memory had before

At(file, pos) == [of |-> file, pos |-> pos, next |-> pos]

\* InitializeTaintFile, InitializeTaintSocket.  The descriptor of a named file
\* starts as 0, like every static variable.
Init ==
    /\ prog \in Programs
    /\ fds = [fd \in Fds |-> IF fd = 0 THEN At(IF mode \in {"file", "socket"} THEN "stdin" ELSE "input", 0)
                             ELSE None]
    /\ tainted = [fd |-> IF mode = "socket" THEN -1 ELSE 0, is_utmp |-> FALSE, offset |-> 0]
    /\ tainted_socket = [fd |-> -1, offset |-> 0]
    /\ current_stdin_offset = 0
    /\ utmp = At("other", 0)
    /\ calls = [t \in Threads |-> None]
    /\ last = <<>>
    /\ slip = "none"

Uses(call) == call \in prog.calls

\* Standard input is named by taint_file, so that no file has the name.
Named == mode \in {"file", "forced"}

\* taint_get_file is not 0.
taint_get_file(fd) ==
    /\ mode # "socket"
    /\ tainted.fd = fd \/ (mode = "forced" /\ fd = 0)

\* Labels for this descriptor are created when bytes are read, and stand for
\* offsets that are counted.
Counted(fd) == mode = "pipe" \/ (mode = "forced" /\ fd = 0)

\* Mutant: labels are counted for every descriptor.
get_label_forCounting(fd, offset, i) == current_stdin_offset + i + 1

\* get_label_for, the i-th one of a call.
get_label_for(fd, offset, i) ==
    IF Counted(fd) THEN current_stdin_offset + i + 1 ELSE offset + i + 1

\* The counter after n labels.
CountedBy(fd, n) == current_stdin_offset + (IF Counted(fd) THEN n ELSE 0)

Open(fd) == fds[fd] # None
Reading(t) == calls[t] # None /\ calls[t].call # "fclose"
Pending == {calls[t].fd : t \in {u \in Threads : Reading(u)}}
Closing == {calls[t].fd : t \in {u \in Threads : calls[u] # None /\ ~Reading(u)}}

\* The n bytes of a file from offset on, with label(i) for the i-th.
Delivered(file, offset, n, label(_)) ==
    [i \in 1 .. n |-> [of |-> file, off |-> offset + i - 1, label |-> label(i - 1)]]

Slip(cond, name) == IF cond THEN name ELSE "none"

FirstSlip(names) == IF names = {} THEN "none" ELSE CHOOSE n \in names : TRUE

-----------------------------------------------------------------------------
(* Opening and closing. *)

\* Mutant: only a closed file is replaced.
taint_set_fileClosed(file, fd) ==
    IF Named /\ file = "input" /\ tainted.fd = -1 THEN [tainted EXCEPT !.fd = fd] ELSE tainted

\* taint_set_file
taint_set_file(file, fd) ==
    IF Named /\ file = "input" THEN [tainted EXCEPT !.fd = fd] ELSE tainted

\* taint_close_file
taint_close_file(fd) == IF fd = tainted.fd THEN [tainted EXCEPT !.fd = -1] ELSE tainted

\* The lowest free descriptor.
LowestFree == Min({fd \in Fds : ~Open(fd)})

\* Another descriptor of the input is open, and only one is known.
SecondInput(fd) ==
    \E g \in Fds \ {fd} : Open(g) /\ fds[g].of = "input" /\ ~(mode = "forced" /\ g = 0)

\* Where opening a file as fd leaves the wrappers: tracked says that they look at it.
OpenSlip(file, fd, tracked) ==
    IF mode = "forced" /\ fd = 0 THEN "standard input again"
    ELSE IF file # "input" THEN Slip(fd \in Closing /\ taint_get_file(fd), "closed in between")
    ELSE IF ~Named THEN "by name"
    ELSE IF SecondInput(fd) THEN "second"
    ELSE Slip(~tracked, "descriptor 0")

\* open, and openat in a directory: descriptor 0 is taken for a failure, and
\* readlinkat fails for a file that is no link, so that openat is not followed.
DoOpen(file, directory) ==
    /\ Uses("open")
    /\ \E fd \in Fds : ~Open(fd)
    /\ LET tracked == LowestFree # 0 /\ ~directory
       IN  /\ tainted' = IF tracked THEN taint_set_file(file, LowestFree) ELSE tainted
           /\ slip' = OpenSlip(file, LowestFree, tracked)
    /\ fds' = [fds EXCEPT ![LowestFree] = At(file, 0)]
    /\ last' = <<>>
    /\ UNCHANGED <<prog, tainted_socket, current_stdin_offset, utmp, calls>>

\* open fails, and -1 is taken for a descriptor.
OpenFails(file) ==
    /\ Uses("open")
    /\ tainted' = taint_set_file(file, -1)
    /\ slip' = Slip(tainted' # tainted, "failed open")
    /\ last' = <<>>
    /\ UNCHANGED <<prog, fds, tainted_socket, current_stdin_offset, utmp, calls>>

\* fopen, fopen64
DoFopen(file) ==
    /\ Uses("fopen")
    /\ \E fd \in Fds : ~Open(fd)
    /\ fds' = [fds EXCEPT ![LowestFree] = At(file, 0)]
    /\ tainted' = taint_set_file(file, LowestFree)
    /\ slip' = OpenSlip(file, LowestFree, TRUE)
    /\ last' = <<>>
    /\ UNCHANGED <<prog, tainted_socket, current_stdin_offset, utmp, calls>>

\* freopen: the file that was open is closed without a word.
DoFreopen(file, fd) ==
    /\ Uses("freopen")
    /\ Open(fd)
    /\ fds' = [fds EXCEPT ![fd] = At(file, 0)]
    /\ tainted' = taint_set_file(file, fd)
    /\ slip' = IF fd \in Pending \/ (file # "input" /\ taint_get_file(fd)) THEN "freopen"
               ELSE OpenSlip(file, fd, TRUE)
    /\ last' = <<>>
    /\ UNCHANGED <<prog, tainted_socket, current_stdin_offset, utmp, calls>>

\* close
DoClose(fd) ==
    /\ Uses("close")
    /\ Open(fd)
    /\ fds' = [fds EXCEPT ![fd] = None]
    /\ tainted' = taint_close_file(fd)
    /\ slip' = Slip(fd \in Pending, "closed in use")
    /\ last' = <<>>
    /\ UNCHANGED <<prog, tainted_socket, current_stdin_offset, utmp, calls>>

\* fclose, in two steps: the descriptor is free before taint_close_file is called.
FcloseBegin(t, fd) ==
    /\ Uses("fclose")
    /\ calls[t] = None
    /\ Open(fd)
    /\ fds' = [fds EXCEPT ![fd] = None]
    /\ calls' = [calls EXCEPT ![t] = [call |-> "fclose", fd |-> fd]]
    /\ slip' = Slip(fd \in Pending, "closed in use")
    /\ last' = <<>>
    /\ UNCHANGED <<prog, tainted, tainted_socket, current_stdin_offset, utmp>>

\* ok says that fclose returns 0; when it does not, the descriptor is free all the same.
FcloseEnd(t, ok) ==
    /\ calls[t] # None
    /\ calls[t].call = "fclose"
    /\ tainted' = IF ok THEN taint_close_file(calls[t].fd) ELSE tainted
    /\ calls' = [calls EXCEPT ![t] = None]
    /\ slip' = IF ok THEN Slip(Open(calls[t].fd) /\ tainted' # tainted, "closed in between")
               ELSE Slip(~Open(calls[t].fd) /\ calls[t].fd = tainted.fd, "failed fclose")
    /\ last' = <<>>
    /\ UNCHANGED <<prog, fds, tainted_socket, current_stdin_offset, utmp>>

\* write of what the input begins with, of nothing too: the descriptor is closed.
WriteSame(fd) ==
    /\ Uses("write")
    /\ mode \in {"file", "forced", "regular"}
    /\ Open(fd)
    /\ fds' = [fds EXCEPT ![fd] = None]
    /\ slip' = Slip(taint_get_file(fd) \/ fd \in Pending, "closed by write")
    /\ last' = <<>>
    /\ UNCHANGED <<prog, tainted, tainted_socket, current_stdin_offset, utmp, calls>>

\* lseek, and fseek and fseeko of the stream, which drop its buffer.
Seek(fd, pos, stream) ==
    /\ Uses("seek")
    /\ Open(fd)
    /\ mode # "pipe" \/ fd # 0
    /\ LET buffered == fds[fd].next # fds[fd].pos
       IN  /\ fds' = [fds EXCEPT ![fd].pos = pos, ![fd].next = IF stream \/ ~buffered THEN pos ELSE @]
           /\ slip' = FirstSlip({n \in {"counted seek"} : Counted(fd) /\ pos # fds[fd].next}
                                \cup {n \in {"seek in use"} : fd \in Pending}
                                \cup {n \in {"under a stream"} : ~stream /\ buffered})
    /\ last' = <<>>
    /\ UNCHANGED <<prog, tainted, tainted_socket, current_stdin_offset, utmp, calls>>

-----------------------------------------------------------------------------
(* Reading. *)

Streams == {"fread", "fread item", "fgets", "gets", "getline", "getc"}

\* lseek before read, ftell on a stream.
OffsetOf(call, f) == IF call \in Streams THEN f.next ELSE f.pos

\* The wrapper asks for the position.  fread looks at the descriptor now, the others
\* after they have read.
Begin(t, call, fd, n) ==
    /\ Uses(call)
    /\ calls[t] = None
    /\ Open(fd)
    /\ call = "gets" => fd = 0
    /\ call \in {"getc", "getline"} => n = 1
    /\ calls' = [calls EXCEPT ![t] =
                    [call |-> call, fd |-> fd, n |-> n,
                     offset |-> OffsetOf(call, fds[fd]),
                     taint |-> taint_get_file(fd)]]
    /\ slip' = FirstSlip({m \in {"shared"} : fd \in Pending}
                         \cup {m \in {"read from a socket"} : mode = "socket" /\ fd = tainted_socket.fd}
                         \cup {m \in {"mixed"} : call = "read" /\ Counted(fd) /\ fds[fd].next # fds[fd].pos})
    /\ last' = <<>>
    /\ UNCHANGED <<prog, fds, tainted, tainted_socket, current_stdin_offset, utmp>>

\* Where a call ends that may take n bytes from pos on: fgets and getline stop
\* after a newline.
EndOf(call, pos, n) ==
    LET limit == IF call = "getline" THEN Size ELSE Min({Size, pos + n})
        lines == {i \in pos + 1 .. limit : Input[i] = "nl"}
    IN  IF call \in {"fgets", "gets", "getline"} /\ lines # {} THEN Min(lines) ELSE limit

\* How many of the k bytes from pos on the wrapper gives a label: fgets and gets take
\* the length of the string, fread the items it has read, of one byte or of all bytes.
LabelledOf(call, pos, k, n) ==
    LET nuls == {i \in pos + 1 .. pos + k : Input[i] = "nul"}
    IN  CASE call \in {"fgets", "gets"} -> IF nuls = {} THEN k ELSE Min(nuls) - 1 - pos
          [] call = "fread item" -> IF k = n THEN k ELSE 0
          [] OTHER -> k

\* What the descriptor is after a call took k bytes.
Taken(f, call, k) ==
    IF call \in Streams
    THEN [f EXCEPT !.next = @ + k, !.pos = IF f.next = f.pos THEN Size ELSE @]
    ELSE [f EXCEPT !.pos = @ + k, !.next = IF f.next = f.pos THEN @ + k ELSE @]

\* The byte before the buffer of getline.
BeforeTheBuffer == [of |-> "memory", off |-> 0, label |-> 0]

\* The k bytes of the call c and their labels.  The character of getc is left out:
\* taint_getc takes a label for it and returns 0.  At the end of the file getline returns
\* -1, and the label of the byte before its buffer is cleared.
Labelled(c, file, start, k, tainting) ==
    LET n == LabelledOf(c.call, start, k, c.n)
        label(i) == IF ~tainting THEN 0
                    ELSE IF i < n THEN get_label_for(c.fd, c.offset, i) ELSE Stale
        terminator == [of |-> "constant", off |-> 0, label |-> get_label_for(c.fd, c.offset, n)]
    IN  IF k = 0 \/ c.call = "getc"
        THEN IF c.call = "getline" /\ tainting THEN <<BeforeTheBuffer>> ELSE <<>>
        ELSE Delivered(file, start, k, label)
                \o (IF c.call = "gets" /\ tainting THEN <<terminator>> ELSE <<>>)

\* Mutant: getc takes no label.
LabelsTakenNoChar(c, start, k) ==
    IF k = 0 \/ c.call = "getc" THEN 0
    ELSE LabelledOf(c.call, start, k, c.n) + (IF c.call = "gets" THEN 1 ELSE 0)

\* How many labels the call takes: gets takes one for the terminator.
LabelsTaken(c, start, k) ==
    IF k = 0 THEN 0
    ELSE LabelledOf(c.call, start, k, c.n) + (IF c.call = "gets" THEN 1 ELSE 0)

\* A string with a zero byte in it, a part of an item, a label for the terminator.
ReadSlip(c, start, k) ==
    IF c.call = "gets" THEN "gets"
    ELSE Slip(LabelledOf(c.call, start, k, c.n) < k,
              IF c.call = "fgets" THEN "zero in a string" ELSE "part of an item")

\* read, fread, fgets, gets, getline, getdelim, getc, fgetc, getchar.
End(t) ==
    LET c == calls[t]
        f == fds[c.fd]
        start == IF c.call \in Streams THEN f.next ELSE f.pos
        k == EndOf(c.call, start, c.n) - start
        tainting == IF c.call \in {"fread", "fread item"} THEN c.taint ELSE taint_get_file(c.fd)
    IN  /\ Reading(t)
        /\ fds' = [fds EXCEPT ![c.fd] = Taken(f, c.call, k)]
        /\ calls' = [calls EXCEPT ![t] = None]
        /\ last' = Labelled(c, f.of, start, k, tainting)
        /\ current_stdin_offset' =
               IF tainting THEN CountedBy(c.fd, LabelsTaken(c, start, k)) ELSE current_stdin_offset
        /\ slip' = IF f.of = "stdin" /\ tainting THEN "standard input"
                   ELSE Slip(tainting /\ k > 0, ReadSlip(c, start, k))
        /\ UNCHANGED <<prog, tainted, tainted_socket, utmp>>

\* pread
Pread(fd, n, offset) ==
    /\ Uses("pread")
    /\ Open(fd)
    /\ mode # "pipe" \/ fd # 0
    /\ LET k == Max({0, Min({Size, offset + n}) - offset})
       IN  /\ last' = Delivered(fds[fd].of, offset, k, LAMBDA i :
                          IF taint_get_file(fd) THEN get_label_for(fd, offset, i) ELSE 0)
           /\ current_stdin_offset' = IF taint_get_file(fd) THEN CountedBy(fd, k) ELSE current_stdin_offset
           /\ slip' = FirstSlip({m \in {"counted pread"} : Counted(fd)}
                                \cup {m \in {"standard input"} : fds[fd].of = "stdin" /\ taint_get_file(fd)})
    /\ UNCHANGED <<prog, fds, tainted, tainted_socket, utmp, calls>>

\* mmap of n bytes from offset on, not after the end; descriptor -1 is anonymous memory.
\* The bytes after the end of the input are not initialised.
Mmap(fd, n, offset) ==
    /\ Uses("mmap")
    /\ fd # -1 => Open(fd)
    /\ mode # "pipe" \/ fd # 0
    /\ LET fsize == IF mode = "pipe" THEN 1 ELSE Size
           tainted_length == IF offset + n > fsize THEN fsize - offset ELSE n
           file == IF fd = -1 THEN "constant" ELSE fds[fd].of
           label(i) == IF ~taint_get_file(fd) THEN 0
                       ELSE IF i < tainted_length THEN get_label_for(fd, offset, i) ELSE Uninit
       IN  /\ offset <= fsize
           /\ last' = Delivered(file, offset, n, label)
           /\ current_stdin_offset' =
                  IF taint_get_file(fd) THEN CountedBy(fd, tainted_length) ELSE current_stdin_offset
           /\ slip' = FirstSlip({m \in {"counted mmap"} : fd # -1 /\ Counted(fd)}
                                \cup {m \in {"anonymous"} : fd = -1 /\ taint_get_file(fd)}
                                \cup {m \in {"standard input"} : /\ fd # -1
                                                                 /\ fds[fd].of = "stdin"
                                                                 /\ taint_get_file(fd)})
    /\ UNCHANGED <<prog, fds, tainted, tainted_socket, utmp, calls>>

-----------------------------------------------------------------------------
(* Sockets. *)

\* socket and connect, with the peer that taint_socket names or with another one.
Connect(peer) ==
    /\ Uses("socket")
    /\ \E fd \in Fds : ~Open(fd)
    /\ fds' = [fds EXCEPT ![LowestFree] = At(peer, 0)]
    /\ tainted_socket' = IF peer = "input" THEN [tainted_socket EXCEPT !.fd = LowestFree] ELSE tainted_socket
    /\ slip' = FirstSlip({n \in {"second connection"} : peer = "input" /\ tainted_socket.fd # -1}
                         \cup {n \in {"socket closed"} : peer = "other" /\ LowestFree = tainted_socket.fd})
    /\ last' = <<>>
    /\ UNCHANGED <<prog, tainted, current_stdin_offset, utmp, calls>>

\* taint_update_socket_offset
SocketOffset(n) == tainted_socket.offset + n

\* recv, recvfrom, recvmsg, recvmmsg; peek is MSG_PEEK.
Recv(fd, n, peek) ==
    /\ Uses("socket")
    /\ fd # 0
    /\ Open(fd)
    /\ LET pos == fds[fd].pos
           k == Min({Size, pos + n}) - pos
       IN  /\ k > 0
           /\ fds' = IF peek THEN fds ELSE [fds EXCEPT ![fd] = At(@.of, pos + k)]
           /\ last' = Delivered(fds[fd].of, pos, k, LAMBDA i :
                          IF tainted_socket.fd = fd THEN tainted_socket.offset + i + 1 ELSE 0)
           /\ tainted_socket' = IF tainted_socket.fd = fd
                                THEN [tainted_socket EXCEPT !.offset = SocketOffset(k)]
                                ELSE tainted_socket
           /\ slip' = Slip(peek /\ tainted_socket.fd = fd, "peek")
    /\ UNCHANGED <<prog, tainted, current_stdin_offset, utmp, calls>>

-----------------------------------------------------------------------------
(* User accounting files: an entry is one byte. *)

\* is_taint_file
is_taint_file(file) == [tainted EXCEPT !.is_utmp = Named /\ file = "input"]

\* utmpxname: the offset is only set for the input.
Utmpxname(file) ==
    /\ Uses("utmp")
    /\ file = "input" => Named
    /\ tainted' = [is_taint_file(file) EXCEPT
                      !.offset = IF Named /\ file = "input" THEN 0 ELSE @]
    /\ utmp' = At(file, 0)
    /\ slip' = "none"
    /\ last' = <<>>
    /\ UNCHANGED <<prog, fds, tainted_socket, current_stdin_offset, calls>>

\* setutxent
Setutxent ==
    /\ Uses("utmp")
    /\ tainted' = IF tainted.is_utmp THEN [tainted EXCEPT !.offset = 0] ELSE tainted
    /\ utmp' = At(utmp.of, 0)
    /\ slip' = "none"
    /\ last' = <<>>
    /\ UNCHANGED <<prog, fds, tainted_socket, current_stdin_offset, calls>>

\* getutxent
Getutxent ==
    /\ Uses("utmp")
    /\ utmp.pos < Size
    /\ utmp' = At(utmp.of, utmp.pos + 1)
    /\ last' = Delivered(utmp.of, utmp.pos, 1, LAMBDA i :
                   IF tainted.is_utmp THEN get_label_for(-1, tainted.offset, i) ELSE 0)
    /\ tainted' = IF tainted.is_utmp THEN [tainted EXCEPT !.offset = @ + 1] ELSE tainted
    /\ slip' = "none"
    /\ UNCHANGED <<prog, fds, tainted_socket, current_stdin_offset, calls>>

\* stat and lstat when the size of the input is traced: they ask whether the file is the
\* input, and the answer is remembered as if it were about the user accounting file.
Stat(file) ==
    /\ Uses("stat")
    /\ tainted' = is_taint_file(file)
    /\ slip' = Slip(tainted' # tainted, "stat")
    /\ last' = <<>>
    /\ UNCHANGED <<prog, fds, tainted_socket, current_stdin_offset, utmp, calls>>

-----------------------------------------------------------------------------

Files == {"input", "other"}
Offsets == 0 .. Size

Next ==
    /\ slip = "none"
    /\ \/ \E file \in Files :
              \/ DoOpen(file, FALSE) \/ DoOpen(file, TRUE) \/ OpenFails(file) \/ DoFopen(file)
              \/ Connect(file) \/ Utmpxname(file) \/ Stat(file)
       \/ \E file \in Files, fd \in Fds : DoFreopen(file, fd)
       \/ \E fd \in Fds : DoClose(fd) \/ WriteSame(fd)
       \/ \E fd \in Fds, pos \in Offsets, stream \in BOOLEAN : Seek(fd, pos, stream)
       \/ \E t \in Threads, fd \in Fds, n \in Counts, call \in Streams \cup {"read"} : Begin(t, call, fd, n)
       \/ \E t \in Threads : End(t)
       \/ \E t \in Threads, ok \in BOOLEAN : FcloseEnd(t, ok)
       \/ \E t \in Threads, fd \in Fds : FcloseBegin(t, fd)
       \/ \E fd \in Fds, n \in Counts, offset \in Offsets : Pread(fd, n, offset)
       \/ \E fd \in Fds \cup {-1}, n \in Counts, offset \in Offsets : Mmap(fd, n, offset)
       \/ \E fd \in Fds, n \in Counts, peek \in BOOLEAN : Recv(fd, n, peek)
       \/ Setutxent
       \/ Getutxent

Spec == Init /\ [][Next]_vars

-----------------------------------------------------------------------------
(* Properties. *)

\* Labels stand for the offsets of the bytes that carry them: across seeks, buffers,
\* short reads, ends of file, and descriptor numbers that are closed and used again
\* for another file, a label that a wrapper gives to a byte is that of the offset the
\* byte has in the input (get_label_for and its callers).
LabelsRight ==
    slip = "none" => \A b \in Range(last) : b.label > 0 => b.of = "input" /\ b.label = b.off + 1

\* No byte of the input is delivered without its label by the calls that label (all
\* but getc, see taint_getc): a descriptor of the input stays known through closing and
\* opening.
NothingUnlabelled ==
    slip = "none" => \A b \in Range(last) : b.of = "input" /\ b.off < Size => b.label = b.off + 1

\* The counter of a pipe is where the stream is, between calls: no call has taken more
\* or fewer labels than bytes.
CounterFollows ==
    slip = "none" /\ mode = "pipe" /\ Open(0) /\ fds[0].of = "input" =>
        current_stdin_offset = fds[0].next

=============================================================================
