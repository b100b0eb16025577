----------------------------- MODULE EventPipe ------------------------------
(***************************************************************************)
(* The launcher (launch.c), the pipe on which the instrumented program     *)
(* reports events (fastgen.cpp), and the loop of a driver that reads them. *)
(*                                                                         *)
(* An event is a header, and for some kinds a payload, written by two      *)
(* calls of write().  The pipe holds units: a header is one unit, a        *)
(* payload one or more.  A write of at most PIPE_BUF units is atomic, a    *)
(* longer one goes in as space allows; a read takes what is there.         *)
(***************************************************************************)
EXTENDS Integers, Sequences, SequencesExt, FiniteSets

CONSTANTS
    Drivers,        \* the drivers that are looked at
    PIPE_BUF,
    Capacity,       \* units the pipe holds
    MemcmpSizes,    \* units of the contents of memcmp
    TwoSymbolic,    \* the drivers whose targets also compare two symbolic buffers
    MaxEvents,      \* bound on the events of a run
    MaxRuns,        \* bound on the runs of the target
    Crashes,        \* the target may die in the middle of an event
    MayHang,        \* the target may stop reporting and never end
    ForkFails       \* fork may fail

ASSUME PipeAssumption ==
    /\ Drivers \subseteq {"aflpp", "fgtest", "rl"}
    /\ TwoSymbolic \subseteq Drivers
    /\ {Crashes, MayHang, ForkFails} \subseteq BOOLEAN
    /\ {PIPE_BUF, Capacity} \subseteq Nat \ {0}
    /\ PIPE_BUF <= Capacity
    /\ MemcmpSizes \subseteq Nat \ {0}
    /\ {MaxEvents, MaxRuns} \subseteq Nat

VARIABLES
    driver,     \* which driver it is
    child,      \* the target process
    out,        \* the writes its current event still has to make
    sent,       \* events it has started, in this run
    pipe,       \* units in the pipe
    drv,        \* where the driver is
    after,      \* where it goes once the target has been reaped
    msg,        \* the header it has read
    handled,    \* the events it has handled, in this run
    outOfSync,  \* it has read something else than it took it for
    pid,        \* g_config.symsan_pid: a run, or -1
    fd,         \* g_config.pipefds[0]: the pipe of a run, or -1
    open,       \* the runs whose pipe the launcher has open
    killed,     \* processes that were sent SIGKILL
    runs        \* runs so far: the last one is the process runs

vars == <<driver, child, out, sent, pipe, drv, after, msg, handled, outOfSync, pid,
          fd, open, killed, runs>>

\* The driver reads headers with a timeout.
HasTimeout == driver # "fgtest"

None == -1

\* n units of payload; of memcmp only when the flag has_content is set.
Header(kind, id, n, has_content) == [kind |-> kind, id |-> id, n |-> n, has_content |-> has_content]
Payload(id) == Header("payload", id, 0, FALSE)

NoMsg == Header("none", 0, 0, FALSE)

Init ==
    /\ driver \in Drivers
    /\ child = "none"
    /\ out = <<>>
    /\ sent = 0
    /\ pipe = <<>>
    /\ drv = "idle"
    /\ after = "idle"
    /\ msg = NoMsg
    /\ handled = <<>>
    /\ outOfSync = FALSE
    /\ pid = None
    /\ fd = None
    /\ open = {}
    /\ killed = {}
    /\ runs = 0

-----------------------------------------------------------------------------
(* The target. *)

\* The writes of an event: __solve_cond, __taint_trace_gep, __taint_trace_memcmp.
Writes(m) ==
    IF m.has_content THEN << <<m>>, [i \in 1 .. m.n |-> Payload(m.id)] >> ELSE << <<m>> >>

\* Something symbolic happens.
Trace(kind, n, has_content) ==
    /\ child = "running"
    /\ out = <<>>
    /\ sent < MaxEvents
    /\ sent' = sent + 1
    /\ out' = Writes(Header(kind, sent + 1, n, has_content))
    /\ UNCHANGED <<child, pipe, drv, after, msg, handled, outOfSync, pid, fd, open,
                   killed, runs, driver>>

\* A branch or a select on a symbolic condition, a newly covered line, a memory error:
\* one header.
TraceCond == Trace("cond", 0, FALSE)

\* A symbolic index: two writes.
TraceGep == Trace("gep", 1, TRUE)

\* A call of memcmp on n units, which are sent when one operand is concrete.
TraceMemcmp(n, has_content) ==
    /\ has_content \/ driver \in TwoSymbolic
    /\ Trace("memcmp", n, has_content)

Room == Capacity - Len(pipe)

\* write(): all of a short buffer at once, a longer one in pieces.
Write ==
    /\ child = "running"
    /\ out # <<>>
    /\ LET buf == Head(out)
           n == IF Len(buf) <= Room THEN Len(buf) ELSE Room
       IN  /\ Room > 0
           /\ Len(buf) <= PIPE_BUF => n = Len(buf)
           /\ pipe' = pipe \o SubSeq(buf, 1, n)
           /\ out' = IF n = Len(buf) THEN Tail(out)
                     ELSE <<SubSeq(buf, n + 1, Len(buf))>> \o Tail(out)
    /\ UNCHANGED <<child, sent, drv, after, msg, handled, outOfSync, pid, fd, open,
                   killed, runs, driver>>

\* The target ends: at any time between two events, or by a crash (in another
\* thread, or a signal) in the middle of one.
Exit ==
    /\ child = "running"
    /\ out = <<>> \/ Crashes
    /\ child' = "zombie"
    /\ UNCHANGED <<out, sent, pipe, drv, after, msg, handled, outOfSync, pid, fd, open,
                   killed, runs, driver>>

-----------------------------------------------------------------------------
(* The launcher. *)

\* close(): a descriptor that is not open is an error without effect.
Closed(f) == open \ {f}

\* symsan_run, in the driver: drop what is left of the last run, open a pipe and
\* fork.  The driver forgets the last run.
Run ==
    /\ drv = "idle"
    /\ runs < MaxRuns
    /\ runs' = runs + 1
    /\ fd' = runs + 1
    /\ out' = <<>>
    /\ sent' = 0
    /\ pipe' = <<>>
    /\ handled' = <<>>
    /\ \/ /\ child' = "running"
          /\ pid' = runs + 1
          /\ open' = Closed(fd) \cup {runs + 1}
          /\ drv' = "header"
       \/ /\ ForkFails
          /\ child' = "none"
          /\ pid' = None
          /\ open' = Closed(fd)
          /\ drv' = "idle"
    /\ UNCHANGED <<after, msg, outOfSync, killed, driver>>

\* Is there something to read, or the end of the file?
Readable == pipe # <<>> \/ child # "running"

\* read() of n units: what there is of them.
Got(n) == IF n <= Len(pipe) THEN n ELSE Len(pipe)

\* waitpid() and the clean-up that follows every read that is not complete; the
\* caller goes on at a.
Abandon(a) ==
    /\ drv' = "wait"
    /\ after' = a

\* Mutant: a signal the target can ignore.
KillIgnored(p) ==
    /\ killed' = killed \cup {p}
    /\ UNCHANGED child

\* kill(): -1 stands for every process there is.
Kill(p) ==
    /\ killed' = killed \cup {p}
    /\ child' = IF child = "running" /\ p \in {runs, -1} THEN "zombie" ELSE child

Reap ==
    /\ drv = "wait"
    /\ pid # None => child = "zombie"
    /\ child' = "none"
    /\ pid' = None
    /\ open' = Closed(fd)
    /\ fd' = None
    /\ pipe' = <<>>
    /\ drv' = after
    /\ UNCHANGED <<out, sent, after, msg, handled, outOfSync, killed, runs, driver>>

\* symsan_read_event for a header runs into the timeout.  Without a descriptor,
\* select() has nothing to wait for but the timeout.
TimesOut ==
    /\ drv = "header"
    /\ HasTimeout
    /\ fd = None \/ ~Readable
    /\ Kill(pid)
    /\ Abandon("idle")
    /\ UNCHANGED <<out, sent, pipe, msg, handled, outOfSync, pid, fd, open, runs, driver>>

\* Mutant: the loop of the driver does not stop at the end of the file.
ReadsNothingContinues ==
    /\ drv = "header"
    /\ IF fd = None THEN ~HasTimeout ELSE pipe = <<>> /\ Readable
    /\ Abandon("header")
    /\ UNCHANGED <<child, out, sent, pipe, msg, handled, outOfSync, pid, fd, open,
                   killed, runs, driver>>

\* Mutant: the end of the target is taken for the end of the file.
ReadsNothingEarly ==
    /\ drv = "header"
    /\ IF fd = None THEN ~HasTimeout ELSE child # "running"
    /\ Abandon("idle")
    /\ UNCHANGED <<child, out, sent, pipe, msg, handled, outOfSync, pid, fd, open,
                   killed, runs, driver>>

\* ... or reads nothing: the end of the file, or no descriptor.
ReadsNothing ==
    /\ drv = "header"
    /\ IF fd = None THEN ~HasTimeout ELSE pipe = <<>> /\ Readable
    /\ Abandon("idle")
    /\ UNCHANGED <<child, out, sent, pipe, msg, handled, outOfSync, pid, fd, open,
                   killed, runs, driver>>

-----------------------------------------------------------------------------
(* The loop of the driver. *)

\* Mutant: the payload of a gep event is not drained.
ExpectedNoGep(m) == IF m.kind = "memcmp" /\ m.has_content THEN m.n ELSE 0

\* The payload the driver reads after a header.  The AFL++ driver looks at the operands,
\* fgtest at the flag, and the RL driver at neither.
Expected(m) ==
    CASE m.kind = "gep"    -> 1
      [] m.kind = "memcmp" -> IF m.has_content \/ driver = "rl" THEN m.n ELSE 0
      [] OTHER             -> 0

\* A header arrives; an event without payload is handled at once.
ReadsHeader ==
    /\ drv = "header"
    /\ fd # None
    /\ pipe # <<>>
    /\ LET m == Head(pipe)
       IN  /\ msg' = m
           /\ pipe' = Tail(pipe)
           /\ outOfSync' = (outOfSync \/ m.kind = "payload")
           /\ IF Expected(m) = 0
              THEN drv' = "header" /\ handled' = Append(handled, m.id)
              ELSE drv' = "payload" /\ UNCHANGED handled
    /\ UNCHANGED <<child, out, sent, after, pid, fd, open, killed, runs, driver>>

\* The payload arrives, or not all of it.  In the second case the driver only
\* leaves the switch, and reads the next header.
ReadsPayload ==
    /\ drv = "payload"
    /\ Readable
    /\ LET n == Got(Expected(msg))
       IN  /\ pipe' = SubSeq(pipe, n + 1, Len(pipe))
           /\ outOfSync' = (outOfSync \/ \E i \in 1 .. n : pipe[i] # Payload(msg.id))
           /\ IF n = Expected(msg)
              THEN /\ handled' = Append(handled, msg.id)
                   /\ drv' = "header"
                   /\ UNCHANGED after
              ELSE Abandon("header") /\ UNCHANGED handled
    /\ UNCHANGED <<child, out, sent, msg, pid, fd, open, killed, runs, driver>>

\* Mutant: the target is killed and not waited for.
TerminateUnreaped ==
    /\ IF pid = None THEN UNCHANGED <<child, killed, open>>
       ELSE Kill(pid) /\ open' = Closed(fd)
    /\ pid' = None
    /\ UNCHANGED pipe

\* symsan_terminate kills and reaps the target and closes the pipe, whose descriptor
\* it keeps.
Terminate ==
    IF pid = None THEN UNCHANGED <<child, killed, pid, open, pipe>>
    ELSE /\ killed' = killed \cup {pid}
         /\ child' = "none"
         /\ pid' = None
         /\ open' = Closed(fd)
         /\ pipe' = <<>>

\* AFL++: "Possible deadloop".
GivesUp ==
    /\ drv = "header"
    /\ driver = "aflpp"
    /\ handled # <<>>
    /\ Terminate
    /\ drv' = "idle"
    /\ UNCHANGED <<out, sent, after, msg, handled, outOfSync, fd, runs, driver>>

Target ==
    \/ TraceCond
    \/ TraceGep
    \/ \E n \in MemcmpSizes, has_content \in BOOLEAN : TraceMemcmp(n, has_content)
    \/ Write
    \/ Exit

Driver ==
    \/ ReadsHeader
    \/ ReadsNothing
    \/ ReadsPayload
    \/ Reap
    \/ TimesOut

Next ==
    \/ Target
    \/ Driver
    \/ GivesUp
    \/ Run

Spec == Init /\ [][Next]_vars

\* A write that can be made is made, the driver keeps running, and a target that
\* does not hang ends.  Whoever uses fgtest, which has no timeout, sees to it that
\* the target ends.
Fairness ==
    /\ WF_vars(Write)
    /\ WF_vars(Driver)
    /\ WF_vars((~MayHang \/ ~HasTimeout) /\ Exit)

FairSpec == Spec /\ Fairness

-----------------------------------------------------------------------------
(* Properties. *)

\* The driver reads a header where a header was written and the payload of a
\* header after it, and it handles the events in the order they happened, with
\* none left out.
InSync ==
    /\ ~outOfSync
    /\ handled = [i \in 1 .. Len(handled) |-> i]
    /\ Len(handled) <= sent

\* Only targets the driver has started are killed: kill() never gets -1.
KillsOnlyTarget == \A p \in killed : p \in 1 .. runs

\* After a run nothing is left of it: the target is reaped and the pipe closed.
NothingLeft ==
    drv = "idle" => /\ child = "none"
                    /\ open = {}

\* The driver sees the end of a run only when it has handled every event of a
\* target that ended by itself.
AllHandled ==
    drv = "wait" /\ after = "idle" /\ pid \notin killed /\ out = <<>> =>
        Len(handled) = sent

\* Every run ends: the driver is not left waiting for the target, nor the target
\* for the driver.
RunEnds == drv # "idle" ~> drv = "idle"
=============================================================================
