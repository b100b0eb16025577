---------------------------- MODULE MCTaintInput ----------------------------
(* The instances of TaintInput that TLC checks. *)
EXTENDS TaintInput, TLC

\* A line, a zero byte, and a last line without an end.
MCInput == <<"x", "nl", "nul", "x">>

\* Calls that meet on a descriptor or a stream.
MCPrograms ==
    {[mode |-> "file", calls |-> {"open", "close", "read", "seek", "mmap", "freopen"}],
     [mode |-> "file", calls |-> {"fopen", "fclose", "fread", "fgets", "seek", "read"}],
     [mode |-> "file", calls |-> {"fopen", "fclose", "write", "pread", "getline", "getc", "gets", "fread item"}],
     [mode |-> "file", calls |-> {"utmp", "stat"}],
     [mode |-> "forced", calls |-> {"fopen", "close", "read", "seek", "mmap", "pread"}],
     [mode |-> "regular", calls |-> {"open", "close", "read", "fread", "seek", "pread", "mmap"}],
     [mode |-> "pipe", calls |-> {"open", "close", "read", "fread", "getc", "getline", "fgets",
                                  "fread item", "gets", "mmap"}],
     [mode |-> "socket", calls |-> {"socket", "close", "read"}]}

Symmetry == Permutations(Threads)
=============================================================================
