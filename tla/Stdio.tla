---------------------------------- MODULE Stdio ----------------------------------
(***************************************************************************)
(* How the programs print and exit: usage and version_etc                  *)
(* (src/coreutils/version-etc.c) print to stdout, error                    *)
(* (src/coreutils/error.c) prints to stderr, and exit() calls close_stdout *)
(* (src/coreutils/closeout.c), which looks whether it all has arrived.     *)
(*                                                                         *)
(* Printing to stdout only fills a buffer, and may come too early to       *)
(* notice that stdout is closed, or that its disk is full; and when the    *)
(* buffer is written and that fails, a later write may succeed.            *)
(***************************************************************************)
EXTENDS Naturals

CONSTANTS
  HelpLength, VersionLength,  \* pieces of the texts, one per call of printf or fputs
  BufferLength                \* how many of them the buffer of stdout holds

ASSUME TextAssumption ==
  {HelpLength, VersionLength} \subseteq Nat /\ BufferLength \in Nat \ {0}

VARIABLES
  pc,
  opened,    \* environment: the streams whose descriptor is open
  to_print,  \* pieces of the text that are left
  pending,   \* __fpending(stdout)
  failed,    \* the streams with ferror()
  trouble,   \* history: streams that lost some output, or were open and failed to close
  wanted,    \* the argument of exit()
  status     \* of the process

\* The parts of the state.
streams == <<pending, failed, trouble>>
exits   == <<wanted, status>>

stdout  == "stdout"
stderr  == "stderr"
Streams == {stdout, stderr}

StdioInit ==
  /\ opened \in SUBSET Streams
  /\ to_print = 0 /\ pending = 0 /\ failed = {} /\ trouble = {}
  /\ wanted = 0 /\ status = 0

\* write() fails if the descriptor is closed, and may fail if it is open.
WriteFails(s) == failed' = failed \cup {s} /\ trouble' = trouble \cup {s}
Writes(s)     == (s \in opened /\ UNCHANGED <<failed, trouble>>) \/ WriteFails(s)

\* One printf or fputs to stdout. A full buffer is written first, and emptied even if that
\* fails; then the piece is lost too.
fputs ==
  \/ /\ pending < BufferLength
     /\ pending' = pending + 1
     /\ UNCHANGED <<failed, trouble>>
  \/ /\ pending = BufferLength
     /\ stdout \in opened
     /\ pending' = 1
     /\ UNCHANGED <<failed, trouble>>
  \/ /\ pending = BufferLength
     /\ WriteFails(stdout)
     /\ pending' = 0

\* exit(s), which has close_stdout to call.
exit(s) == pc' = "atexit" /\ wanted' = s /\ UNCHANGED status
---------------------------------------------------------------------------------
\* error(EXIT_FAILURE, ...). Its flush_stdout has nothing to do: the programs call it before
\* they print, and their stdout is unbuffered once they run.
error == pc \in {"refused", "refused_seconds", "refused_path"} /\ Writes(stderr) /\ exit(1)
         /\ UNCHANGED <<opened, to_print, pending>>

\* A piece of the text of --help or --version, and exit(EXIT_SUCCESS) after the last one.
PrintText ==
  /\ pc = "print"
  /\ \/ /\ to_print > 0
        /\ fputs
        /\ to_print' = to_print - 1
        /\ UNCHANGED <<pc, exits>>
     \/ to_print = 0 /\ exit(0) /\ UNCHANGED <<to_print, streams>>
  /\ UNCHANGED opened
---------------------------------------------------------------------------------
\* Mutant: ferror() is not asked.
CloseError_NoPrevFail(s, fclose_fail, some_pending) ==
  fclose_fail /\ (some_pending \/ s \in opened)

\* Whether close_stream fails. That fclose() has failed is ignored if nothing was to be
\* written and the descriptor was closed: errno = EBADF.
CloseError(s, fclose_fail, some_pending) ==
  s \in failed \/ (fclose_fail /\ (some_pending \/ s \in opened))

\* close_stream, which has failed or not. fclose() writes what is pending and closes the
\* descriptor, and either may fail.
close_stream(s, res) ==
  \E fclose_fail \in BOOLEAN :
    LET some_pending == s = stdout /\ pending > 0 IN
    /\ fclose_fail \/ s \in opened
    /\ res = CloseError(s, fclose_fail, some_pending)
    /\ pending' = IF s = stdout THEN 0 ELSE pending
    /\ trouble' = IF fclose_fail /\ (some_pending \/ s \in opened) THEN trouble \cup {s}
                                                                   ELSE trouble

\* stdout first; what error() says of it may not arrive either.
close_stdout ==
  /\ pc = "atexit"
  /\ \/ close_stream(stdout, FALSE) /\ pc' = "close_stderr" /\ UNCHANGED status
     \/ close_stream(stdout, TRUE) /\ pc' = "exited" /\ status' = 1
  /\ UNCHANGED <<opened, to_print, failed, wanted>>

close_stderr ==
  /\ pc = "close_stderr"
  /\ pc' = "exited"
  /\ \/ close_stream(stderr, FALSE) /\ status' = wanted
     \/ close_stream(stderr, TRUE) /\ status' = 1
  /\ UNCHANGED <<opened, to_print, failed, wanted>>

StdioStep == error \/ PrintText \/ close_stdout \/ close_stderr
---------------------------------------------------------------------------------
\* The types of this module's variables.
StdioTypeOK ==
  /\ opened \subseteq Streams /\ failed \subseteq Streams /\ trouble \subseteq Streams
  /\ to_print \in Nat /\ pending \in 0..BufferLength
  /\ wanted \in {0, 1} /\ status \in {0, 1}

\* A program that exits with 0 has lost nothing of what it printed with stdio, also if it
\* was lost while the buffer was filled and closing went well ("It's important to detect
\* such failures and exit nonzero", closeout.c). And success is not turned into failure
\* without a reason: not because stdout or stderr was closed from the start, when nothing
\* was printed to it (close-stream.c).
StatusTellsLoss ==
  pc = "exited" =>
    /\ status = 0 => trouble = {}
    /\ status # wanted => trouble # {}
=================================================================================
