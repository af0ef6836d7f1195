--------------------------------- MODULE Server ---------------------------------
(***************************************************************************)
(* tailserver (src/tailserver.c, pipes.c, sockets.c, stdout.c and          *)
(* portability/safe_write.c): one thread runs a libev loop that copies     *)
(* stdin to stdout and to every connected client, a "tailer", after giving *)
(* it the tail of what has passed so far.                                  *)
(*                                                                         *)
(* The loop polls for the watchers that are ready and then runs the        *)
(* callback of each of them; between two system calls of a callback the    *)
(* producer of stdin, the clients and the user go on.  Bytes are named by  *)
(* their position in stdin.  The tail buffer is abstract: it keeps the     *)
(* last n_units lines or bytes, as Buffer.tla shows it does.               *)
(***************************************************************************)
EXTENDS Stream, Sequences, SequencesExt

CONSTANTS
  Clients,        \* external connections, each is made once
  Files,          \* {TRUE}: a SOCKET_FILE is given, {FALSE}: it is not
  Waits,          \* the values of -w to consider
  Blocks,         \* the values of tailer_block_forever (not -d)
  Ignores,        \* the values of -i
  Modes,          \* the values of count_lines
  Units,          \* the values of n_units
  NewlineSets,    \* where stdin may have newlines
  PartialWrites,  \* may write() on a socket accept a part of its bytes?
  ReadSize,       \* the most bytes one read of stdin returns
  Capacity,       \* what the socket of a client holds unread
  MaxAcceptRetry, \* MAX_ACCEPT_RETRY
  MaxBytes,       \* bound: bytes on stdin
  MaxFailures     \* bound: failed system calls

ASSUME SizesAssumption ==
  /\ ReadSize \in Nat \ {0} /\ Capacity \in Nat /\ Capacity >= ReadSize
  /\ MaxBytes \in Nat /\ MaxFailures \in Nat /\ MaxAcceptRetry \in Nat \ {0}
ASSUME OptionsAssumption ==
  /\ Files \cup Waits \cup Blocks \cup Ignores \cup Modes \cup {PartialWrites} \subseteq BOOLEAN
  /\ Units \subseteq Nat /\ UNION NewlineSets \subseteq Nat

VARIABLES
  file_given, wait_for_client, tailer_block_forever, ignore_interrupts,  \* options
  count_lines, n_units,
  waiting_for_client,  \* -w, until the first client is served
  stdin_started,       \* the stdin watcher is active
  unix_sock,           \* listening (or INVALID_SOCKET)
  received,            \* bytes read from stdin and appended to the buffer
  tailers,             \* the list from first_tailer on
  broken,              \* ev_break was called
  retry, nonblocking,  \* of accept: failed tries, and whether O_NONBLOCK is set
  status,              \* of exit, so far
  pc, pending,         \* where in the loop we are, and callbacks yet to run
  data, pos,           \* what is being written: stdin_cb's data; the tail from the
                       \* cut pos on
  tailer,              \* to which client
  newlines,            \* environment: which bytes of stdin are newlines,
  supplied, eof,       \* how many have been put into it, and its end
  stdout,              \* the bytes written to stdout,
  stdout_full,         \* and whether its reader leaves no room for more
  backlog,             \* connections the kernel has not handed out yet
  client, spoke,       \* each client's end of its connection, and whether it
                       \* has sent something that was not read
  sent, unread,        \* what was written to a client; how much it has not read
  interrupted,         \* SIGINT was raised
  failures,            \* failed system calls so far
  joined,              \* history: received when the client was accepted, or -1
  out_of_memory        \* history: buffer_set_appended has failed

options == <<file_given, wait_for_client, tailer_block_forever, ignore_interrupts,
             count_lines, n_units, newlines>>
serving == <<waiting_for_client, stdin_started, unix_sock, received, broken>>
accepting == <<retry, nonblocking>>
aside   == <<accepting, status, out_of_memory>>
writing == <<data, pos, tailer>>
control == <<pc, pending, writing, aside>>
pipes   == <<supplied, eof, stdout_full>>
conns   == <<backlog, client, spoke, joined>>
channel == <<sent, unread>>
vars    == <<options, serving, tailers, control, pipes, stdout, conns, channel,
             interrupted, failures>>

None == "none"
listener == "listener"
stdin == "stdin"
sigint == "sigint"

\* No client goes by the name of something else.
ASSUME NamesAssumption ==
  Clients \cap {None, listener, stdin, sigint, "stdout"} = {}

Bytes(lo, hi) == [i \in 1..(hi - lo) |-> lo + i]
\* Where the tail of the first n bytes starts.
TailCut(n) == TailStartAt(count_lines, n_units, newlines, n)
---------------------------------------------------------------------------------
\* After main has read the options, and server_init.
Init ==
  /\ file_given \in Files /\ tailer_block_forever \in Blocks
  /\ ignore_interrupts \in Ignores
  /\ count_lines \in Modes /\ n_units \in Units /\ newlines \in NewlineSets
  /\ wait_for_client \in Waits /\ waiting_for_client = wait_for_client
  /\ stdin_started = FALSE /\ unix_sock = FALSE
  /\ received = 0 /\ tailers = <<>> /\ broken = FALSE
  /\ pc = "init" /\ pending = {}
  /\ retry = 0 /\ nonblocking = FALSE /\ status = 0
  /\ data = <<>> /\ pos = 0 /\ tailer = None
  /\ supplied = 0 /\ eof = FALSE /\ stdout = <<>> /\ stdout_full = FALSE
  /\ backlog = <<>>
  /\ client = [c \in Clients |-> "away"] /\ spoke = [c \in Clients |-> FALSE]
  /\ sent = [c \in Clients |-> <<>>] /\ unread = [c \in Clients |-> 0]
  /\ interrupted = FALSE /\ failures = 0
  /\ joined = [c \in Clients |-> -1] /\ out_of_memory = FALSE

Fails == failures < MaxFailures /\ failures' = failures + 1

\* Mutant: -w is ignored.
pipes_init_IgnoresWait == stdin_started' = TRUE

pipes_init == stdin_started' = ~waiting_for_client

\* buffer_init; then pipes_init reopens stdin and starts its watcher unless -w; then
\* sockets_init listens on the file if there is one. When one fails the program exits,
\* and undoes those before it.
init_all ==
  /\ pc = "init"
  /\ \/ /\ pipes_init
        /\ unix_sock' = file_given /\ pc' = "run" /\ UNCHANGED <<failures, status>>
     \/ /\ Fails /\ status' = 1
        /\ \/ UNCHANGED stdin_started /\ pc' = "atexit"        \* buffer_init, xfreopen
           \/ file_given /\ pipes_init /\ pc' = "close_stdin"  \* sockets_init
        /\ UNCHANGED unix_sock
  /\ UNCHANGED <<options, waiting_for_client, received, broken, tailers, pending,
                 writing, accepting, out_of_memory, pipes, stdout, conns, channel,
                 interrupted>>

---------------------------------------------------------------------------------
(***************************************************************************)
(* The loop: ev_run.                                                       *)
(***************************************************************************)
\* Mutant: a watcher that was never started.
Active_NoListener ==
  (IF stdin_started THEN {stdin} ELSE {}) \cup (IF ignore_interrupts THEN {} ELSE {sigint})
  \cup ToSet(tailers)

\* The watchers that are active, and those of them poll() reports.
Active ==
  (IF stdin_started THEN {stdin} ELSE {}) \cup (IF unix_sock THEN {listener} ELSE {})
  \cup (IF ignore_interrupts THEN {} ELSE {sigint}) \cup ToSet(tailers)

Ready ==
  {w \in Active :
     \/ w = stdin /\ (supplied > received \/ eof)
     \/ w = listener /\ backlog # <<>>
     \/ w = sigint /\ interrupted
     \/ w \in Clients /\ (spoke[w] \/ client[w] = "gone")}

\* One turn of the loop: every ready watcher gets its callback.
Poll ==
  /\ pc = "run" /\ ~broken /\ pending = {}
  /\ Ready # {}
  /\ pending' = Ready
  /\ UNCHANGED <<options, serving, tailers, pc, writing, aside, pipes, stdout, conns,
                 channel, interrupted, failures>>

\* ev_run returns: after ev_break, though the pending callbacks still run, or when
\* no watcher is left.
Leave ==
  /\ pc = "run" /\ pending = {}
  /\ broken \/ Active = {}
  /\ pc' = "final"
  /\ UNCHANGED <<options, serving, tailers, pending, writing, aside, pipes, stdout,
                 conns, channel, interrupted, failures>>

\* Mutant: the error ends the program where it is.
libev_error_handler_JustExits ==
  /\ pc = "run" /\ ~broken /\ pending = {}
  /\ Fails
  /\ pc' = "atexit" /\ status' = 1
  /\ UNCHANGED <<options, serving, tailers, pending, writing, accepting, out_of_memory,
                 pipes, stdout, conns, channel, interrupted>>

\* poll() itself fails.
libev_error_handler ==
  /\ pc = "run" /\ ~broken /\ pending = {}
  /\ Fails
  /\ pc' = "final" /\ status' = 1
  /\ UNCHANGED <<options, serving, tailers, pending, writing, accepting, out_of_memory,
                 pipes, stdout, conns, channel, interrupted>>

\* A callback begins: its watcher is not pending any more.
Starts(w) == pc = "run" /\ w \in pending /\ pending' = pending \ {w}

sigint_cb ==
  /\ Starts(sigint)
  /\ broken' = TRUE /\ interrupted' = FALSE
  /\ UNCHANGED <<options, waiting_for_client, stdin_started, unix_sock, received,
                 tailers, pc, writing, aside, pipes, stdout, conns, channel, failures>>
---------------------------------------------------------------------------------
(***************************************************************************)
(* Writing to a client: tailer_write_blocking over safe_write.             *)
(***************************************************************************)
Room(c) == Capacity - unread[c]

\* Mutant: nobody looks whether there is room.
WriteAll_Regardless(c, bytes) ==
  /\ client[c] = "open"
  /\ sent' = [sent EXCEPT ![c] = @ \o bytes]
  /\ unread' = [unread EXCEPT ![c] = @ + Len(bytes)]

\* All of bytes is written.
WriteAll(c, bytes) ==
  /\ client[c] = "open" /\ Len(bytes) <= Room(c)
  /\ sent' = [sent EXCEPT ![c] = @ \o bytes]
  /\ unread' = [unread EXCEPT ![c] = @ + Len(bytes)]

\* Mutants: safe_write and safe_write_forever are mixed up.
WriteLess_NeverGivesUp(c, bytes) == client[c] = "gone" /\ UNCHANGED channel
WriteLess_AlwaysGivesUp(c, bytes) ==
  /\ client[c] = "gone" \/ Len(bytes) > Room(c)
  /\ UNCHANGED channel

\* Less than all of bytes is written.
WriteLess(c, bytes) ==
  \/ /\ client[c] = "gone"                          \* EPIPE
     /\ UNCHANGED channel
  \/ /\ client[c] = "open" /\ ~tailer_block_forever \* EAGAIN too many times
     /\ IF PartialWrites THEN Room(c) = 0 ELSE Len(bytes) > Room(c)
     /\ UNCHANGED channel
  \/ /\ client[c] = "open" /\ PartialWrites         \* a short write
     /\ Room(c) \in 1..(Len(bytes) - 1)
     /\ sent' = [sent EXCEPT ![c] = @ \o SubSeq(bytes, 1, Room(c))]
     /\ unread' = [unread EXCEPT ![c] = Capacity]

\* Where in the list the tailer of c is.
Place(c) == CHOOSE i \in DOMAIN tailers : tailers[i] = c

\* Mutant: the watcher is freed and its callback stays pending.
tailer_final_LeavesPending(c) ==
  tailers' = RemoveAt(tailers, Place(c)) /\ UNCHANGED pending

\* tailer_final takes the tailer out of the list and also stops its watcher, so that a
\* pending callback is forgotten.
tailer_final(c) ==
  /\ tailers' = RemoveAt(tailers, Place(c))
  /\ pending' = pending \ {c}

\* Mutant: the walk advances twice.
next_Skips(c) ==
  IF Place(c) + 1 >= Len(tailers) THEN None ELSE tailers[Place(c) + 2]

\* The tailer after c in the list, or None.
next(c) == IF Place(c) = Len(tailers) THEN None ELSE tailers[Place(c) + 1]
---------------------------------------------------------------------------------
(***************************************************************************)
(* stdin_cb                                                                *)
(***************************************************************************)
\* What was read is in the buffer, and goes to stdout next. Whether there is room for
\* it is up to who reads stdout.
stdin_cb_Read ==
  /\ Starts(stdin)
  /\ \E n \in 1..ReadSize :
       /\ received + n <= supplied
       /\ received' = received + n
       /\ data' = Bytes(received, received + n)
  /\ pc' = "stdout" /\ stdout_full' \in BOOLEAN
  /\ UNCHANGED <<options, waiting_for_client, stdin_started, unix_sock, broken, tailers,
                 pos, tailer, aside, supplied, eof, stdout, conns, channel, interrupted,
                 failures>>

\* Nothing more to read, a read error, or buffer_set_appended is out of memory: what
\* was read is lost, but the buffer has it.
stdin_cb_Break ==
  /\ Starts(stdin)
  /\ \/ eof /\ supplied = received /\ UNCHANGED <<received, out_of_memory, failures>>
     \/ Fails /\ UNCHANGED <<received, out_of_memory>>
     \/ /\ Fails /\ out_of_memory' = TRUE
        /\ received' \in received + 1 .. received + ReadSize /\ received' <= supplied
  /\ broken' = TRUE
  /\ UNCHANGED <<options, waiting_for_client, stdin_started, unix_sock, tailers, pc,
                 writing, accepting, status, pipes, stdout, conns, channel, interrupted>>

\* EAGAIN or EINTR: there is nothing to read after all.
ReadsNothing(w) ==
  /\ Starts(w)
  /\ Fails
  /\ UNCHANGED <<options, serving, tailers, pc, writing, aside, pipes, stdout, conns,
                 channel, interrupted>>

stdin_cb_Again == ReadsNothing(stdin)

\* first_tailer, where sockets_write_blocking starts.
FirstTailer == IF tailers = <<>> THEN None ELSE tailers[1]

Broadcast(c) ==
  /\ tailer' = c
  /\ IF c = None THEN pc' = "run" /\ data' = <<>>
                 ELSE pc' = "broadcast" /\ UNCHANGED data

\* safe_write_forever waits for room, with -d too. Then all of data is written; or stdout
\* is lost, also while it waits, with a part of data.
stdout_write_blocking(ok) ==
  /\ \/ ok /\ ~stdout_full /\ stdout' = stdout \o data /\ UNCHANGED failures
     \/ /\ ~ok /\ Fails
        /\ \E n \in 0..(Len(data) - 1) : stdout' = stdout \o SubSeq(data, 1, n)
  /\ stdout_full' = FALSE /\ UNCHANGED <<supplied, eof>>

\* Mutant: a failed or short write to stdout is ignored.
stdout_write_blocking_or_break_GoesOn ==
  /\ pc = "stdout"
  /\ \E ok \in BOOLEAN : stdout_write_blocking(ok)
  /\ Broadcast(FirstTailer)
  /\ UNCHANGED <<options, serving, tailers, pending, pos, aside, conns, channel,
                 interrupted>>

\* When stdout is lost the loop ends, but the clients get the data all the same.
stdout_write_blocking_or_break ==
  /\ pc = "stdout"
  /\ \E ok \in BOOLEAN : stdout_write_blocking(ok) /\ broken' = (broken \/ ~ok)
  /\ Broadcast(FirstTailer)
  /\ UNCHANGED <<options, waiting_for_client, stdin_started, unix_sock, received,
                 tailers, pending, pos, aside, conns, channel, interrupted>>

\* Mutant: who gets a short write is kept.
sockets_write_blocking_KeepsTailer ==
  /\ pc = "broadcast"
  /\ WriteAll(tailer, data) \/ WriteLess(tailer, data)
  /\ Broadcast(next(tailer))
  /\ UNCHANGED <<options, serving, tailers, pending, pos, aside, pipes, stdout, conns,
                 interrupted, failures>>

\* sockets_write_blocking: one turn of its loop.
sockets_write_blocking ==
  /\ pc = "broadcast"
  /\ \/ WriteAll(tailer, data) /\ UNCHANGED <<tailers, pending>>
     \/ WriteLess(tailer, data) /\ tailer_final(tailer)
  /\ Broadcast(next(tailer))
  /\ UNCHANGED <<options, serving, pos, aside, pipes, stdout, conns, interrupted,
                 failures>>
---------------------------------------------------------------------------------
(***************************************************************************)
(* unix_sock_cb                                                            *)
(***************************************************************************)
\* The listener is made nonblocking: the connection that poll saw may be gone.
unix_sock_cb ==
  /\ Starts(listener)
  /\ pc' = "accept" /\ retry' = 0 /\ nonblocking' = TRUE
  /\ UNCHANGED <<options, serving, tailers, writing, status, out_of_memory, pipes,
                 stdout, conns, channel, interrupted, failures>>

\* accept() and tailer_init: the new tailer is the first of the list.
unix_sock_cb_Accept ==
  /\ pc = "accept"
  /\ retry < MaxAcceptRetry /\ backlog # <<>>
  /\ LET c == Head(backlog) IN
       /\ tailers' = <<c>> \o tailers
       /\ joined' = [joined EXCEPT ![c] = received]
       /\ tailer' = c
  /\ backlog' = Tail(backlog)
  /\ retry' = 0 /\ nonblocking' = FALSE
  /\ pc' = "size"
  /\ UNCHANGED <<options, serving, pending, data, pos, status, out_of_memory, pipes,
                 stdout, client, spoke, channel, interrupted, failures>>


\* EAGAIN. "Try without O_NONBLOCK" comes after the last try. (With O_NONBLOCK off and
\* nobody there, accept() would wait.)
unix_sock_cb_Again ==
  /\ pc = "accept"
  /\ retry < MaxAcceptRetry /\ backlog = <<>> /\ nonblocking
  /\ retry' = retry + 1
  /\ nonblocking' = (retry # MaxAcceptRetry - 1)
  /\ UNCHANGED <<options, serving, tailers, pc, pending, writing, status, out_of_memory,
                 pipes, stdout, conns, channel, interrupted, failures>>

\* accept() fails and the connection stays where it is or is lost, also for good after
\* the last try; or getsockname or malloc fails and it is closed.
unix_sock_cb_Fail ==
  /\ pc = "accept"
  /\ \/ retry = MaxAcceptRetry /\ UNCHANGED <<backlog, failures>>
     \/ /\ retry < MaxAcceptRetry /\ Fails
        /\ \/ UNCHANGED backlog
           \/ backlog # <<>> /\ backlog' = Tail(backlog)
  /\ pc' = "run" /\ retry' = 0 /\ nonblocking' = FALSE
  /\ UNCHANGED <<options, serving, tailers, pending, writing, status, out_of_memory,
                 pipes, stdout, client, spoke, joined, channel, interrupted>>

\* The end of unix_sock_cb, whether the tail was sent or its tailer was ditched:
\* pipes_on_new_client starts reading stdin, which -w has put off.
pipes_on_new_client ==
  /\ waiting_for_client' = FALSE
  /\ stdin_started' = (stdin_started \/ waiting_for_client)
  /\ pc' = "run" /\ tailer' = None /\ pos' = 0
  /\ UNCHANGED <<unix_sock, received, broken, data>>

SendsLess(bytes) ==
  /\ WriteLess(tailer, bytes) /\ tailer_final(tailer)
  /\ pipes_on_new_client

\* tailer_send_buffered_tail: the size ...
SendSize ==
  /\ pc = "size"
  /\ LET size == <<received - TailCut(received)>> IN
     \/ /\ WriteAll(tailer, size)
        /\ pos' = TailCut(received) /\ pc' = "tail"
        /\ UNCHANGED <<serving, data, tailer, tailers, pending>>
     \/ SendsLess(size)
  /\ UNCHANGED <<options, aside, pipes, stdout, conns, interrupted, failures>>

\* ... and the tail, chunk by chunk.
SendTail ==
  /\ pc = "tail"
  /\ \/ /\ pos < received
        /\ \E n \in 1..ReadSize :
             /\ pos + n <= received
             /\ LET bytes == Bytes(pos, pos + n) IN
                \/ /\ WriteAll(tailer, bytes)
                   /\ pos' = pos + n
                   /\ UNCHANGED <<serving, pc, data, tailer, tailers, pending>>
                \/ SendsLess(bytes)
     \/ /\ pos = received
        /\ pipes_on_new_client
        /\ UNCHANGED <<channel, tailers, pending>>
  /\ UNCHANGED <<options, aside, pipes, stdout, conns, interrupted, failures>>

\* The client has sent something, or is gone: the connection ends.
tailer_readable_cb(c) ==
  /\ pc = "run" /\ c \in pending
  /\ tailer_final(c)
  /\ spoke' = [spoke EXCEPT ![c] = FALSE]
  /\ UNCHANGED <<options, serving, pc, writing, aside, pipes, stdout, backlog, client,
                 joined, channel, interrupted, failures>>

\* Or EAGAIN or EINTR: it stays.
tailer_readable_cb_Again == \E c \in Clients : ReadsNothing(c)
---------------------------------------------------------------------------------
(***************************************************************************)
(* final_all, and exit.                                                    *)
(***************************************************************************)
\* The listener and all tailers are closed, and the clients still in the backlog with it.
sockets_final ==
  /\ pc = "final"
  /\ unix_sock' = FALSE /\ tailers' = <<>> /\ backlog' = <<>>
  /\ pc' = "close_stdin"
  /\ UNCHANGED <<options, waiting_for_client, stdin_started, received, broken, pending,
                 writing, aside, pipes, stdout, client, spoke, joined, channel,
                 interrupted, failures>>

\* pipes_final closes stdin; when that fails error() exits, without buffer_final.
pipes_final ==
  /\ pc = "close_stdin"
  /\ \/ UNCHANGED <<status, failures>>
     \/ Fails /\ status' = 1
  /\ stdin_started' = FALSE
  /\ pc' = "atexit"
  /\ UNCHANGED <<options, waiting_for_client, unix_sock, received, broken, tailers,
                 pending, writing, accepting, out_of_memory, pipes, stdout, conns,
                 channel, interrupted>>

\* exit() calls close_stdout. stdio has nothing to write, for stdout is written to with
\* write(), so that only closing it can fail.
close_stdout ==
  /\ pc = "atexit"
  /\ \/ UNCHANGED <<status, failures>>
     \/ Fails /\ status' = 1
  /\ pc' = "exited"
  /\ UNCHANGED <<options, serving, tailers, pending, writing, accepting, out_of_memory,
                 pipes, stdout, conns, channel, interrupted>>
---------------------------------------------------------------------------------
(***************************************************************************)
(* The environment: who writes stdin and reads stdout, the clients, the    *)
(* user.                                                                   *)
(***************************************************************************)
Supply ==
  /\ ~eof /\ supplied < MaxBytes
  /\ supplied' = supplied + 1
  /\ UNCHANGED <<options, serving, tailers, control, eof, stdout_full, stdout, conns,
                 channel, interrupted, failures>>

CloseInput ==
  /\ ~eof /\ eof' = TRUE
  /\ UNCHANGED <<options, serving, tailers, control, supplied, stdout_full, stdout,
                 conns, channel, interrupted, failures>>

\* stdout has room again.
StdoutDrains ==
  /\ stdout_full /\ stdout_full' = FALSE
  /\ UNCHANGED <<options, serving, tailers, control, supplied, eof, stdout, conns,
                 channel, interrupted, failures>>

Interrupt ==
  /\ ~ignore_interrupts /\ ~interrupted /\ ~broken /\ pc # "init"
  /\ interrupted' = TRUE
  /\ UNCHANGED <<options, serving, tailers, control, pipes, stdout, conns, channel,
                 failures>>

Connect(c) ==
  /\ unix_sock /\ client[c] = "away"
  /\ client' = [client EXCEPT ![c] = "open"]
  /\ backlog' = Append(backlog, c)
  /\ UNCHANGED <<options, serving, tailers, control, pipes, stdout, spoke, joined,
                 channel, interrupted, failures>>

\* tailclient does this when it has all of the tail and is not to follow.
Speak(c) ==
  /\ client[c] = "open" /\ ~spoke[c]
  /\ c \in ToSet(backlog) \cup ToSet(tailers)
  /\ spoke' = [spoke EXCEPT ![c] = TRUE]
  /\ UNCHANGED <<options, serving, tailers, control, pipes, stdout, backlog, client,
                 joined, channel, interrupted, failures>>

ClientReads(c) ==
  /\ client[c] = "open" /\ unread[c] > 0
  /\ \E n \in 1..unread[c] : unread' = [unread EXCEPT ![c] = @ - n]
  /\ UNCHANGED <<options, serving, tailers, control, pipes, stdout, conns, sent,
                 interrupted, failures>>

\* The kernel may forget a connection that is gone before it was accepted ("False
\* positives possible").
ClientLeaves(c) ==
  /\ client[c] = "open"
  /\ client' = [client EXCEPT ![c] = "gone"]
  /\ spoke' = [spoke EXCEPT ![c] = FALSE] /\ unread' = [unread EXCEPT ![c] = 0]
  /\ \/ UNCHANGED backlog
     \/ \E i \in DOMAIN backlog : backlog[i] = c /\ backlog' = RemoveAt(backlog, i)
  /\ UNCHANGED <<options, serving, tailers, control, pipes, stdout, joined, sent,
                 interrupted, failures>>

ServerStep ==
  \/ init_all \/ Poll \/ Leave \/ libev_error_handler \/ sigint_cb
  \/ stdin_cb_Read \/ stdin_cb_Break \/ stdin_cb_Again
  \/ stdout_write_blocking_or_break
  \/ sockets_write_blocking
  \/ unix_sock_cb \/ unix_sock_cb_Accept \/ unix_sock_cb_Again \/ unix_sock_cb_Fail
  \/ SendSize \/ SendTail
  \/ tailer_readable_cb_Again
  \/ \E c \in Clients : tailer_readable_cb(c)
  \/ sockets_final \/ pipes_final \/ close_stdout

Closed == pc \in {"close_stdin", "atexit", "exited"}

\* (What happens after the sockets are closed is no longer of interest.)
Environment ==
  /\ ~Closed
  /\ \/ Supply \/ CloseInput \/ StdoutDrains \/ Interrupt
     \/ \E c \in Clients : Connect(c) \/ Speak(c) \/ ClientReads(c) \/ ClientLeaves(c)

Next == ServerStep \/ Environment

Spec == Init /\ [][Next]_vars

\* The server runs, and no system call has to fail. Whoever reads stdout goes on reading,
\* for the server waits for that, with -d too (test/TODO.txt:16-19 expects the clients to
\* "patiently block" in the meantime). With -d nothing is expected of clients; without it
\* those that stay connected go on reading, for the server waits for them as well.
Fairness ==
  /\ WF_vars(ServerStep /\ failures' = failures)
  /\ WF_vars(StdoutDrains)
  /\ \A c \in Clients : WF_vars(tailer_block_forever /\ ClientReads(c))

FairSpec == Spec /\ Fairness
---------------------------------------------------------------------------------
\* Type invariant.
FlagTypes ==
  {file_given, wait_for_client, tailer_block_forever, ignore_interrupts,
   waiting_for_client, count_lines, stdin_started, unix_sock, broken, eof, stdout_full,
   interrupted, nonblocking, out_of_memory} \subseteq BOOLEAN
CountTypes ==
  /\ n_units \in Units /\ newlines \in NewlineSets
  /\ retry \in 0..MaxAcceptRetry /\ status \in {0, 1} /\ failures \in 0..MaxFailures
  /\ supplied \in 0..MaxBytes /\ received \in 0..supplied /\ pos \in 0..received
ControlTypes ==
  /\ pc \in {"init", "run", "stdout", "broadcast", "accept", "size", "tail", "final",
             "close_stdin", "atexit", "exited"}
  /\ pending \subseteq {stdin, listener, sigint} \cup Clients
  /\ tailer \in Clients \cup {None}
ListTypes == tailers \in Seq(Clients) /\ backlog \in Seq(Clients)
DataTypes == data \in Seq(1..MaxBytes) /\ stdout \in Seq(1..MaxBytes)
ClientTypes ==
  /\ client \in [Clients -> {"away", "open", "gone"}] /\ spoke \in [Clients -> BOOLEAN]
  /\ joined \in [Clients -> -1..MaxBytes]
ChannelTypes ==
  sent \in [Clients -> Seq(0..MaxBytes)] /\ unread \in [Clients -> 0..Capacity]

TypeOK ==
  /\ FlagTypes /\ CountTypes /\ ControlTypes /\ ListTypes /\ DataTypes
  /\ ClientTypes /\ ChannelTypes

Accepted == {c \in Clients : joined[c] >= 0}

\* What client c is to get: the size of the tail when it was accepted, that tail,
\* and everything that stdin brought since.
Stream(c) ==
  <<joined[c] - TailCut(joined[c])>> \o Bytes(TailCut(joined[c]), received)

\* Nothing a client ever got is wrong: not a byte is missing, repeated or out of
\* order, between the tail and what follows it either, and also if the client was
\* ditched or the server is on its way out.
ClientsGetTheStream ==
  \A c \in Clients : IF c \in Accepted THEN IsPrefix(sent[c], Stream(c))
                                       ELSE sent[c] = <<>>

\* And nobody is left behind: whenever no callback runs, and when the loop ends, be it
\* that stdin has ended, that stdout is lost or that the user wants it to, every client
\* in the list has been sent everything that was read. (Except out of memory: then the
\* last of it is given to nobody.)
NobodyIsLeftBehind ==
  pc \in {"run", "final"} /\ ~out_of_memory =>
    \A c \in ToSet(tailers) : sent[c] = Stream(c)

\* stdout gets stdin and nothing else, all of it before more is read, and no client
\* sees a byte that stdout has not got, unless stdout is lost.
StdoutComesFirst ==
  /\ IsPrefix(stdout, Bytes(0, received))
  /\ ~broken /\ pc # "stdout" =>
       /\ Len(stdout) = received
       /\ \A c \in Accepted : Len(sent[c]) > 1 => Last(sent[c]) <= Len(stdout)

\* With -w not a byte is read before there is a client; and once any client was
\* accepted the wait is over, though it may have been ditched at once.
WaitsForFirstClient ==
  /\ wait_for_client /\ received > 0 => Accepted # {}
  /\ pc = "run" /\ Accepted # {} => stdin_started

\* A tailer is freed in the middle of a round of callbacks, of the walk over the list
\* or of sending its tail: neither a pending callback nor the walk ever refers to
\* a tailer that is gone, and no tailer is in the list twice.
NoUseAfterFree ==
  /\ pc # "final" /\ ~Closed => pending \subseteq Active
  /\ pc \in {"broadcast", "size", "tail"} => tailer \in ToSet(tailers)
  /\ IsInjective(tailers)
  /\ ToSet(tailers) \cap ToSet(backlog) = {}

\* However the program ends (end of stdin, SIGINT, a lost stdout, out of memory, an
\* error of poll() or of the initialization), the socket file is removed and nobody is
\* left connected, or waiting to be.
EndsCleanly ==
  pc = "exited" => ~unix_sock /\ tailers = <<>> /\ backlog = <<>>

\* The readers are the clients, which join when they are accepted, and stdout, which is
\* there from the beginning.
R == INSTANCE Relay WITH
       Readers <- Clients \cup {"stdout"},
       input <- received,
       tail <- TailCut(received),
       start <- [r \in Clients \cup {"stdout"} |->
                   IF r = "stdout" THEN 0
                   ELSE IF joined[r] < 0 THEN -1 ELSE TailCut(joined[r])],
       output <- [r \in Clients \cup {"stdout"} |->
                    IF r = "stdout" THEN stdout
                    ELSE IF sent[r] = <<>> THEN <<>> ELSE Tail(sent[r])]

\* To each client and to stdout the server is a relay: a reader joins with the tail that
\* is on offer at that moment, and gets it and what follows in order.
RelaySpec == R!Spec

\* A part of what was being written went to c, and its socket took no more.
CutShort(c) == sent'[c] # sent[c] /\ unread'[c] = Capacity

\* tailer_write_blocking (sockets.c:102): without -d the function shall "block as
\* stdout_write_blocking does, i.e., forever", so that a client that is neither gone
\* nor done is not disconnected, be it as slow as it may; but for one thing:
\* safe_write_forever does not go on after a short write.
BlocksForever ==
  [][tailer_block_forever /\ pc # "final" =>
       \A c \in ToSet(tailers) :
         \/ c \in ToSet(tailers)' \/ client[c] = "gone" \/ spoke[c]
         \/ PartialWrites /\ CutShort(c)]_vars

\* The loop was told to end (or never began).
Over == broken \/ pc \in {"atexit", "exited"}


\* Whoever connects is taken care of: it is accepted and sent its size line and the
\* whole tail, or it is disconnected. Other clients cannot prevent it (if they read or
\* else are ditched), nor calls that fail; a stdout that nobody reads could.
ClientIsServed ==
  \A c \in Clients :
    c \in ToSet(backlog) ~>
      \/ c \notin ToSet(backlog) \cup ToSet(tailers)
      \/ c \in Accepted /\ Len(sent[c]) > joined[c] - TailCut(joined[c])

\* server_init (tailserver.c:171): SIGINT makes the program "exit gracefully", in whichever
\* callback it is raised and with any client stuck that is ditched or else reads; but not
\* before a write to stdout is over, for which Fairness has the reader of stdout.
InterruptEnds == interrupted ~> pc = "exited"
=================================================================================
