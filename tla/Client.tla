--------------------------------- MODULE Client ---------------------------------
(***************************************************************************)
(* tailclient (src/tailclient.c, clientloop.c, clientconn.c,               *)
(* clientpipes.c, stdout.c, evsleep.c): connect to a tailserver, read the  *)
(* size of its tail and the tail into the client's own tail buffer, print  *)
(* the end of that, and then follow or be done.                            *)
(*                                                                         *)
(* What a server sends on a connection is a decimal size, a newline, that  *)
(* many bytes of tail and then the bytes that follow.  Bytes are named by  *)
(* their position in the server's input; the size is written in base Base  *)
(* (10 in the code), so that small tails have sizes of several digits.     *)
(* The tail buffer is abstract: it offers the last n_units lines or bytes  *)
(* it was given, as Buffer.tla shows it does.                              *)
(***************************************************************************)
EXTENDS Stream, SizeLine, Sequences, SequencesExt

CONSTANTS
  Follows,      \* the values of -f to consider
  Reopens,      \* the values of -F (which sets -f as well)
  Waits,        \* the values of -w
  Modes,        \* the values of count_lines
  Units,        \* the values of n_units
  NewlineSets,  \* where the server's input may have newlines
  Tails,        \* how much of its input the server keeps, in bytes
  Base,         \* of the digits of the size
  Lengths,      \* is the path too long for a sun_path?
  Sane,         \* {TRUE}: servers speak the protocol, {FALSE, TRUE}: or do not
  ReadSize,     \* BUFSIZ
  MaxBytes,     \* bound: bytes the server has to send
  MaxFailures,  \* bound: failed system calls
  MaxConns      \* bound: connections

ASSUME ClientSizesAssumption ==
  /\ Base \in Nat \ {0, 1} /\ {ReadSize, MaxBytes} \subseteq Nat \ {0}
  /\ {MaxFailures, MaxConns} \subseteq Nat
ASSUME ClientOptionsAssumption ==
  /\ Follows \cup Reopens \cup Waits \cup Modes \cup Lengths \cup Sane \subseteq BOOLEAN
  /\ Units \cup Tails \cup UNION NewlineSets \subseteq Nat

VARIABLES
  follow, reopen_file, wait_file_at_startup, count_lines, n_units,  \* options
  path_too_long, newlines,  \* (and what the socket file and the input are like)
  pc, status,              \* of exit, so far
  client_unix_sock,        \* "server", INVALID_SOCKET, or "stdin", see below
  server_buffer_size_known, server_buffer_size, server_buffer_size_remain,
  buffered,                \* the bytes appended to the tail buffer
  append,                  \* it has a chunk to read into (FALSE: NULL)
  error,                   \* of the callback that is running
  tail_output, broken,
  stdout,                  \* the bytes written
  interrupted,             \* history: sigint_cb has run
  failures,                \* failed system calls so far
  accessible,              \* environment: a server listens on the socket file
  fed,                     \*   bytes of its input so far
  conn, conns,             \*   the current connection; connections so far
  consumed                 \*   how much of it has been read

options == <<follow, reopen_file, wait_file_at_startup, count_lines, n_units,
             path_too_long, newlines>>
parser  == <<server_buffer_size_known, server_buffer_size, server_buffer_size_remain>>
tailbuf == <<buffered, append>>
output  == <<tail_output, broken, stdout>>
ending  == <<status, interrupted>>
world   == <<accessible, fed, conn, conns>>
vars    == <<options, pc, client_unix_sock, parser, tailbuf, error, output, ending,
             failures, world, consumed>>

INVALID_SOCKET == "invalid"

\* Connection: the digits and the terminator of the size line, how long the tail is and
\* where it ends, how much has been sent, and whether the server has closed it.
NoConn == [digits |-> <<>>, ok |-> TRUE, size |-> 0, cut |-> 0, sent |-> 0,
           closed |-> TRUE]

HeaderLen == Len(conn.digits) + 1
\* The bytes that are the elements lo+1..hi of the connection.
Bytes(lo, hi) == [i \in 1..(hi - lo) |-> conn.cut - conn.size + lo + i - HeaderLen]
\* Mutant: the offset into the first chunk is forgotten.
LastUnits_NoOffset(s) == s

\* The last n_units of a sequence of bytes.
LastUnits(s) ==
  LET cut == TailStart(count_lines, n_units, {i \in DOMAIN s : s[i] \in newlines}, Len(s))
  IN  SubSeq(s, cut + 1, Len(s))
Least(a, b) == IF a < b THEN a ELSE b
Available == conn.sent - consumed
---------------------------------------------------------------------------------
Init ==
  /\ \E f \in Follows, r \in Reopens : follow = (f \/ r) /\ reopen_file = r
  /\ wait_file_at_startup \in Waits /\ path_too_long \in Lengths
  /\ count_lines \in Modes /\ n_units \in Units /\ newlines \in NewlineSets
  /\ pc = "init" /\ client_unix_sock = INVALID_SOCKET
  /\ status = 0 /\ interrupted = FALSE
  /\ server_buffer_size_known = FALSE
  /\ server_buffer_size = 0 /\ server_buffer_size_remain = 0
  /\ buffered = <<>> /\ append = TRUE /\ error = FALSE
  /\ tail_output = FALSE /\ broken = FALSE /\ stdout = <<>>
  /\ failures = 0
  /\ accessible \in BOOLEAN /\ fed = 0 /\ conn = NoConn /\ conns = 0 /\ consumed = 0

Fails == failures < MaxFailures /\ failures' = failures + 1

\* init_all: buffer_init may be out of memory.
init_all ==
  /\ pc = "init"
  /\ \/ pc' = "connect" /\ UNCHANGED <<status, failures>>
     \/ Fails /\ pc' = "atexit" /\ status' = 1
  /\ UNCHANGED <<options, client_unix_sock, parser, tailbuf, error, output, interrupted,
                 world, consumed>>

---------------------------------------------------------------------------------
(***************************************************************************)
(* clientconn_connect, in clientloop_run.                                  *)
(***************************************************************************)
Connected == IF follow THEN pc' = "loop" ELSE pc' = "ask"

\* Mutant: the size of the last connection's tail is kept.
ResetParser_KeepsSize ==
  /\ server_buffer_size_known' = FALSE
  /\ server_buffer_size_remain' = 0 /\ UNCHANGED server_buffer_size

ResetParser ==
  /\ server_buffer_size_known' = FALSE
  /\ server_buffer_size' = 0 /\ server_buffer_size_remain' = 0

\* try_open_unix_socket succeeds.
clientconn_connect ==
  /\ pc = "connect" /\ ~path_too_long
  /\ client_unix_sock' = "server"
  /\ ResetParser
  /\ Connected
  /\ UNCHANGED <<options, tailbuf, error, output, ending, failures>>

\* A server has accepted, or will, with its tail ready.
Connect ==
  /\ accessible /\ conns < MaxConns
  /\ clientconn_connect
  /\ \E max \in Tails, ok \in Sane :
       LET size == Least(fed, max) IN
       conn' = [digits |-> DigitsOf(Base, size), ok |-> ok, size |-> size, cut |-> fed,
                sent |-> 0, closed |-> FALSE]
  /\ conns' = conns + 1 /\ consumed' = 0
  /\ UNCHANGED <<accessible, fed>>

\* For a path that is too long try_open_unix_socket returns false, which is the file
\* descriptor of stdin and not INVALID_SOCKET. (What is read from there is left out.)
ConnectTooLong ==
  /\ pc = "connect" /\ path_too_long
  /\ client_unix_sock' = "stdin"
  /\ ResetParser
  /\ Connected
  /\ UNCHANGED <<options, tailbuf, error, output, ending, failures, world, consumed>>

\* connect() fails: sleep and try again if it is worth while, otherwise give up.
ConnectFails ==
  /\ pc = "connect" /\ ~path_too_long
  /\ \/ /\ ~accessible \/ conns = MaxConns
        /\ pc' = IF wait_file_at_startup \/ reopen_file THEN "nap" ELSE "final"
        /\ UNCHANGED failures
     \/ Fails /\ pc' = "final"
  /\ ResetParser
  /\ UNCHANGED <<options, client_unix_sock, tailbuf, error, output, ending, world, consumed>>

\* Mutant: the timer is not started.
Wake_Never == pc = "nap" /\ UNCHANGED vars

\* evsleep
Wake ==
  /\ pc = "nap" /\ pc' = "connect"
  /\ UNCHANGED <<options, client_unix_sock, parser, tailbuf, error, output, ending, failures,
                 world, consumed>>

\* Without -f the server is told so, by any byte; if the server is gone the program
\* ends.
Ask ==
  /\ pc = "ask" /\ client_unix_sock = "server"
  /\ IF conn.closed THEN pc' = "final" /\ client_unix_sock' = INVALID_SOCKET
                    ELSE pc' = "loop" /\ UNCHANGED client_unix_sock
  /\ UNCHANGED <<options, parser, tailbuf, error, output, ending, failures, world, consumed>>

---------------------------------------------------------------------------------
(***************************************************************************)
(* unix_sock_readable_cb                                                   *)
(***************************************************************************)
\* Mutant: a size that is not known yet counts as zero.
clientconn_is_all_server_buffer_read_Unknown == server_buffer_size_remain = 0

clientconn_is_all_server_buffer_read ==
  server_buffer_size_known /\ server_buffer_size_remain = 0

Reading == pc = "loop" /\ client_unix_sock = "server"

\* buffer_set_appended, which may fail to allocate the next chunk.
BufferAppend(bytes) ==
  /\ append \/ bytes = <<>>
  /\ buffered' = buffered \o bytes
  /\ \/ UNCHANGED <<append, error, failures>>
     \/ bytes # <<>> /\ Fails /\ append' = FALSE /\ error' = TRUE

\* Mutants: off by one.
SafeToRead_TooMuch == server_buffer_size + 2
SafeToRead_TooLittle == server_buffer_size

\* With the size known up to some digit, this many bytes are there for sure before what
\* follows the tail: the newline and as many bytes as the size says so far.
SafeToRead == server_buffer_size + 1

\* clientconn_read_server_buffer while the size is not known ...
ReadSizeLine ==
  /\ Reading /\ ~server_buffer_size_known
  /\ \E n \in 1..Least(Least(SafeToRead, ReadSize), Available) :
       LET digits == SubSeq(conn.digits, consumed + 1,
                            Least(consumed + n, Len(conn.digits)))
           value == ReadDigits(Base, server_buffer_size, digits)
           rest == Bytes(HeaderLen, consumed + n)
       IN /\ consumed' = consumed + n
          /\ server_buffer_size' = value
          /\ \/ /\ consumed + n < HeaderLen
                /\ pc' = "check"
                /\ UNCHANGED <<client_unix_sock, server_buffer_size_known,
                               server_buffer_size_remain, tailbuf, error, failures>>
             \/ /\ consumed + n >= HeaderLen /\ conn.ok
                /\ server_buffer_size_known' = TRUE
                /\ server_buffer_size_remain' =
                     IF value >= Len(rest) THEN value - Len(rest) ELSE 0
                /\ \/ BufferAppend(rest) /\ pc' = "check"
                   \/ ~append /\ rest # <<>> /\ pc' = "crashed"  \* memcpy to NULL
                      /\ UNCHANGED <<tailbuf, error, failures>>
                /\ UNCHANGED client_unix_sock
             \/ /\ consumed + n >= HeaderLen /\ ~conn.ok  \* on_parse_error
                /\ client_unix_sock' = INVALID_SOCKET /\ pc' = "check"
                /\ UNCHANGED <<server_buffer_size_known, server_buffer_size_remain,
                               tailbuf, error, failures>>
  /\ UNCHANGED <<options, output, ending, world>>

\* Mutant: what remains of the tail is no limit.
ReadTail_Unlimited ==
  /\ Reading
  /\ server_buffer_size_known /\ server_buffer_size_remain > 0
  /\ \E n \in 1..Least(ReadSize, Available) :
       /\ consumed' = consumed + n
       /\ server_buffer_size_remain' = server_buffer_size_remain - n
       /\ BufferAppend(Bytes(consumed, consumed + n))
  /\ pc' = "check"
  /\ UNCHANGED <<options, client_unix_sock, server_buffer_size_known,
                 server_buffer_size, output, ending, world>>

\* ... and when it is known.
ReadTail ==
  /\ Reading
  /\ server_buffer_size_known /\ server_buffer_size_remain > 0
  /\ \E n \in 1..Least(Least(server_buffer_size_remain, ReadSize), Available) :
       /\ consumed' = consumed + n
       /\ server_buffer_size_remain' = server_buffer_size_remain - n
       /\ BufferAppend(Bytes(consumed, consumed + n))
  /\ pc' = "check"
  /\ UNCHANGED <<options, client_unix_sock, server_buffer_size_known,
                 server_buffer_size, output, ending, world>>

\* clientpipes_write_blocking: all is written, or a part and stdout counts as broken. (How
\* long it waits for room is left out: the reader of stdout goes on reading.)
ClientWrite(bytes) ==
  \/ stdout' = stdout \o bytes /\ UNCHANGED <<broken, error, failures>>
  \/ /\ bytes # <<>> /\ Fails
     /\ \E n \in 0..(Len(bytes) - 1) : stdout' = stdout \o SubSeq(bytes, 1, n)
     /\ broken' = TRUE /\ error' = TRUE

\* clientconn_read_server_follow, and its output.
ReadFollow ==
  /\ Reading /\ clientconn_is_all_server_buffer_read
  /\ \E n \in 1..Least(ReadSize, Available) :
       /\ consumed' = consumed + n
       /\ ClientWrite(Bytes(consumed, consumed + n))
  /\ pc' = "check"
  /\ UNCHANGED <<options, client_unix_sock, parser, tailbuf, tail_output, ending, world>>

\* read() says the connection has ended, or fails. While the size is not known,
\* server_buffer_size_remain is then computed from an uninitialized tail_data_res
\* (line 231); it is set anew when the size is.
ReadEnds ==
  /\ Reading
  /\ \/ /\ Available = 0 /\ conn.closed
        /\ client_unix_sock' = INVALID_SOCKET
        /\ UNCHANGED <<error, failures>>
     \/ Fails /\ error' = TRUE /\ UNCHANGED client_unix_sock
     \/ Fails /\ UNCHANGED <<error, client_unix_sock>>  \* EINTR
  /\ IF server_buffer_size_known THEN UNCHANGED server_buffer_size_remain
                                 ELSE server_buffer_size_remain' \in 0..1
  /\ pc' = "check"
  /\ UNCHANGED <<options, server_buffer_size_known, server_buffer_size, tailbuf, output,
                 ending, world, consumed>>

\* append is NULL, buffer_end() is no place to read to: EFAULT.
ReadIntoNull ==
  /\ Reading /\ ~append /\ Available > 0
  /\ server_buffer_size_known /\ server_buffer_size_remain > 0
  /\ error' = TRUE /\ pc' = "check"
  /\ UNCHANGED <<options, client_unix_sock, parser, tailbuf, output, ending, failures, world,
                 consumed>>

\* Mutant: it is up to the server to disconnect.
TailIsEnough_Never == FALSE

TailIsEnough == clientconn_is_all_server_buffer_read /\ ~follow

\* The rest of the callback: print the tail once it is all there, then follow or
\* disconnect; the loop ends when the connection has, or on an error.
Check ==
  /\ pc = "check"
  /\ \/ /\ clientconn_is_all_server_buffer_read /\ ~tail_output
        /\ tail_output' = TRUE
        /\ ClientWrite(LastUnits(buffered))
     \/ /\ ~clientconn_is_all_server_buffer_read \/ tail_output
        /\ UNCHANGED <<output, error, failures>>
  /\ client_unix_sock' = IF TailIsEnough THEN INVALID_SOCKET ELSE client_unix_sock
  /\ pc' = IF client_unix_sock' = INVALID_SOCKET \/ error' THEN "retry" ELSE "loop"
  /\ UNCHANGED <<options, parser, tailbuf, ending, world, consumed>>

---------------------------------------------------------------------------------
\* Mutant: each connection prints its tail.
Retry_PrintsAgain ==
  /\ pc = "retry"
  /\ client_unix_sock' = INVALID_SOCKET
  /\ error' = FALSE /\ tail_output' = FALSE
  /\ pc' = IF reopen_file /\ follow /\ ~broken THEN "nap" ELSE "final"
  /\ UNCHANGED <<options, parser, tailbuf, broken, stdout, ending, failures, world,
                 consumed>>

\* clientloop_run after ev_run: only -F tries again, unless stdout is broken.
Retry ==
  /\ pc = "retry"
  /\ client_unix_sock' = INVALID_SOCKET
  /\ error' = FALSE
  /\ pc' = IF reopen_file /\ follow /\ ~broken THEN "nap" ELSE "final"
  /\ UNCHANGED <<options, parser, tailbuf, output, ending, failures, world, consumed>>

(***************************************************************************)
(* The ends of the program, of which two come out of whichever loop runs.  *)
(***************************************************************************)
sigint_cb ==
  /\ pc \in {"loop", "nap"}
  /\ pc' = "final" /\ interrupted' = TRUE
  /\ UNCHANGED <<options, client_unix_sock, parser, tailbuf, error, output, status,
                 failures, world, consumed>>

\* poll() fails.
libev_error_handler ==
  /\ pc \in {"loop", "nap"}
  /\ Fails
  /\ pc' = "final" /\ status' = 1
  /\ UNCHANGED <<options, client_unix_sock, parser, tailbuf, error, output, interrupted,
                 world, consumed>>

\* Disconnect, and close stdin; when that fails error() exits.
final_all ==
  /\ pc = "final"
  /\ client_unix_sock' = INVALID_SOCKET
  /\ \/ UNCHANGED <<status, failures>>
     \/ Fails /\ status' = 1
  /\ pc' = "atexit"
  /\ UNCHANGED <<options, parser, tailbuf, error, output, interrupted, world, consumed>>

\* exit() calls close_stdout, which has nothing left to write.
close_stdout ==
  /\ pc = "atexit"
  /\ \/ UNCHANGED <<status, failures>>
     \/ Fails /\ status' = 1
  /\ pc' = "exited"
  /\ UNCHANGED <<options, client_unix_sock, parser, tailbuf, error, output, interrupted,
                 world, consumed>>

---------------------------------------------------------------------------------
(***************************************************************************)
(* The server, and its socket file.                                        *)
(***************************************************************************)
Running == pc \notin {"init", "atexit", "exited", "crashed"}

Feed ==
  /\ Running /\ fed < MaxBytes
  /\ fed' = fed + 1
  /\ UNCHANGED <<options, pc, client_unix_sock, parser, tailbuf, error, output, ending, failures,
                 accessible, conn, conns, consumed>>

\* The next element of the connection: of the size line, the tail or what follows.
Send ==
  /\ client_unix_sock = "server" /\ ~conn.closed
  /\ conn.sent < HeaderLen + conn.size + (fed - conn.cut)
  /\ conn' = [conn EXCEPT !.sent = @ + 1]
  /\ UNCHANGED <<options, pc, client_unix_sock, parser, tailbuf, error, output, ending, failures,
                 accessible, fed, conns, consumed>>

\* The server was asked not to follow, has ditched the client, or has ended.
Hangup ==
  /\ client_unix_sock = "server" /\ ~conn.closed
  /\ conn' = [conn EXCEPT !.closed = TRUE]
  /\ UNCHANGED <<options, pc, client_unix_sock, parser, tailbuf, error, output, ending, failures,
                 accessible, fed, conns, consumed>>

FileChanges ==
  /\ Running
  /\ accessible' = ~accessible
  /\ UNCHANGED <<options, pc, client_unix_sock, parser, tailbuf, error, output, ending, failures,
                 fed, conn, conns, consumed>>

ClientStep ==
  \/ init_all \/ Connect \/ ConnectTooLong \/ ConnectFails \/ Wake \/ Ask
  \/ ReadSizeLine \/ ReadTail \/ ReadFollow \/ ReadEnds \/ ReadIntoNull
  \/ Check \/ Retry \/ libev_error_handler \/ final_all \/ close_stdout

Next == ClientStep \/ sigint_cb \/ Feed \/ Send \/ Hangup \/ FileChanges

Spec == Init /\ [][Next]_vars

\* The client runs, no system call has to fail, and its stdout is read, for it waits for
\* that; what the server has for a connection arrives.
FairSpec == Spec /\ WF_vars(ClientStep /\ failures' = failures) /\ WF_vars(Send)
---------------------------------------------------------------------------------
FlagTypes ==
  {follow, reopen_file, wait_file_at_startup, path_too_long, append, error,
   server_buffer_size_known, tail_output, broken, accessible, count_lines,
   interrupted} \subseteq BOOLEAN
ControlTypes ==
  /\ n_units \in Units /\ newlines \in NewlineSets /\ status \in {0, 1}
  /\ pc \in {"init", "connect", "nap", "ask", "loop", "check", "retry", "final",
             "atexit", "exited", "crashed"}
  /\ client_unix_sock \in {"server", "stdin", INVALID_SOCKET}
DataTypes ==
  /\ server_buffer_size \in 0..MaxBytes /\ server_buffer_size_remain \in 0..MaxBytes
  /\ buffered \in Seq(1..MaxBytes) /\ stdout \in Seq(1..MaxBytes)
WorldTypes ==
  /\ failures \in 0..MaxFailures /\ conns \in 0..MaxConns
  /\ fed \in 0..MaxBytes /\ conn.cut \in 0..fed /\ conn.size \in 0..conn.cut
  /\ consumed \in 0..conn.sent

\* Type invariant.
TypeOK == FlagTypes /\ ControlTypes /\ DataTypes /\ WorldTypes

\* The size line is read with as few read()s as its value so far allows, tail bytes and
\* all. It never takes a byte that follows the tail into the tail buffer, whichever
\* pieces the connection arrives in; and what remains of the tail is known exactly.
SizeLineNeverOverruns ==
  client_unix_sock = "server" /\ conn.ok /\ pc # "crashed" =>
    /\ server_buffer_size_known <=> consumed >= HeaderLen
    /\ ~clientconn_is_all_server_buffer_read => consumed < HeaderLen + conn.size
    /\ \A b \in ToSet(buffered) : b <= conn.cut
    /\ server_buffer_size_known =>
         /\ server_buffer_size = conn.size
         /\ server_buffer_size_remain =
              IF consumed > HeaderLen + conn.size THEN 0
                                                  ELSE HeaderLen + conn.size - consumed

\* The end of the tail that the connection offers.
OfferedTail == LastUnits(Bytes(HeaderLen, HeaderLen + conn.size))

AllOfTailRead == conns > 0 /\ conn.ok /\ consumed >= HeaderLen + conn.size

\* On its one connection (without -F) the client prints the last n_units of the tail
\* and then what follows: all that it has read, each byte once and in order; less only
\* if stdout breaks, and nothing before it has the whole tail.
PrintsWhatItReads ==
  ~reopen_file /\ ~path_too_long /\ pc \notin {"check", "crashed"} =>
    LET wanted == OfferedTail \o Bytes(HeaderLen + conn.size, consumed) IN
    IF AllOfTailRead THEN IF broken THEN IsPrefix(stdout, wanted) ELSE stdout = wanted
                     ELSE stdout = <<>>

\* With -F, over all its connections, what the client adds to what it has printed is
\* newer than all that went before.
FollowMovesForward ==
  [][stdout # <<>> =>
       \A i \in DOMAIN stdout' \ DOMAIN stdout : i > 1 => stdout'[i - 1] < stdout'[i]]_vars

\* A client that follows prints the tail that arrives, though the server may hang up
\* right after it.
FollowerGetsTail ==
  follow /\ client_unix_sock = "server" /\ conn.ok /\ conn.sent >= HeaderLen + conn.size ~>
    tail_output \/ interrupted \/ failures > 0

\* And so does one that does not follow: "Output the last %u lines offered by tailserver"
\* (tailclient.c:89).
TailGetsPrinted ==
  client_unix_sock = "server" /\ conn.ok /\ conn.sent >= HeaderLen + conn.size ~>
    tail_output \/ interrupted \/ failures > 0

\* A client that is not to follow ends once it has the tail, whatever the server does.
EndsWithoutFollow ==
  ~follow /\ client_unix_sock = "server" /\ conn.sent >= HeaderLen + conn.size ~>
    pc = "exited"

\* With -F (or -w, for the first time) the client gets to a socket file that becomes
\* accessible, unless it was not to try again.
Reconnects ==
  <>[]accessible =>
    (pc = "nap" /\ conns < MaxConns ~>
       client_unix_sock = "server" \/ pc = "exited")

\* "Output the last %u lines offered by tailserver" (tailclient.c:89), with -F as well:
\* the tail that is printed is the end of what the current connection offered.
PrintsOfferedTail ==
  [][tail_output' /\ ~tail_output /\ ~broken' => stdout' = OfferedTail]_vars
=================================================================================
