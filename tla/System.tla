--------------------------------- MODULE System ---------------------------------
(***************************************************************************)
(* A tailserver and a tailclient that connects to it: Server.tla and       *)
(* Client.tla over one connection.  me is the client of Server.tla that is *)
(* the program tailclient and not any process; what is a matter of choice  *)
(* in one module (what clients do, what servers send) is here what the     *)
(* other program does.                                                     *)
(*                                                                         *)
(* The two have a tail buffer each, with options of their own: the server  *)
(* keeps its last lines or bytes, and the client prints the last lines or  *)
(* bytes of those.                                                         *)
(***************************************************************************)
EXTENDS Server, SizeLine

CONSTANTS
  me,                  \* the tailclient
  Base,                \* of the digits of the size
  Follows, FileWaits,  \* the values of its -f and -w to consider
  ClientModes, ClientUnits, ClientReadSize, MaxClientFailures

ASSUME MeAssumption == me \in Clients

VARIABLES
  follow, reopen_file, wait_file_at_startup, client_count_lines, client_n_units,
  path_too_long, client_pc, client_status, client_unix_sock,
  server_buffer_size_known, server_buffer_size, server_buffer_size_remain,
  buffered, append, error, tail_output, client_broken, printed,
  client_interrupted, client_failures,
  conn,      \* the connection as the client sees it, see Connection
  connects,  \* how often the client has connected
  consumed   \* how much of its connection it has read

programVars ==
  <<follow, reopen_file, wait_file_at_startup, client_count_lines, client_n_units,
    path_too_long, client_pc, client_status, client_unix_sock, server_buffer_size_known, server_buffer_size,
    server_buffer_size_remain, buffered, append, error, tail_output, client_broken,
    printed, client_interrupted, client_failures, connects, consumed>>
---------------------------------------------------------------------------------
C == INSTANCE Client WITH
  Follows <- Follows, Reopens <- {FALSE}, Waits <- FileWaits, Modes <- ClientModes,
  Units <- ClientUnits, NewlineSets <- NewlineSets, Tails <- 0..MaxBytes, Base <- Base,
  Lengths <- {FALSE}, Sane <- {TRUE}, ReadSize <- ClientReadSize, MaxBytes <- MaxBytes,
  MaxFailures <- MaxClientFailures, MaxConns <- 1,
  count_lines <- client_count_lines, n_units <- client_n_units, newlines <- newlines,
  pc <- client_pc, status <- client_status, broken <- client_broken, stdout <- printed,
  interrupted <- client_interrupted, failures <- client_failures,
  accessible <- unix_sock, fed <- received, conns <- connects

\* The connection of Client.tla is what the server knows of me: until it has accepted me,
\* that nothing was sent; then the size line, of which sent[me] is one element, and the
\* bytes.
Connection ==
  LET closed == me \notin ToSet(backlog) \cup ToSet(tailers) IN
  IF joined[me] < 0
  THEN [C!NoConn EXCEPT !.closed = closed]
  ELSE LET size == joined[me] - TailCut(joined[me])
           digits == DigitsOf(Base, size)
       IN [digits |-> digits, ok |-> TRUE, size |-> size, cut |-> joined[me],
           sent |-> IF sent[me] = <<>> THEN 0 ELSE Len(digits) + Len(sent[me]),
           closed |-> closed]

ConnectedClient == client_unix_sock = "server"

\* What is left in the socket when the client has read up to some point of it: the
\* size line until its newline was read, and each byte by itself.
LeftUnread(read) ==
  IF read < C!HeaderLen THEN Len(sent[me]) ELSE conn.sent - read
---------------------------------------------------------------------------------
SystemInit == Init /\ C!Init

ServerSide == ServerStep /\ UNCHANGED programVars /\ conn' = Connection'

\* Who writes stdin and reads stdout, the user, and clients that are any process.
Others ==
  /\ ~Closed
  /\ \/ Supply \/ CloseInput \/ StdoutDrains \/ Interrupt
     \/ \E c \in Clients \ {me} :
          Connect(c) \/ Speak(c) \/ ClientReads(c) \/ ClientLeaves(c)
  /\ UNCHANGED <<programVars, conn>>

\* connect() succeeds: the client is in the backlog.
ClientConnects ==
  /\ Connect(me)
  /\ C!clientconn_connect
  /\ conn' = Connection' /\ connects' = connects + 1 /\ consumed' = 0

\* The client tells the server not to follow.
ClientSpeaks ==
  /\ IF conn.closed THEN ClientLeaves(me) ELSE Speak(me)
  /\ C!Ask

ServerRest == <<options, serving, tailers, control, pipes, stdout, interrupted, failures,
                backlog, joined, sent>>

\* read() has something.
ClientReadsOn ==
  /\ UNCHANGED <<ServerRest, client, spoke>>
  /\ C!ReadSizeLine \/ C!ReadTail \/ C!ReadFollow
  /\ unread' = [unread EXCEPT ![me] = LeftUnread(consumed')]

\* The steps that may end the connection, with a socket that is closed then.
ClientGoesOn ==
  /\ \/ ConnectedClient /\ ClientLeaves(me) /\ backlog' = backlog
     \/ UNCHANGED <<ServerRest, client, spoke, unread>>
  /\ \/ C!init_all \/ C!ConnectFails \/ C!Wake
     \/ C!ReadEnds \/ C!ReadIntoNull \/ C!Check \/ C!Retry
     \/ C!libev_error_handler \/ C!final_all \/ C!close_stdout
  /\ client' # client <=> ConnectedClient /\ client_unix_sock' = C!INVALID_SOCKET

ClientSide == ClientConnects \/ ClientSpeaks \/ ClientReadsOn \/ ClientGoesOn

\* SIGINT for the client.
ClientInterrupted ==
  /\ UNCHANGED <<ServerRest, client, spoke, unread>>
  /\ C!sigint_cb

SystemNext == ServerSide \/ Others \/ ClientSide \/ ClientInterrupted

SystemVars == <<vars, programVars, conn>>
SystemSpec == SystemInit /\ [][SystemNext]_SystemVars

\* Both programs run, no system call has to fail, and the stdout of each is read, for which
\* both wait (that of tailclient takes what it is given at once, see Client.tla). Nothing is
\* assumed of anybody else, not that clients read, and nothing more of the tailclient.
SystemFairSpec ==
  /\ SystemSpec
  /\ WF_SystemVars(ServerSide /\ failures' = failures)
  /\ WF_SystemVars(StdoutDrains /\ UNCHANGED <<programVars, conn>>)
  /\ WF_SystemVars(ClientSide /\ client_failures' = client_failures)
---------------------------------------------------------------------------------
\* The cut where the last units of the server's tail start that the client prints, for
\* a client that is accepted when n bytes have been read.
TailOfTail(n) ==
  LET cut == TailCut(n)
  IN  cut + TailStart(client_count_lines, client_n_units,
                      {p - cut : p \in {q \in newlines : cut < q /\ q <= n}}, n - cut)

Relayed == INSTANCE Relay WITH
  Readers <- {me}, input <- received, tail <- TailOfTail(received),
  start <- [r \in {me} |-> IF joined[me] < 0 THEN -1 ELSE TailOfTail(joined[me])],
  output <- [r \in {me} |-> printed]

\* From end to end the two programs are a relay too: what a tailclient prints is the
\* last units of the server's last units and then all that stdin of the server brings,
\* without gap or repetition, whatever units the two count and whichever pieces the
\* bytes come in.
PrintsTheStream == Relayed!Spec

\* A follower that is accepted prints whatever comes in from then on, unless the server
\* ends before it reads it (or, with -d, ditches the client). What the server has read
\* is not lost, though stdin may end or the server be interrupted right after that; and
\* the server needs no promise that clients read, for tailclient does.
FollowerKeepsUp ==
  \A k \in 1..MaxBytes :
    (/\ follow /\ tailer_block_forever /\ ConnectedClient
     /\ joined[me] >= 0 /\ supplied >= k /\ k > TailOfTail(joined[me]))
    ~> (k \in ToSet(printed) \/ client_interrupted \/ (Over /\ received < k))

\* A client that is not to follow ends, though stdin may go on. And without -d, once it has
\* told the server not to follow, it ends with the tail, unless the server ends before it
\* accepts it (or the user interrupts the client): also if it told so before it was
\* accepted or in the middle of the tail, or if the server ends right after. (If the server
\* hangs up before it is told, the tail is lost: TailGetsPrinted of Client.tla.)
TailIsGot ==
  /\ ~follow /\ ConnectedClient ~> client_pc = "exited"
  /\ ~follow /\ tailer_block_forever /\ ConnectedClient /\ client_pc = "loop" ~>
       /\ client_pc = "exited"
       /\ tail_output \/ client_interrupted \/ (Closed /\ joined[me] < 0)
=================================================================================
