------------------------------ MODULE ServerProofs ------------------------------
(***************************************************************************)
(* Theorems about Server.tla, for every set of clients, every stream and   *)
(* every size of reads and sockets.                                        *)
(***************************************************************************)
EXTENDS Server, ListProofs, StreamProofs

---------------------------------------------------------------------------------
(***************************************************************************)
(* The inductive invariant, in parts.                                      *)
(***************************************************************************)
\* A client is in one list at most, once at most, and in that of the tailers from
\* when it was accepted.
Lists ==
  /\ IsInjective(tailers) /\ IsInjective(backlog)
  /\ ToSet(tailers) \cap ToSet(backlog) = {}
  /\ \A c \in ToSet(tailers) : joined[c] >= 0
  /\ \A c \in ToSet(backlog) : joined[c] = -1 /\ client[c] # "away"
  /\ \A c \in Clients : client[c] = "away" => joined[c] = -1

\* What is known at the points of the program.
Phases ==
  /\ pc # "final" /\ ~Closed => pending \subseteq Active
  /\ pc \in {"broadcast", "size", "tail"} => tailer \in ToSet(tailers)
  /\ pc \in {"size", "tail"} => tailer = tailers[1]
  /\ pc = "init" => pending = {} /\ received = 0 /\ \A c \in Clients : client[c] = "away"
  /\ pc = "init" \/ Closed => ~unix_sock /\ tailers = <<>> /\ backlog = <<>>
---------------------------------------------------------------------------------
(***************************************************************************)
(* Options, cuts and steps.                                                *)
(***************************************************************************)
LEMMA OptionsType ==
  ASSUME TypeOK
  PROVE  /\ count_lines \in BOOLEAN /\ n_units \in Nat /\ newlines \in SUBSET Nat
         /\ received \in Nat /\ supplied \in Nat
BY OptionsAssumption, SizesAssumption DEF TypeOK, FlagTypes, CountTypes

LEMMA TailCutType ==
  ASSUME TypeOK, NEW n \in Nat
  PROVE  TailCut(n) \in 0..n
BY OptionsType, TailStartAtType DEF TailCut

LEMMA TailCutGrows ==
  ASSUME TypeOK, NEW n \in Nat, NEW m \in Nat, n <= m
  PROVE  TailCut(n) <= TailCut(m)
BY OptionsType, TailStartAtGrows DEF TailCut

\* No step changes the options, and so a cut is the same after every step.
LEMMA OptionsStay ==
  ASSUME [Next]_vars
  PROVE  UNCHANGED options
<1>1. CASE ServerStep
  BY <1>1 DEF ServerStep, init_all, Poll, Leave, libev_error_handler, sigint_cb,
       stdin_cb_Read, stdin_cb_Break, stdin_cb_Again, tailer_readable_cb_Again,
       ReadsNothing, stdout_write_blocking_or_break, sockets_write_blocking,
       unix_sock_cb, unix_sock_cb_Accept, unix_sock_cb_Again, unix_sock_cb_Fail,
       SendSize, SendTail, tailer_readable_cb, sockets_final, pipes_final, close_stdout
<1>2. CASE Environment
  BY <1>2 DEF Environment, Supply, CloseInput, StdoutDrains, Interrupt, Connect, Speak,
       ClientReads, ClientLeaves
<1>3. CASE UNCHANGED vars
  BY <1>3 DEF vars
<1> QED BY <1>1, <1>2, <1>3 DEF Next

\* What others do while the server runs.
LEMMA EnvironmentStep ==
  ASSUME Environment
  PROVE  /\ ~Closed
         /\ UNCHANGED <<options, serving, tailers, control, stdout, sent, joined>>
         /\ failures' = failures
BY DEF Environment, Supply, CloseInput, StdoutDrains, Interrupt, Connect, Speak,
     ClientReads, ClientLeaves, conns, channel
---------------------------------------------------------------------------------
(***************************************************************************)
(* Writing to a client adds a part of the bytes to what it was sent, all   *)
(* of them with WriteAll, and less with WriteLess.                         *)
(***************************************************************************)
LEMMA Written ==
  ASSUME ChannelTypes, NEW c \in Clients, NEW bytes \in Seq(0..MaxBytes),
         WriteAll(c, bytes) \/ WriteLess(c, bytes)
  PROVE  \E n \in 0..Len(bytes) :
           /\ ChannelTypes'
           /\ \A d \in Clients \ {c} : sent'[d] = sent[d]
           /\ Len(sent'[c]) = Len(sent[c]) + n
           /\ \A i \in 1..Len(sent[c]) : sent'[c][i] = sent[c][i]
           /\ \A i \in 1..n : sent'[c][Len(sent[c]) + i] = bytes[i]
           /\ WriteAll(c, bytes) => n = Len(bytes)
           /\ WriteLess(c, bytes) /\ Len(bytes) = 1 => n = 0
<1>1. /\ Len(bytes) \in Nat /\ Capacity \in Nat /\ unread[c] \in 0..Capacity
      /\ sent[c] \in Seq(0..MaxBytes) /\ Len(sent[c]) \in Nat
  BY SizesAssumption, LenProperties DEF ChannelTypes
<1>2. ASSUME NEW n \in 0..Len(bytes), NEW u \in 0..Capacity,
             sent' = [sent EXCEPT ![c] = @ \o SubSeq(bytes, 1, n)],
             unread' = [unread EXCEPT ![c] = u]
      PROVE  /\ ChannelTypes'
             /\ \A d \in Clients \ {c} : sent'[d] = sent[d]
             /\ Len(sent'[c]) = Len(sent[c]) + n
             /\ \A i \in 1..Len(sent[c]) : sent'[c][i] = sent[c][i]
             /\ \A i \in 1..n : sent'[c][Len(sent[c]) + i] = bytes[i]
  <2> DEFINE part == SubSeq(bytes, 1, n)
  <2>1. /\ part \in Seq(0..MaxBytes) /\ Len(part) = n
        /\ \A i \in 1..n : part[i] = bytes[i]
    <3>1. \A i \in 1..n : i \in 1..Len(bytes)
      BY <1>1
    <3>2. \A i \in 1..n : bytes[i] \in 0..MaxBytes
      BY <3>1, ElementOfSeq
    <3> QED BY <1>1, <3>2, SubSeqProperties
  <2> HIDE DEF part
  <2>2. /\ sent[c] \o part \in Seq(0..MaxBytes)
        /\ Len(sent[c] \o part) = Len(sent[c]) + n
        /\ \A i \in 1..(Len(sent[c]) + n) :
             (sent[c] \o part)[i] = IF i <= Len(sent[c]) THEN sent[c][i]
                                                        ELSE part[i - Len(sent[c])]
    BY <1>1, <2>1, ConcatProperties, ZenonT(60)
  <2>3. sent'[c] = sent[c] \o part /\ \A d \in Clients \ {c} : sent'[d] = sent[d]
    BY <1>2 DEF ChannelTypes, part
  <2>4. ChannelTypes'
    BY <1>2, <2>2 DEF ChannelTypes, part
  <2>5. ASSUME NEW i \in 1..n PROVE sent'[c][Len(sent[c]) + i] = bytes[i]
    <3>1. /\ Len(sent[c]) + i \in 1..(Len(sent[c]) + n)
          /\ ~ (Len(sent[c]) + i <= Len(sent[c]))
          /\ (Len(sent[c]) + i) - Len(sent[c]) = i
      BY <1>1
    <3> QED BY <2>1, <2>2, <2>3, <3>1
  <2>6. ASSUME NEW i \in 1..Len(sent[c]) PROVE sent'[c][i] = sent[c][i]
    <3>1. i \in 1..(Len(sent[c]) + n)
      BY <1>1
    <3> QED BY <2>2, <2>3, <3>1
  <2> QED BY <2>2, <2>3, <2>4, <2>5, <2>6
<1>3. CASE WriteAll(c, bytes)
  <2>1. SubSeq(bytes, 1, Len(bytes)) = bytes
    BY SubSeqFull
  <2>2. unread[c] + Len(bytes) \in 0..Capacity
    BY <1>1, <1>3 DEF WriteAll, Room
  <2>3. /\ sent' = [sent EXCEPT ![c] = @ \o SubSeq(bytes, 1, Len(bytes))]
        /\ unread' = [unread EXCEPT ![c] = unread[c] + Len(bytes)]
    BY <1>3, <2>1 DEF WriteAll
  <2>4. ~ (WriteLess(c, bytes) /\ Len(bytes) = 1)
    <3>1. client[c] = "open" /\ Len(bytes) <= Room(c) /\ Room(c) \in Int
      BY <1>1, <1>3 DEF WriteAll, Room
    <3> SUFFICES ASSUME Len(bytes) = 1 PROVE ~ WriteLess(c, bytes)
      OBVIOUS
    <3>2. Room(c) # 0 /\ ~ (Len(bytes) > Room(c)) /\ Room(c) \notin 1..(Len(bytes) - 1)
      BY <3>1
    <3> QED BY <3>1, <3>2 DEF WriteLess
  <2>5. Len(bytes) \in 0..Len(bytes)
    BY <1>1
  <2> QED BY <1>2, <2>2, <2>3, <2>4, <2>5
<1>4. CASE WriteLess(c, bytes) /\ UNCHANGED channel
  <2>1. 0 \in 0..Len(bytes)
    BY <1>1
  <2>2. sent' = sent /\ unread' = unread
    BY <1>4 DEF channel
  <2>3. ChannelTypes'
    BY <2>2 DEF ChannelTypes
  <2>4. WriteAll(c, bytes) => 0 = Len(bytes)
    BY <1>1, <1>4 DEF WriteAll, WriteLess, Room
  <2>5. Len(sent'[c]) = Len(sent[c]) + 0
    BY <1>1, <2>2
  <2> QED BY <2>1, <2>2, <2>3, <2>4, <2>5
<1>5. CASE /\ client[c] = "open" /\ PartialWrites
           /\ Room(c) \in 1..(Len(bytes) - 1)
           /\ sent' = [sent EXCEPT ![c] = @ \o SubSeq(bytes, 1, Room(c))]
           /\ unread' = [unread EXCEPT ![c] = Capacity]
  <2>1. Room(c) \in 0..Len(bytes) /\ Len(bytes) >= 2 /\ Capacity \in 0..Capacity
    <3>1. Room(c) \in Int /\ 1 <= Room(c) /\ Room(c) <= Len(bytes) - 1
      BY <1>1, <1>5
    <3>2. Room(c) \in 0..Len(bytes)
      BY <1>1, <3>1
    <3>3. Len(bytes) >= 2
      BY <1>1, <3>1
    <3>4. Capacity \in 0..Capacity
      BY <1>1
    <3> QED BY <3>2, <3>3, <3>4
  <2>2. ~ WriteAll(c, bytes)
    BY <1>1, <1>5 DEF WriteAll
  <2>3. ASSUME Len(bytes) = 1 PROVE FALSE
    BY <2>1, <2>3
  <2> QED BY <1>2, <1>5, <2>1, <2>2, <2>3
<1> QED BY <1>3, <1>4, <1>5 DEF WriteLess
---------------------------------------------------------------------------------
(***************************************************************************)
(* The list of tailers.                                                    *)
(***************************************************************************)
LEMMA PlaceOfTailer ==
  ASSUME tailers \in Seq(Clients), NEW c \in ToSet(tailers)
  PROVE  Place(c) \in 1..Len(tailers) /\ tailers[Place(c)] = c
BY ThePlace DEF Place

\* tailer_final takes just the one tailer out.
LEMMA Unlinked ==
  ASSUME tailers \in Seq(Clients), IsInjective(tailers), NEW c \in ToSet(tailers),
         tailer_final(c)
  PROVE  /\ tailers' \in Seq(Clients) /\ Len(tailers') = Len(tailers) - 1
         /\ \A j \in 1..(Len(tailers) - 1) :
              tailers'[j] = IF j < Place(c) THEN tailers[j] ELSE tailers[j + 1]
         /\ IsInjective(tailers') /\ ToSet(tailers') = ToSet(tailers) \ {c}
         /\ pending' = pending \ {c}
<1>1. Place(c) \in 1..Len(tailers) /\ tailers[Place(c)] = c
  BY PlaceOfTailer
<1>2. tailers' = RemoveAt(tailers, Place(c)) /\ pending' = pending \ {c}
  BY DEF tailer_final
<1> QED BY <1>1, <1>2, RemoveAtProperties, RemoveAtInjective

\* The next tailer is another one.
LEMMA NextTailer ==
  ASSUME tailers \in Seq(Clients), IsInjective(tailers), NEW c \in ToSet(tailers)
  PROVE  IF Place(c) = Len(tailers)
         THEN next(c) = None
         ELSE /\ Place(c) + 1 \in 1..Len(tailers)
              /\ next(c) = tailers[Place(c) + 1]
              /\ next(c) \in ToSet(tailers) \ {c}
<1>1. Place(c) \in 1..Len(tailers) /\ tailers[Place(c)] = c
  BY PlaceOfTailer
<1>2. DOMAIN tailers = 1..Len(tailers) /\ Len(tailers) \in Nat
  BY LenProperties
<1>3. CASE Place(c) # Len(tailers)
  <2>1. Place(c) + 1 \in 1..Len(tailers) /\ Place(c) + 1 # Place(c)
    BY <1>1, <1>2, <1>3
  <2>2. tailers[Place(c) + 1] # c
    BY <1>1, <1>2, <2>1 DEF IsInjective
  <2> QED BY <1>2, <1>3, <2>1, <2>2 DEF next, ToSet
<1> QED BY <1>3 DEF next

LEMMA FirstTailerType ==
  ASSUME tailers \in Seq(Clients)
  PROVE  IF tailers = <<>> THEN FirstTailer = None
         ELSE 1 \in 1..Len(tailers) /\ FirstTailer = tailers[1]
              /\ FirstTailer \in ToSet(tailers)
<1>1. tailers # <<>> => Len(tailers) \in Nat \ {0}
  BY EmptySeq
<1>2. DOMAIN tailers = 1..Len(tailers)
  BY LenProperties
<1> QED BY <1>1, <1>2 DEF FirstTailer, ToSet
---------------------------------------------------------------------------------
(***************************************************************************)
(* Types.                                                                  *)
(***************************************************************************)
Structure == TypeOK /\ Lists /\ Phases

\* The parts that most steps leave alone.
LEMMA ClientsKeepTypes ==
  ASSUME TypeOK, UNCHANGED <<pipes, stdout, conns, channel, data>>,
         tailers' \in Seq(Clients)
  PROVE  ListTypes' /\ DataTypes' /\ ClientTypes' /\ ChannelTypes'
BY DEF TypeOK, ListTypes, DataTypes, ClientTypes, ChannelTypes, conns, channel

LEMMA TypesOfControlSteps ==
  ASSUME TypeOK,
         \/ init_all \/ Poll \/ Leave \/ libev_error_handler \/ sigint_cb
         \/ stdin_cb_Again \/ tailer_readable_cb_Again \/ unix_sock_cb
         \/ unix_sock_cb_Again \/ unix_sock_cb_Fail
         \/ sockets_final \/ pipes_final \/ close_stdout
  PROVE  FlagTypes' /\ CountTypes' /\ ControlTypes'
<1>1. FlagTypes'
  <2> USE DEF TypeOK, FlagTypes
  <2>1. CASE init_all
    <3>1. stdin_started' \in BOOLEAN
      BY <2>1, Zenon DEF init_all, pipes_init
    <3>2. unix_sock' \in BOOLEAN
      BY <2>1 DEF init_all
    <3> QED BY <2>1, <3>1, <3>2 DEF init_all, options, accepting, pipes
  <2>2. CASE \/ Poll \/ Leave \/ libev_error_handler \/ stdin_cb_Again
             \/ tailer_readable_cb_Again
    BY <2>2 DEF Poll, Leave, libev_error_handler, stdin_cb_Again,
         tailer_readable_cb_Again, ReadsNothing, options, serving, aside, accepting,
         pipes
  <2>3. CASE sigint_cb \/ unix_sock_cb
    BY <2>3 DEF sigint_cb, unix_sock_cb, options, serving, aside, accepting, pipes
  <2>4. CASE unix_sock_cb_Again \/ unix_sock_cb_Fail
    BY <2>4 DEF unix_sock_cb_Again, unix_sock_cb_Fail, options, serving, pipes
  <2>5. CASE sockets_final \/ pipes_final \/ close_stdout
    BY <2>5 DEF sockets_final, pipes_final, close_stdout, options, serving, aside,
         accepting, pipes
  <2> QED BY <2>1, <2>2, <2>3, <2>4, <2>5
<1>2. CountTypes'
  <2> USE SizesAssumption DEF TypeOK, CountTypes, Fails
  <2>1. CASE init_all
    BY <2>1 DEF init_all, options, accepting, pipes, writing
  <2>2. CASE \/ Poll \/ Leave \/ libev_error_handler \/ stdin_cb_Again
             \/ tailer_readable_cb_Again
    BY <2>2 DEF Poll, Leave, libev_error_handler, stdin_cb_Again,
         tailer_readable_cb_Again, ReadsNothing, options, serving, aside, accepting,
         pipes, writing
  <2>3. CASE sigint_cb \/ unix_sock_cb
    BY <2>3 DEF sigint_cb, unix_sock_cb, options, serving, aside, accepting, pipes, writing
  <2>4. CASE unix_sock_cb_Again \/ unix_sock_cb_Fail
    BY <2>4 DEF unix_sock_cb_Again, unix_sock_cb_Fail, options, serving, pipes, writing
  <2>5. CASE sockets_final \/ pipes_final \/ close_stdout
    BY <2>5 DEF sockets_final, pipes_final, close_stdout, options, serving, aside,
         accepting, pipes, writing
  <2> QED BY <2>1, <2>2, <2>3, <2>4, <2>5
<1>3. ControlTypes'
  <2> USE DEF TypeOK, ControlTypes
  <2>1. CASE init_all
    BY <2>1 DEF init_all, writing
  <2>2. CASE \/ Poll \/ Leave \/ libev_error_handler \/ stdin_cb_Again
             \/ tailer_readable_cb_Again
    BY <2>2 DEF Poll, Leave, libev_error_handler, stdin_cb_Again,
         tailer_readable_cb_Again, ReadsNothing, writing, Starts, Ready, Active,
         ListTypes, ToSet
  <2>3. CASE sigint_cb \/ unix_sock_cb
    BY <2>3 DEF sigint_cb, unix_sock_cb, writing, Starts
  <2>4. CASE unix_sock_cb_Again \/ unix_sock_cb_Fail
    BY <2>4 DEF unix_sock_cb_Again, unix_sock_cb_Fail, writing
  <2>5. CASE sockets_final \/ pipes_final \/ close_stdout
    BY <2>5 DEF sockets_final, pipes_final, close_stdout, writing
  <2> QED BY <2>1, <2>2, <2>3, <2>4, <2>5
<1> QED BY <1>1, <1>2, <1>3

\* The bytes that a read of stdin or the sending of the tail is about.
LEMMA BytesType ==
  ASSUME NEW lo \in Nat, NEW hi \in Nat, lo <= hi, hi <= MaxBytes
  PROVE  /\ Bytes(lo, hi) \in Seq(1..MaxBytes) /\ Bytes(lo, hi) \in Seq(0..MaxBytes)
         /\ Len(Bytes(lo, hi)) = hi - lo
         /\ \A i \in 1..(hi - lo) : Bytes(lo, hi)[i] = lo + i
<1>1. MaxBytes \in Nat
  BY SizesAssumption
<1>2. hi - lo \in Nat /\ \A i \in 1..(hi - lo) : lo + i \in 1..MaxBytes /\ lo + i \in 0..MaxBytes
  BY <1>1
<1> QED BY <1>2, Stretch DEF Bytes

\* A part of data is added to what is on stdout.
LEMMA StdoutWritten ==
  ASSUME DataTypes, NEW ok \in BOOLEAN, stdout_write_blocking(ok)
  PROVE  \E n \in 0..Len(data) :
           /\ stdout' \in Seq(1..MaxBytes) /\ Len(stdout') = Len(stdout) + n
           /\ \A i \in 1..Len(stdout) : stdout'[i] = stdout[i]
           /\ \A i \in 1..n : stdout'[Len(stdout) + i] = data[i]
           /\ ok => n = Len(data)
<1>1. /\ Len(data) \in Nat /\ Len(stdout) \in Nat
      /\ data \in Seq(1..MaxBytes) /\ stdout \in Seq(1..MaxBytes)
  BY LenProperties DEF DataTypes
<1>2. ASSUME NEW n \in 0..Len(data), stdout' = stdout \o SubSeq(data, 1, n)
      PROVE  /\ stdout' \in Seq(1..MaxBytes) /\ Len(stdout') = Len(stdout) + n
             /\ \A i \in 1..Len(stdout) : stdout'[i] = stdout[i]
             /\ \A i \in 1..n : stdout'[Len(stdout) + i] = data[i]
  <2> DEFINE part == SubSeq(data, 1, n)
  <2>1. /\ part \in Seq(1..MaxBytes) /\ Len(part) = n
        /\ \A i \in 1..n : part[i] = data[i]
    <3>1. \A i \in 1..n : i \in 1..Len(data)
      BY <1>1
    <3>2. \A i \in 1..n : data[i] \in 1..MaxBytes
      BY <1>1, <3>1, ElementOfSeq
    <3> QED BY <1>1, <3>2, SubSeqProperties
  <2> HIDE DEF part
  <2>2. /\ stdout \o part \in Seq(1..MaxBytes)
        /\ Len(stdout \o part) = Len(stdout) + n
        /\ \A i \in 1..(Len(stdout) + n) :
             (stdout \o part)[i] = IF i <= Len(stdout) THEN stdout[i]
                                                        ELSE part[i - Len(stdout)]
    BY <1>1, <2>1, ConcatProperties
  <2>3. stdout' = stdout \o part
    BY <1>2 DEF part
  <2>4. ASSUME NEW i \in 1..n PROVE stdout'[Len(stdout) + i] = data[i]
    <3>1. /\ Len(stdout) + i \in 1..(Len(stdout) + n)
          /\ ~ (Len(stdout) + i <= Len(stdout))
          /\ (Len(stdout) + i) - Len(stdout) = i
      BY <1>1
    <3> QED BY <2>1, <2>2, <2>3, <3>1
  <2>5. ASSUME NEW i \in 1..Len(stdout) PROVE stdout'[i] = stdout[i]
    <3>1. i \in 1..(Len(stdout) + n)
      BY <1>1
    <3> QED BY <2>2, <2>3, <3>1
  <2> QED BY <2>2, <2>3, <2>4, <2>5
<1>3. CASE ok
  <2>1. SubSeq(data, 1, Len(data)) = data /\ Len(data) \in 0..Len(data)
    BY <1>1, SubSeqFull
  <2>2. stdout' = stdout \o SubSeq(data, 1, Len(data))
    BY <1>3, <2>1 DEF stdout_write_blocking
  <2> QED BY <1>2, <2>1, <2>2
<1>4. CASE ~ok
  <2>1. PICK n \in 0..(Len(data) - 1) : stdout' = stdout \o SubSeq(data, 1, n)
    BY <1>4 DEF stdout_write_blocking
  <2>2. n \in 0..Len(data)
    BY <1>1
  <2> QED BY <1>2, <1>4, <2>1, <2>2
<1> QED BY <1>3, <1>4

LEMMA TypesOfReads ==
  ASSUME TypeOK, stdin_cb_Read \/ stdin_cb_Break
  PROVE  TypeOK'
<1>1. /\ received \in Nat /\ supplied \in Nat /\ supplied <= MaxBytes
      /\ received <= supplied /\ MaxBytes \in Nat /\ ReadSize \in Nat
  BY SizesAssumption DEF TypeOK, CountTypes
<1>2. CASE stdin_cb_Read
  <2>1. PICK n \in 1..ReadSize : /\ received + n <= supplied
                                 /\ received' = received + n
                                 /\ data' = Bytes(received, received + n)
    BY <1>2 DEF stdin_cb_Read
  <2>2. /\ received' \in Nat /\ received <= received' /\ received' <= supplied
        /\ received' <= MaxBytes
    BY <1>1, <2>1
  <2>3. data' \in Seq(1..MaxBytes)
    <3>1. data' = Bytes(received, received')
      BY <2>1
    <3> QED BY <1>1, <2>2, <3>1, BytesType
  <2>4. FlagTypes'
    BY <1>2 DEF TypeOK, FlagTypes, stdin_cb_Read, options, aside, accepting, pipes
  <2>5. CountTypes'
    BY <1>1, <1>2, <2>2
       DEF TypeOK, CountTypes, stdin_cb_Read, options, aside, accepting, pipes
  <2>6. ControlTypes'
    BY <1>2 DEF TypeOK, ControlTypes, stdin_cb_Read, Starts
  <2> QED BY <1>2, <2>3, <2>4, <2>5, <2>6
       DEF TypeOK, ListTypes, DataTypes, ClientTypes, ChannelTypes, stdin_cb_Read, conns,
           channel
<1>3. CASE stdin_cb_Break
  <2>1. received' \in 0..supplied /\ received <= received'
    BY <1>1, <1>3 DEF stdin_cb_Break
  <2>2. FlagTypes'
    <3>1. broken' \in BOOLEAN /\ out_of_memory' \in BOOLEAN
      BY <1>3 DEF TypeOK, FlagTypes, stdin_cb_Break
    <3>2. UNCHANGED <<options, waiting_for_client, stdin_started, unix_sock, accepting,
                      pipes, interrupted>>
      BY <1>3 DEF stdin_cb_Break
    <3> QED BY <3>1, <3>2 DEF TypeOK, FlagTypes, options, accepting, pipes
  <2>3. CountTypes'
    BY <1>1, <1>3, <2>1, SizesAssumption
       DEF TypeOK, CountTypes, stdin_cb_Break, Fails, options, accepting, pipes, writing
  <2>4. ControlTypes'
    BY <1>3 DEF TypeOK, ControlTypes, stdin_cb_Break, Starts, writing
  <2> QED BY <1>3, <2>2, <2>3, <2>4, ClientsKeepTypes
       DEF TypeOK, ListTypes, stdin_cb_Break, writing
<1> QED BY <1>2, <1>3

LEMMA TypesOfBroadcast ==
  ASSUME Structure, stdout_write_blocking_or_break \/ sockets_write_blocking
  PROVE  TypeOK'
<1>1. CASE stdout_write_blocking_or_break
  <2>1. FlagTypes'
    <3>1. stdout_full' \in BOOLEAN /\ eof' = eof
      BY <1>1 DEF stdout_write_blocking_or_break, stdout_write_blocking
    <3> QED BY <1>1, <3>1, SMTT(40) DEF Structure, TypeOK, FlagTypes,
              stdout_write_blocking_or_break, options, aside, accepting
  <2>2. CountTypes'
    BY <1>1, SizesAssumption
       DEF Structure, TypeOK, CountTypes, stdout_write_blocking_or_break,
           stdout_write_blocking, Fails, options, aside, accepting, pipes
  <2>3. ControlTypes'
    <3>1. FirstTailer \in Clients \cup {None}
      BY FirstTailerType, Elements DEF Structure, TypeOK, ListTypes
    <3> QED BY <1>1, <3>1 DEF Structure, TypeOK, ControlTypes,
              stdout_write_blocking_or_break, Broadcast
  <2>4. stdout' \in Seq(1..MaxBytes)
    BY <1>1, StdoutWritten DEF Structure, TypeOK, stdout_write_blocking_or_break
  <2>5. data' \in Seq(1..MaxBytes)
    BY <1>1, EmptySeq DEF Structure, TypeOK, DataTypes, stdout_write_blocking_or_break,
         Broadcast
  <2> QED BY <1>1, <2>1, <2>2, <2>3, <2>4, <2>5
       DEF Structure, TypeOK, ListTypes, DataTypes, ClientTypes, ChannelTypes,
           stdout_write_blocking_or_break, conns, channel
<1>2. CASE sockets_write_blocking
  <2>1. /\ tailers \in Seq(Clients) /\ IsInjective(tailers) /\ tailer \in ToSet(tailers)
        /\ tailer \in Clients
    BY <1>2, Elements
       DEF sockets_write_blocking, Structure, TypeOK, ListTypes, Lists, Phases
  <2>2. FlagTypes'
    BY <1>2 DEF Structure, TypeOK, FlagTypes, sockets_write_blocking, options, serving,
         aside, accepting, pipes
  <2>3. CountTypes'
    BY <1>2 DEF Structure, TypeOK, CountTypes, sockets_write_blocking, options, serving,
         aside, accepting, pipes
  <2>4. ControlTypes'
    <3>1. next(tailer) \in Clients \cup {None}
      BY <2>1, NextTailer, Elements
    <3> QED BY <1>2, <3>1 DEF Structure, TypeOK, ControlTypes, sockets_write_blocking,
              Broadcast, tailer_final
  <2>5. tailers' \in Seq(Clients)
    BY <1>2, <2>1, Unlinked DEF sockets_write_blocking
  <2>6. ChannelTypes'
    <3>1. data \in Seq(0..MaxBytes)
      BY SizesAssumption, SeqMonotonic DEF Structure, TypeOK, DataTypes
    <3> QED BY <1>2, <2>1, <3>1, Written DEF Structure, TypeOK, sockets_write_blocking
  <2>7. DataTypes'
    BY <1>2, EmptySeq DEF Structure, TypeOK, DataTypes, sockets_write_blocking, Broadcast
  <2> QED BY <1>2, <2>2, <2>3, <2>4, <2>5, <2>6, <2>7
       DEF Structure, TypeOK, ListTypes, ClientTypes, sockets_write_blocking, conns
<1> QED BY <1>1, <1>2

\* What SendSize and SendTail do when all of bytes was written, or not.
LEMMA SendingType ==
  ASSUME Structure, pc \in {"size", "tail"}
  PROVE  /\ tailers \in Seq(Clients) /\ IsInjective(tailers) /\ tailer \in ToSet(tailers)
         /\ tailer \in Clients /\ received \in Nat /\ received <= MaxBytes
         /\ TailCut(received) \in 0..received
         /\ <<received - TailCut(received)>> \in Seq(0..MaxBytes)
         /\ Len(<<received - TailCut(received)>>) = 1
<1>1. /\ tailers \in Seq(Clients) /\ IsInjective(tailers) /\ tailer \in ToSet(tailers)
      /\ tailer \in Clients
  BY Elements DEF Structure, TypeOK, ListTypes, Lists, Phases
<1>2. received \in Nat /\ received <= MaxBytes /\ MaxBytes \in Nat
  BY SizesAssumption DEF Structure, TypeOK, CountTypes
<1>3. TailCut(received) \in 0..received
  BY <1>2, TailCutType DEF Structure
<1>4. received - TailCut(received) \in 0..MaxBytes
  BY <1>2, <1>3
<1> QED BY <1>1, <1>2, <1>3, <1>4

LEMMA TypesOfSends ==
  ASSUME Structure, SendSize \/ SendTail
  PROVE  TypeOK'
<1>1. pc \in {"size", "tail"} /\ UNCHANGED <<options, aside, pipes, stdout, conns>>
  BY DEF SendSize, SendTail
<1>2. /\ tailers \in Seq(Clients) /\ IsInjective(tailers) /\ tailer \in ToSet(tailers)
      /\ tailer \in Clients /\ received \in Nat /\ received <= MaxBytes
      /\ TailCut(received) \in 0..received
      /\ <<received - TailCut(received)>> \in Seq(0..MaxBytes)
  BY <1>1, SendingType
<1>3. UNCHANGED <<unix_sock, received, broken, data, failures, interrupted>>
  BY DEF SendSize, SendTail, SendsLess, pipes_on_new_client, serving
<1>4. waiting_for_client' \in BOOLEAN /\ stdin_started' \in BOOLEAN
  BY DEF SendSize, SendTail, SendsLess, pipes_on_new_client, serving, Structure, TypeOK,
         FlagTypes
<1>5. FlagTypes'
  BY <1>1, <1>3, <1>4 DEF Structure, TypeOK, FlagTypes, options, aside, accepting, pipes
<1>6. pos' \in 0..received
  <2>1. pos \in 0..received
    BY DEF Structure, TypeOK, CountTypes
  <2>2. CASE SendSize
    BY <1>2, <2>1, <2>2 DEF SendSize, SendsLess, pipes_on_new_client
  <2>3. CASE SendTail
    BY <1>2, <2>1, <2>3, SizesAssumption DEF SendTail, SendsLess, pipes_on_new_client
  <2> QED BY <2>2, <2>3
<1>7. CountTypes'
  BY <1>1, <1>3, <1>6
     DEF Structure, TypeOK, CountTypes, options, aside, accepting, pipes
<1>8. ControlTypes'
  BY <1>1 DEF Structure, TypeOK, ControlTypes, SendSize, SendTail, SendsLess,
       pipes_on_new_client, tailer_final
<1>9. tailers' \in Seq(Clients)
  BY <1>2, Unlinked DEF SendSize, SendTail, SendsLess
<1>10. ChannelTypes'
  <2>1. CASE SendSize
    <3>1. \/ WriteAll(tailer, <<received - TailCut(received)>>)
          \/ WriteLess(tailer, <<received - TailCut(received)>>)
      BY <2>1 DEF SendSize, SendsLess
    <3> QED BY <1>2, <3>1, Written DEF Structure, TypeOK
  <2>2. CASE SendTail /\ UNCHANGED channel
    BY <2>2 DEF Structure, TypeOK, ChannelTypes, channel
  <2>3. CASE SendTail /\ ~ UNCHANGED channel
    <3>1. PICK n \in 1..ReadSize :
            /\ pos + n <= received
            /\ \/ WriteAll(tailer, Bytes(pos, pos + n))
               \/ WriteLess(tailer, Bytes(pos, pos + n))
      BY <2>3 DEF SendTail, SendsLess
    <3>2. /\ pos \in Nat /\ pos + n \in Nat /\ pos <= pos + n /\ pos + n <= MaxBytes
      BY <1>2, <3>1, SizesAssumption DEF Structure, TypeOK, CountTypes
    <3>3. Bytes(pos, pos + n) \in Seq(0..MaxBytes)
      BY <3>2, BytesType
    <3> QED BY <1>2, <3>1, <3>3, Written DEF Structure, TypeOK
  <2> QED BY <2>1, <2>2, <2>3
<1> QED BY <1>1, <1>3, <1>5, <1>7, <1>8, <1>9, <1>10
     DEF Structure, TypeOK, ListTypes, DataTypes, ClientTypes, conns

LEMMA TypesOfLists ==
  ASSUME Structure,
         \/ unix_sock_cb_Accept
         \/ \E c \in Clients : tailer_readable_cb(c)
  PROVE  TypeOK'
<1>1. CASE unix_sock_cb_Accept
  <2> DEFINE c == Head(backlog)
  <2>1. /\ backlog \in Seq(Clients) /\ backlog # <<>> /\ tailers \in Seq(Clients)
        /\ tailers' = <<c>> \o tailers /\ joined' = [joined EXCEPT ![c] = received]
        /\ tailer' = c /\ backlog' = Tail(backlog)
    BY <1>1 DEF unix_sock_cb_Accept, Structure, TypeOK, ListTypes
  <2>2. c \in Clients /\ backlog' \in Seq(Clients)
    BY <2>1, TakeFirst
  <2> HIDE DEF c
  <2>3. ListTypes'
    BY <2>1, <2>2, AddFirst DEF ListTypes
  <2>4. ClientTypes'
    <3>1. received \in -1..MaxBytes
      BY SizesAssumption DEF Structure, TypeOK, CountTypes
    <3> QED BY <1>1, <2>1, <2>2, <3>1
         DEF Structure, TypeOK, ClientTypes, unix_sock_cb_Accept
  <2>5. FlagTypes'
    BY <1>1 DEF Structure, TypeOK, FlagTypes, unix_sock_cb_Accept, options, serving, pipes
  <2>6. CountTypes'
    BY <1>1, SizesAssumption
       DEF Structure, TypeOK, CountTypes, unix_sock_cb_Accept, options, serving, pipes
  <2>7. ControlTypes'
    BY <1>1, <2>1, <2>2 DEF Structure, TypeOK, ControlTypes, unix_sock_cb_Accept
  <2> QED BY <1>1, <2>3, <2>4, <2>5, <2>6, <2>7
       DEF Structure, TypeOK, DataTypes, ChannelTypes, unix_sock_cb_Accept, channel
<1>2. ASSUME NEW c \in Clients, tailer_readable_cb(c) PROVE TypeOK'
  <2>1. c \in ToSet(tailers)
    BY <1>2, NamesAssumption
       DEF Structure, Phases, tailer_readable_cb, Closed, Active, None, listener, stdin,
           sigint
  <2>2. tailers' \in Seq(Clients)
    BY <1>2, <2>1, Unlinked DEF Structure, TypeOK, ListTypes, Lists, tailer_readable_cb
  <2>3. FlagTypes'
    BY <1>2 DEF Structure, TypeOK, FlagTypes, tailer_readable_cb, options, serving, aside,
         accepting, pipes
  <2>4. CountTypes'
    BY <1>2 DEF Structure, TypeOK, CountTypes, tailer_readable_cb, options, serving, aside,
         accepting, pipes, writing
  <2>5. ControlTypes'
    BY <1>2 DEF Structure, TypeOK, ControlTypes, tailer_readable_cb, tailer_final, writing
  <2>6. ClientTypes'
    BY <1>2 DEF Structure, TypeOK, ClientTypes, tailer_readable_cb
  <2> QED BY <1>2, <2>2, <2>3, <2>4, <2>5, <2>6
       DEF Structure, TypeOK, ListTypes, DataTypes, ChannelTypes, tailer_readable_cb,
           channel, writing
<1> QED BY <1>1, <1>2

LEMMA TypesOfEnvironment ==
  ASSUME TypeOK, Environment
  PROVE  TypeOK'
<1>1. /\ UNCHANGED <<options, serving, tailers, control, stdout, sent, joined>>
      /\ failures' = failures
  BY EnvironmentStep
<1>2. FlagTypes'
  <2>1. eof' \in BOOLEAN /\ stdout_full' \in BOOLEAN /\ interrupted' \in BOOLEAN
    BY DEF TypeOK, FlagTypes, Environment, Supply, CloseInput, StdoutDrains, Interrupt,
         Connect, Speak, ClientReads, ClientLeaves, pipes
  <2> QED BY <1>1, <2>1
       DEF TypeOK, FlagTypes, options, serving, control, aside, accepting
<1>3. CountTypes'
  <2>1. supplied' \in 0..MaxBytes /\ supplied <= supplied'
    BY SizesAssumption DEF TypeOK, CountTypes, Environment, Supply, CloseInput,
         StdoutDrains, Interrupt, Connect, Speak, ClientReads, ClientLeaves, pipes
  <2> QED BY <1>1, <2>1, SizesAssumption
       DEF TypeOK, CountTypes, options, serving, control, writing, aside, accepting
<1>4. backlog' \in Seq(Clients)
  <2>1. backlog \in Seq(Clients)
    BY DEF TypeOK, ListTypes
  <2>2. CASE UNCHANGED backlog
    BY <2>1, <2>2
  <2>3. ASSUME NEW c \in Clients, Connect(c) PROVE backlog' \in Seq(Clients)
    BY <2>1, <2>3, AddLast DEF Connect
  <2>4. ASSUME NEW i \in DOMAIN backlog, backlog' = RemoveAt(backlog, i)
        PROVE  backlog' \in Seq(Clients)
    BY <2>1, <2>4, RemoveAtProperties, LenProperties
  <2> QED BY <2>2, <2>3, <2>4 DEF Environment, Supply, CloseInput, StdoutDrains,
       Interrupt, Speak, ClientReads, ClientLeaves, conns
<1>5. client' \in [Clients -> {"away", "open", "gone"}] /\ spoke' \in [Clients -> BOOLEAN]
  BY DEF TypeOK, ClientTypes, Environment, Supply, CloseInput, StdoutDrains, Interrupt,
       Connect, Speak, ClientReads, ClientLeaves, conns
<1>6. unread' \in [Clients -> 0..Capacity]
  <2>1. unread \in [Clients -> 0..Capacity] /\ Capacity \in Nat
    BY SizesAssumption DEF TypeOK, ChannelTypes
  <2>2. ASSUME NEW c \in Clients, ClientReads(c) PROVE unread' \in [Clients -> 0..Capacity]
    <3>1. PICK n \in 1..unread[c] : unread' = [unread EXCEPT ![c] = unread[c] - n]
      BY <2>2 DEF ClientReads
    <3>2. unread[c] - n \in 0..Capacity
      BY <2>1
    <3> QED BY <2>1, <3>1, <3>2
  <2>3. ASSUME NEW c \in Clients, ClientLeaves(c)
        PROVE  unread' \in [Clients -> 0..Capacity]
    BY <2>1, <2>3 DEF ClientLeaves
  <2> QED BY <2>1, <2>2, <2>3 DEF Environment, Supply, CloseInput, StdoutDrains,
       Interrupt, Connect, Speak, channel
<1> QED BY <1>1, <1>2, <1>3, <1>4, <1>5, <1>6
     DEF TypeOK, ControlTypes, ListTypes, DataTypes, ClientTypes, ChannelTypes, control,
         writing

LEMMA TypesStep ==
  ASSUME Structure, [Next]_vars
  PROVE  TypeOK'
<1>1. CASE \/ init_all \/ Poll \/ Leave \/ libev_error_handler \/ sigint_cb
           \/ stdin_cb_Again \/ tailer_readable_cb_Again \/ unix_sock_cb
           \/ unix_sock_cb_Again \/ unix_sock_cb_Fail
           \/ pipes_final \/ close_stdout \/ sockets_final
  <2>1. FlagTypes' /\ CountTypes' /\ ControlTypes'
    BY <1>1, TypesOfControlSteps DEF Structure
  <2>2. DataTypes' /\ ClientTypes' /\ ChannelTypes' /\ tailers' \in Seq(Clients)
    BY <1>1, EmptySeq DEF Structure, TypeOK, ListTypes, DataTypes, ClientTypes,
         ChannelTypes, init_all, Poll, Leave, libev_error_handler, sigint_cb,
         stdin_cb_Again, tailer_readable_cb_Again, ReadsNothing, unix_sock_cb,
         unix_sock_cb_Again, unix_sock_cb_Fail, pipes_final, close_stdout,
         sockets_final, conns, channel, writing
  <2>3. backlog' \in Seq(Clients)
    <3>1. \/ UNCHANGED backlog \/ backlog' = <<>>
          \/ backlog # <<>> /\ backlog' = Tail(backlog)
      BY <1>1 DEF init_all, Poll, Leave, libev_error_handler, sigint_cb, stdin_cb_Again,
           tailer_readable_cb_Again, ReadsNothing, unix_sock_cb, unix_sock_cb_Again,
           unix_sock_cb_Fail, pipes_final, close_stdout, sockets_final, conns
    <3>2. backlog \in Seq(Clients)
      BY DEF Structure, TypeOK, ListTypes
    <3>3. backlog # <<>> => Tail(backlog) \in Seq(Clients)
      BY <3>2, HeadTailProperties
    <3> QED BY <3>1, <3>2, <3>3, EmptySeq
  <2> QED BY <2>1, <2>2, <2>3 DEF TypeOK, ListTypes
<1>2. CASE stdin_cb_Read \/ stdin_cb_Break
  BY <1>2, TypesOfReads DEF Structure
<1>3. CASE stdout_write_blocking_or_break \/ sockets_write_blocking
  BY <1>3, TypesOfBroadcast
<1>4. CASE SendSize \/ SendTail
  BY <1>4, TypesOfSends
<1>5. CASE unix_sock_cb_Accept \/ \E c \in Clients : tailer_readable_cb(c)
  BY <1>5, TypesOfLists
<1>6. CASE Environment
  BY <1>6, TypesOfEnvironment DEF Structure
<1>7. CASE UNCHANGED vars
  BY <1>7 DEF Structure, TypeOK, FlagTypes, CountTypes, ControlTypes, ListTypes, DataTypes,
       ClientTypes, ChannelTypes, vars, options, serving, control, writing, aside,
       accepting, pipes, conns, channel
<1> QED BY <1>1, <1>2, <1>3, <1>4, <1>5, <1>6, <1>7 DEF Next, ServerStep
---------------------------------------------------------------------------------
(***************************************************************************)
(* The lists.                                                              *)
(***************************************************************************)
\* Most steps only take clients out of the lists.
LEMMA ListsShrink ==
  ASSUME Lists, IsInjective(tailers'), IsInjective(backlog'),
         ToSet(tailers') \subseteq ToSet(tailers),
         ToSet(backlog') \subseteq ToSet(backlog),
         ToSet(backlog) \subseteq Clients,
         joined' = joined,
         \A c \in Clients : client[c] # "away" => client'[c] # "away"
  PROVE  Lists'
BY DEF Lists

\* A step from inside a loop over the tailers may end one of them.
LEMMA TailersShrink ==
  ASSUME Structure, [Next]_vars,
         \/ sockets_write_blocking \/ SendSize \/ SendTail
         \/ \E c \in Clients : tailer_readable_cb(c)
  PROVE  /\ UNCHANGED <<joined, backlog, client, unix_sock, received>>
         /\ \/ UNCHANGED <<tailers, pending>>
            \/ \E c \in ToSet(tailers) :
                 /\ c = tailer \/ pc = "run"
                 /\ IsInjective(tailers') /\ ToSet(tailers') = ToSet(tailers) \ {c}
                 /\ pending' = pending \ {c}
<1>1. tailers \in Seq(Clients) /\ IsInjective(tailers)
  BY DEF Structure, TypeOK, ListTypes, Lists
<1>2. CASE sockets_write_blocking
  <2>1. tailer \in ToSet(tailers)
    BY <1>2 DEF sockets_write_blocking, Structure, Phases
  <2>2. UNCHANGED <<tailers, pending>> \/ tailer_final(tailer)
    BY <1>2 DEF sockets_write_blocking
  <2> QED BY <1>1, <1>2, <2>1, <2>2, Unlinked DEF sockets_write_blocking, conns, serving
<1>3. CASE SendSize \/ SendTail
  <2>1. tailer \in ToSet(tailers)
    BY <1>3 DEF SendSize, SendTail, Structure, Phases
  <2>2. UNCHANGED <<tailers, pending>> \/ tailer_final(tailer)
    BY <1>3 DEF SendSize, SendTail, SendsLess
  <2>3. UNCHANGED <<joined, backlog, client, unix_sock, received>>
    BY <1>3 DEF SendSize, SendTail, SendsLess, pipes_on_new_client, serving, conns
  <2> QED BY <1>1, <2>1, <2>2, <2>3, Unlinked
<1>4. ASSUME NEW c \in Clients, tailer_readable_cb(c)
      PROVE  /\ UNCHANGED <<joined, backlog, client, unix_sock, received>>
             /\ c \in ToSet(tailers) /\ pc = "run"
             /\ IsInjective(tailers') /\ ToSet(tailers') = ToSet(tailers) \ {c}
             /\ pending' = pending \ {c}
  <2>1. c \in ToSet(tailers)
    BY <1>4, NamesAssumption
       DEF Structure, Phases, tailer_readable_cb, Closed, Active, None, listener, stdin,
           sigint
  <2>2. tailer_final(c)
    BY <1>4 DEF tailer_readable_cb
  <2> QED BY <1>1, <1>4, <2>1, <2>2, Unlinked DEF tailer_readable_cb, serving
<1> QED BY <1>2, <1>3, <1>4

LEMMA ListsOfEnvironment ==
  ASSUME Structure, Environment
  PROVE  Lists'
<1>1. UNCHANGED <<tailers, joined, pc>>
  BY EnvironmentStep DEF control
<1>2. /\ backlog \in Seq(Clients) /\ client \in [Clients -> {"away", "open", "gone"}]
      /\ IsInjective(backlog) /\ IsInjective(tailers) /\ ToSet(backlog) \subseteq Clients
  BY Elements DEF Structure, TypeOK, ListTypes, ClientTypes, Lists
<1>3. ASSUME NEW c \in Clients, Connect(c) PROVE Lists'
  <2>1. c \notin ToSet(tailers) /\ c \notin ToSet(backlog) /\ joined[c] = -1
    BY <1>3 DEF Connect, Structure, Lists
  <2>2. ToSet(backlog') = ToSet(backlog) \cup {c} /\ IsInjective(backlog')
    BY <1>2, <1>3, <2>1, AddLast DEF Connect
  <2>3. \A d \in Clients : client'[d] = IF d = c THEN "open" ELSE client[d]
    BY <1>2, <1>3 DEF Connect
  <2> QED BY <1>1, <1>2, <2>1, <2>2, <2>3 DEF Structure, Lists
<1>4. ASSUME NEW c \in Clients, ClientLeaves(c) PROVE Lists'
  <2>1. \A d \in Clients : client'[d] = IF d = c THEN "gone" ELSE client[d]
    BY <1>2, <1>4 DEF ClientLeaves
  <2>2. IsInjective(backlog') /\ ToSet(backlog') \subseteq ToSet(backlog)
    <3>1. CASE UNCHANGED backlog
      BY <1>2, <3>1
    <3>2. ASSUME NEW i \in DOMAIN backlog, backlog' = RemoveAt(backlog, i)
          PROVE  IsInjective(backlog') /\ ToSet(backlog') \subseteq ToSet(backlog)
      <4>1. i \in 1..Len(backlog)
        BY <1>2, LenProperties
      <4> QED BY <1>2, <3>2, <4>1, RemoveAtInjective
    <3> QED BY <1>4, <3>1, <3>2 DEF ClientLeaves
  <2> QED BY <1>1, <1>2, <2>1, <2>2, ListsShrink DEF Structure
<1>5. CASE UNCHANGED <<backlog, client>>
  BY <1>1, <1>5 DEF Structure, Lists
<1> QED BY <1>3, <1>4, <1>5 DEF Environment, Supply, CloseInput, StdoutDrains,
     Interrupt, Speak, ClientReads, conns

LEMMA ListsStep ==
  ASSUME Structure, [Next]_vars
  PROVE  Lists'
<1>1. /\ tailers \in Seq(Clients) /\ backlog \in Seq(Clients)
      /\ IsInjective(tailers) /\ IsInjective(backlog) /\ ToSet(backlog) \subseteq Clients
  BY Elements DEF Structure, TypeOK, ListTypes, Lists
<1>2. CASE /\ UNCHANGED <<tailers, joined, client>>
           /\ \/ UNCHANGED backlog
              \/ backlog # <<>> /\ backlog' = Tail(backlog)
  <2>1. IsInjective(backlog') /\ ToSet(backlog') \subseteq ToSet(backlog)
    BY <1>1, <1>2, TakeFirst
  <2> QED BY <1>1, <1>2, <2>1, ListsShrink DEF Structure
<1>3. CASE \/ sockets_write_blocking \/ SendSize \/ SendTail
           \/ \E c \in Clients : tailer_readable_cb(c)
  <2>1. /\ UNCHANGED <<joined, backlog, client>>
        /\ IsInjective(tailers') /\ ToSet(tailers') \subseteq ToSet(tailers)
    BY <1>1, <1>3, TailersShrink
  <2> QED BY <1>1, <2>1, ListsShrink DEF Structure
<1>4. CASE unix_sock_cb_Accept
  <2> DEFINE c == Head(backlog)
  <2>1. /\ backlog # <<>> /\ tailers' = <<c>> \o tailers /\ UNCHANGED client
        /\ joined' = [joined EXCEPT ![c] = received] /\ backlog' = Tail(backlog)
    BY <1>4 DEF unix_sock_cb_Accept
  <2>2. /\ c \in Clients /\ c \in ToSet(backlog) /\ c \notin ToSet(backlog')
        /\ ToSet(backlog') \subseteq ToSet(backlog) /\ IsInjective(backlog')
    BY <1>1, <2>1, TakeFirst
  <2> HIDE DEF c
  <2>3. c \notin ToSet(tailers) /\ client[c] # "away"
    BY <2>2 DEF Structure, Lists
  <2>4. ToSet(tailers') = ToSet(tailers) \cup {c} /\ IsInjective(tailers')
    BY <1>1, <2>1, <2>2, <2>3, AddFirst
  <2>5. \A d \in Clients : joined'[d] = IF d = c THEN received ELSE joined[d]
    BY <2>1 DEF Structure, TypeOK, ClientTypes
  <2>6. received >= 0 /\ ToSet(tailers) \subseteq Clients
    BY <1>1, OptionsType, Elements DEF Structure
  <2> QED BY <1>1, <2>1, <2>2, <2>3, <2>4, <2>5, <2>6 DEF Structure, Lists
<1>5. CASE sockets_final
  <2>1. tailers' = <<>> /\ backlog' = <<>> /\ UNCHANGED <<joined, client>>
    BY <1>5 DEF sockets_final
  <2>2. ToSet(<<>>) = {} /\ IsInjective(<<>>)
    BY DEF ToSet, IsInjective
  <2> QED BY <1>1, <2>1, <2>2, ListsShrink DEF Structure
<1>6. CASE Environment
  BY <1>6, ListsOfEnvironment
<1>7. CASE UNCHANGED vars
  BY <1>2, <1>7 DEF vars, conns
<1> QED
  <2>1. CASE init_all \/ Poll \/ Leave \/ libev_error_handler \/ sigint_cb
    BY <1>2, <2>1 DEF init_all, Poll, Leave, libev_error_handler, sigint_cb, conns
  <2>2. CASE \/ stdin_cb_Read \/ stdin_cb_Break \/ stdin_cb_Again
             \/ tailer_readable_cb_Again
    BY <1>2, <2>2 DEF stdin_cb_Read, stdin_cb_Break, stdin_cb_Again,
         tailer_readable_cb_Again, ReadsNothing, conns
  <2>3. CASE stdout_write_blocking_or_break \/ pipes_final \/ close_stdout
    BY <1>2, <2>3 DEF stdout_write_blocking_or_break, pipes_final, close_stdout, conns
  <2>4. CASE unix_sock_cb \/ unix_sock_cb_Again \/ unix_sock_cb_Fail
    BY <1>2, <2>4 DEF unix_sock_cb, unix_sock_cb_Again, unix_sock_cb_Fail, conns
  <2> QED BY <1>3, <1>4, <1>5, <1>6, <1>7, <2>1, <2>2, <2>3, <2>4 DEF Next, ServerStep
---------------------------------------------------------------------------------
(***************************************************************************)
(* The points of the program.                                              *)
(***************************************************************************)
\* Steps of callbacks that touch no list, and start no watcher.
LEMMA PhasesOfCallbacks ==
  ASSUME Phases, UNCHANGED <<tailers, backlog, stdin_started, unix_sock, ignore_interrupts>>,
         pc \notin {"init", "final"}, ~Closed,
         pc' \in {"run", "stdout", "broadcast", "accept", "final"}, pending' \subseteq pending,
         pc' = "broadcast" => tailer' \in ToSet(tailers)
  PROVE  Phases'
BY DEF Phases, Active, Closed

LEMMA PhasesOfTailers ==
  ASSUME Structure, [Next]_vars,
         \/ sockets_write_blocking \/ SendSize \/ SendTail
         \/ \E c \in Clients : tailer_readable_cb(c)
  PROVE  Phases'
<1>1. /\ tailers \in Seq(Clients) /\ IsInjective(tailers)
      /\ pc \in {"broadcast", "size", "tail", "run"}
      /\ UNCHANGED <<unix_sock, ignore_interrupts>>
      /\ stdin_started => stdin_started'
  <2>1. tailers \in Seq(Clients) /\ IsInjective(tailers)
    BY DEF Structure, TypeOK, ListTypes, Lists
  <2>2. UNCHANGED <<unix_sock, ignore_interrupts>>
    BY OptionsStay, TailersShrink DEF options
  <2>3. CASE sockets_write_blocking \/ \E c \in Clients : tailer_readable_cb(c)
    BY <2>1, <2>2, <2>3 DEF sockets_write_blocking, tailer_readable_cb, serving
  <2>4. CASE SendSize \/ SendTail
    <3>1. pc \in {"size", "tail"}
      BY <2>4 DEF SendSize, SendTail
    <3>2. UNCHANGED stdin_started \/ pipes_on_new_client
      BY <2>4 DEF SendSize, SendTail, SendsLess, serving
    <3>3. stdin_started => stdin_started'
      BY <3>2, Zenon DEF pipes_on_new_client
    <3>4. pc \in {"broadcast", "size", "tail", "run"}
      BY <3>1
    <3> QED BY <2>1, <2>2, <3>3, <3>4
  <2> QED BY <2>3, <2>4
<1>2. pending \subseteq Active
  BY <1>1 DEF Structure, Phases, Closed
<1>3. pending' \subseteq Active'
  <2>1. CASE UNCHANGED <<tailers, pending>>
    BY <1>1, <1>2, <2>1 DEF Active
  <2>2. ASSUME NEW c, ToSet(tailers') = ToSet(tailers) \ {c}, pending' = pending \ {c}
        PROVE  pending' \subseteq Active'
    BY <1>1, <1>2, <2>2 DEF Active
  <2> QED BY <2>1, <2>2, TailersShrink
<1>4. CASE sockets_write_blocking
  <2>1. tailer \in ToSet(tailers) /\ pc = "broadcast" /\ tailer' = next(tailer)
    BY <1>4 DEF sockets_write_blocking, Broadcast, Structure, Phases
  <2>2. pc' \in {"run", "broadcast"} /\ (pc' = "broadcast" => next(tailer) # None)
    BY <1>4 DEF sockets_write_blocking, Broadcast
  <2>3. next(tailer) # None => next(tailer) \in ToSet(tailers) \ {tailer}
    BY <1>1, <2>1, NextTailer
  <2>4. ToSet(tailers) \ {tailer} \subseteq ToSet(tailers')
    BY <1>4, <2>1, TailersShrink
  <2> QED BY <1>3, <2>1, <2>2, <2>3, <2>4 DEF Phases, Closed
<1>5. CASE (SendSize \/ SendTail) /\ pc' = "run"
  BY <1>3, <1>5 DEF Phases, Closed
<1>6. CASE (SendSize \/ SendTail) /\ pc' # "run"
  <2>1. UNCHANGED <<tailers, tailer>> /\ pc' = "tail" /\ pc \in {"size", "tail"}
    BY <1>6 DEF SendSize, SendTail, SendsLess, pipes_on_new_client
  <2> QED BY <1>3, <2>1 DEF Structure, Phases, Closed
<1>7. CASE \E c \in Clients : tailer_readable_cb(c)
  <2>1. pc = "run" /\ pc' = pc
    BY <1>7 DEF tailer_readable_cb
  <2> QED BY <1>3, <2>1 DEF Phases, Closed
<1> QED BY <1>4, <1>5, <1>6, <1>7

LEMMA PhasesOfEnvironment ==
  ASSUME Structure, Environment
  PROVE  Phases'
<1>1. /\ UNCHANGED <<options, serving, tailers, control>> /\ ~Closed
  BY EnvironmentStep
<1>2. pc = "init" => UNCHANGED <<backlog, client>>
  BY SizesAssumption DEF Structure, TypeOK, ClientTypes, Phases, Environment, Supply,
       CloseInput, StdoutDrains, Interrupt, Connect, Speak, ClientReads, ClientLeaves,
       conns
<1> QED BY <1>1, <1>2 DEF Structure, Phases, Closed, Active, options, serving, control,
          writing

LEMMA PhasesStep ==
  ASSUME Structure, [Next]_vars
  PROVE  Phases'
<1>1. /\ tailers \in Seq(Clients) /\ backlog \in Seq(Clients)
  BY DEF Structure, TypeOK, ListTypes
<1>2. UNCHANGED ignore_interrupts
  BY OptionsStay DEF options
<1>3. CASE init_all
  <2>1. UNCHANGED <<tailers, backlog, pending>> /\ pc = "init"
    BY <1>3 DEF init_all, conns
  <2>2. \/ pc' = "run"
        \/ pc' \in {"atexit", "close_stdin"} /\ UNCHANGED unix_sock
    BY <1>3 DEF init_all
  <2> QED BY <2>1, <2>2 DEF Structure, Phases, Closed
<1>4. CASE Poll
  BY <1>4 DEF Poll, Phases, Ready, Active, Closed, serving, options
<1>5. CASE Leave \/ libev_error_handler
  BY <1>5 DEF Leave, libev_error_handler, Phases, Closed
<1>6. CASE \/ sigint_cb \/ stdin_cb_Read \/ stdin_cb_Break \/ stdin_cb_Again
           \/ tailer_readable_cb_Again \/ unix_sock_cb
  <2>1. /\ UNCHANGED <<tailers, backlog, stdin_started, unix_sock>> /\ pc = "run"
        /\ pc' \in {"run", "stdout", "accept"} /\ pending' \subseteq pending
    BY <1>6 DEF sigint_cb, stdin_cb_Read, stdin_cb_Break, stdin_cb_Again,
         tailer_readable_cb_Again, ReadsNothing, unix_sock_cb, Starts, serving, conns
  <2> QED BY <1>2, <2>1, PhasesOfCallbacks DEF Structure, Closed
<1>7. CASE stdout_write_blocking_or_break
  <2>1. /\ UNCHANGED <<tailers, backlog, stdin_started, unix_sock, pending>> /\ pc = "stdout"
        /\ tailer' = FirstTailer
        /\ pc' = "run" \/ (pc' = "broadcast" /\ FirstTailer # None)
    BY <1>7 DEF stdout_write_blocking_or_break, Broadcast, conns
  <2>2. FirstTailer # None => FirstTailer \in ToSet(tailers)
    BY <1>1, FirstTailerType
  <2> QED BY <1>2, <2>1, <2>2, PhasesOfCallbacks DEF Structure, Closed
<1>8. CASE unix_sock_cb_Again \/ unix_sock_cb_Fail
  <2>1. /\ UNCHANGED <<tailers, stdin_started, unix_sock, pending>>
        /\ pc = "accept" /\ pc' \in {"run", "accept"}
    BY <1>8 DEF unix_sock_cb_Again, unix_sock_cb_Fail, serving
  <2> QED BY <1>2, <2>1 DEF Structure, Phases, Active, Closed
<1>9. CASE unix_sock_cb_Accept
  <2> DEFINE c == Head(backlog)
  <2>1. /\ backlog # <<>> /\ tailers' = <<c>> \o tailers /\ pc = "accept" /\ pc' = "size"
        /\ tailer' = c /\ UNCHANGED <<pending, unix_sock, stdin_started>>
    BY <1>9 DEF unix_sock_cb_Accept, serving
  <2>2. c \in Clients
    BY <1>1, <2>1, TakeFirst
  <2> HIDE DEF c
  <2>3. ToSet(tailers') = ToSet(tailers) \cup {c} /\ tailers'[1] = c
    BY <1>1, <2>1, <2>2, AddFirst
  <2>4. pending \subseteq Active
    BY <2>1 DEF Structure, Phases, Closed
  <2>5. pending' \subseteq Active'
    BY <1>2, <2>1, <2>3, <2>4 DEF Active
  <2> QED BY <2>1, <2>3, <2>5 DEF Phases, Closed
<1>10. CASE \/ sockets_write_blocking \/ SendSize \/ SendTail
            \/ \E c \in Clients : tailer_readable_cb(c)
  BY <1>10, PhasesOfTailers
<1>11. CASE sockets_final
  BY <1>11 DEF sockets_final, Phases, Closed
<1>12. CASE pipes_final \/ close_stdout
  BY <1>12 DEF pipes_final, close_stdout, Structure, Phases, Closed, serving, conns
<1>13. CASE Environment
  BY <1>13, PhasesOfEnvironment
<1>14. CASE UNCHANGED vars
  BY <1>14 DEF vars, options, serving, control, writing, conns, Structure, Phases, Closed,
       Active
<1> QED BY <1>3, <1>4, <1>5, <1>6, <1>7, <1>8, <1>9, <1>10, <1>11, <1>12, <1>13, <1>14
        DEF Next, ServerStep
---------------------------------------------------------------------------------
LEMMA StructureInit ==
  ASSUME Init
  PROVE  Structure
<1>1. /\ MaxBytes \in Nat /\ MaxFailures \in Nat /\ MaxAcceptRetry \in Nat \ {0}
      /\ Capacity \in Nat
  BY SizesAssumption
<1>2. ToSet(<<>>) = {} /\ IsInjective(<<>>)
  BY DEF ToSet, IsInjective
<1>3. FlagTypes
  BY OptionsAssumption DEF Init, FlagTypes
<1>4. CountTypes /\ ControlTypes /\ ListTypes /\ DataTypes /\ ClientTypes
  BY <1>1, EmptySeq DEF Init, CountTypes, ControlTypes, ListTypes, DataTypes, ClientTypes
<1>5. ChannelTypes
  BY <1>1, EmptySeq DEF Init, ChannelTypes
<1>6. Lists
  BY <1>2 DEF Init, Lists
<1>7. Phases
  BY DEF Init, Phases, Closed
<1> QED BY <1>3, <1>4, <1>5, <1>6, <1>7 DEF Structure, TypeOK

LEMMA StructureAlways == Spec => []Structure
<1>1. Init => Structure
  BY StructureInit
<1>2. Structure /\ [Next]_vars => Structure'
  BY TypesStep, ListsStep, PhasesStep DEF Structure
<1> QED BY <1>1, <1>2, PTL DEF Spec

\* Every variable of the server and of its environment keeps its type; among others
\* no more is read than stdin holds, and the socket of a client never holds more than
\* it can.
THEOREM TypeCorrect == Spec => []TypeOK
<1>1. Structure => TypeOK
  BY DEF Structure
<1> QED BY <1>1, StructureAlways, PTL

\* Whatever callback frees a tailer, at whatever point: no pending callback and no walk
\* over the list of tailers (sockets.c) refers to one that is gone.
THEOREM NothingIsUsedAfterFree == Spec => []NoUseAfterFree
<1>1. Structure => NoUseAfterFree
  BY DEF Structure, Lists, Phases, NoUseAfterFree
<1> QED BY <1>1, StructureAlways, PTL

\* On every way out of the program (final_all in tailserver.c, error() at start and
\* in libev's error handler) the socket file and all connections are closed.
THEOREM AlwaysEndsCleanly == Spec => []EndsCleanly
<1>1. Structure => EndsCleanly
  BY DEF Structure, Phases, Closed, EndsCleanly
<1> QED BY <1>1, StructureAlways, PTL
---------------------------------------------------------------------------------
(***************************************************************************)
(* Waiting for the first client, and who is called back.                   *)
(***************************************************************************)
\* The stdin watcher and the flag of -w tell the same, and the wait ends with the
\* callback that accepted a client.
Waiting ==
  /\ pc # "init" /\ ~Closed => (stdin_started <=> ~waiting_for_client)
  /\ pc \in {"run", "stdout", "broadcast", "accept"} /\ Accepted # {} => stdin_started
  /\ wait_for_client => waiting_for_client \/ Accepted # {}
  /\ wait_for_client /\ received > 0 => Accepted # {}

\* What made the watcher of a client ready stays until its callback.
Callers == \A c \in pending \cap Clients : spoke[c] \/ client[c] = "gone"

\* The stdin watcher is active while its callback is pending.
LEMMA StdinActive ==
  ASSUME Structure, stdin \in pending, pc = "run"
  PROVE  stdin_started
<1>1. stdin \in Active
  BY DEF Structure, Phases, Closed
<1>2. stdin \notin ToSet(tailers)
  BY Elements, NamesAssumption DEF Structure, TypeOK, ListTypes
<1> QED BY <1>1, <1>2 DEF Active, stdin, listener, sigint

LEMMA WaitingStep ==
  ASSUME Structure, Waiting, [Next]_vars
  PROVE  Waiting'
<1> wait_for_client' = wait_for_client
  BY OptionsStay DEF options
<1>1. CASE init_all
  <2>1. /\ UNCHANGED <<waiting_for_client, received, joined>> /\ pc = "init"
        /\ \/ pc' = "run" /\ stdin_started' = ~waiting_for_client'
           \/ pc' \in {"atexit", "close_stdin"}
    BY <1>1 DEF init_all, pipes_init, conns
  <2>2. Accepted = {} /\ Accepted' = {}
    BY <2>1, SizesAssumption DEF Structure, Lists, Phases, Accepted
  <2>3. pc' = "run" => (stdin_started' <=> ~waiting_for_client')
    BY <2>1, Zenon
  <2>4. pc' # "init" /\ ~Closed' => pc' = "run"
    BY <2>1 DEF Closed
  <2>5. /\ wait_for_client => waiting_for_client \/ Accepted # {}
        /\ wait_for_client /\ received > 0 => Accepted # {}
    BY DEF Waiting
  <2>6. waiting_for_client' <=> waiting_for_client
    BY <2>1, Zenon
  <2> QED BY <2>1, <2>2, <2>3, <2>4, <2>5, <2>6 DEF Waiting
<1>2. CASE /\ UNCHANGED <<waiting_for_client, stdin_started, received, joined>>
           /\ pc # "init"
           /\ pc' # "init" /\ (~Closed' => ~Closed)
           /\ \/ pc' \notin {"run", "stdout", "broadcast", "accept"}
              \/ pc \in {"run", "stdout", "broadcast", "accept"}
  <2>1. Accepted' = Accepted
    BY <1>2 DEF Accepted
  <2> QED BY <1>2, <2>1 DEF Waiting
<1>3. CASE UNCHANGED <<waiting_for_client, stdin_started, received, joined, pc>>
  <2>1. Accepted' = Accepted /\ (Closed' <=> Closed)
    BY <1>3 DEF Accepted, Closed
  <2> QED BY <1>3, <2>1 DEF Waiting
<1>4. CASE stdin_cb_Read \/ stdin_cb_Break
  <2>1. /\ UNCHANGED <<waiting_for_client, stdin_started, joined>> /\ pc = "run"
        /\ stdin \in pending /\ pc' \in {"run", "stdout"}
    BY <1>4 DEF stdin_cb_Read, stdin_cb_Break, Starts, conns
  <2>2. stdin_started /\ Accepted' = Accepted
    BY <2>1, StdinActive DEF Accepted
  <2>3. ~waiting_for_client
    BY <2>1, <2>2 DEF Waiting, Closed
  <2>4. wait_for_client => Accepted # {}
    BY <2>3 DEF Waiting
  <2> QED BY <2>1, <2>2, <2>3, <2>4 DEF Waiting
<1>5. CASE unix_sock_cb_Accept
  <2> DEFINE c == Head(backlog)
  <2>1. /\ UNCHANGED <<waiting_for_client, stdin_started, received>> /\ pc = "accept"
        /\ pc' = "size" /\ backlog # <<>> /\ joined' = [joined EXCEPT ![c] = received]
    BY <1>5 DEF unix_sock_cb_Accept, serving
  <2>2. c \in Clients /\ joined \in [Clients -> -1..MaxBytes] /\ received >= 0
    BY <2>1, TakeFirst, OptionsType DEF Structure, TypeOK, ListTypes, ClientTypes
  <2> HIDE DEF c
  <2>3. Accepted' # {}
    BY <2>1, <2>2 DEF Accepted
  <2> QED BY <2>1, <2>3 DEF Waiting, Closed
<1>6. CASE SendSize \/ SendTail
  <2>1. /\ pc \in {"size", "tail"} /\ UNCHANGED <<joined, received>>
        /\ \/ UNCHANGED serving /\ pc' = "tail"
           \/ pipes_on_new_client
    BY <1>6 DEF SendSize, SendTail, SendsLess, pipes_on_new_client, conns, serving
  <2>2. tailer \in ToSet(tailers) /\ tailer \in Clients
    BY <2>1, SendingType
  <2>3. Accepted # {} /\ Accepted' = Accepted
    BY <2>1, <2>2 DEF Structure, Lists, Accepted
  <2>4. stdin_started <=> ~waiting_for_client
    BY <2>1 DEF Waiting, Closed
  <2>5. CASE UNCHANGED serving /\ pc' = "tail"
    <3>1. (stdin_started' <=> stdin_started) /\ (waiting_for_client' <=> waiting_for_client)
      BY <2>5, Zenon DEF serving
    <3> QED BY <2>1, <2>3, <2>4, <2>5, <3>1 DEF Waiting
  <2>6. CASE pipes_on_new_client
    <3>1. waiting_for_client' = FALSE /\ stdin_started' = (stdin_started \/ waiting_for_client)
      BY <2>6 DEF pipes_on_new_client
    <3>2. stdin_started' /\ ~waiting_for_client'
      BY <2>4, <3>1, Zenon
    <3> QED BY <2>1, <2>3, <3>2 DEF Waiting
  <2> QED BY <2>1, <2>5, <2>6
<1>7. CASE \/ Poll \/ Leave \/ libev_error_handler \/ sigint_cb \/ stdin_cb_Again
           \/ tailer_readable_cb_Again
           \/ unix_sock_cb
  <2>1. /\ UNCHANGED <<waiting_for_client, stdin_started, received, joined>> /\ pc = "run"
        /\ pc' \in {"run", "final", "accept", "atexit"}
    BY <1>7 DEF Poll, Leave, libev_error_handler, sigint_cb, stdin_cb_Again,
         tailer_readable_cb_Again, ReadsNothing, unix_sock_cb, serving, conns, Starts
  <2> QED BY <1>2, <2>1 DEF Closed
<1>8. CASE \/ stdout_write_blocking_or_break \/ sockets_write_blocking
           \/ unix_sock_cb_Again \/ unix_sock_cb_Fail
  <2>1. /\ UNCHANGED <<waiting_for_client, stdin_started, received, joined>>
        /\ pc \in {"stdout", "broadcast", "accept"} /\ pc' \in {"run", "broadcast", "accept"}
    BY <1>8 DEF stdout_write_blocking_or_break, sockets_write_blocking, Broadcast,
         unix_sock_cb_Again, unix_sock_cb_Fail, serving, conns
  <2> QED BY <1>2, <2>1 DEF Closed
<1>9. CASE sockets_final \/ close_stdout
  <2>1. /\ UNCHANGED <<waiting_for_client, stdin_started, received, joined>> /\ pc # "init"
        /\ pc' \in {"close_stdin", "exited"}
    BY <1>9 DEF sockets_final, close_stdout, serving, conns
  <2> QED BY <1>2, <2>1 DEF Closed
<1>10. CASE pipes_final
  <2>1. /\ UNCHANGED <<waiting_for_client, received, joined>> /\ pc' = "atexit"
    BY <1>10 DEF pipes_final, conns
  <2>2. Accepted' = Accepted /\ (waiting_for_client' <=> waiting_for_client)
    BY <2>1 DEF Accepted
  <2> QED BY <2>1, <2>2 DEF Waiting, Closed
<1>11. CASE \E c \in Clients : tailer_readable_cb(c)
  BY <1>3, <1>11 DEF tailer_readable_cb, serving
<1>12. CASE Environment
  BY <1>3, <1>12, EnvironmentStep DEF serving, control
<1>13. CASE UNCHANGED vars
  BY <1>3, <1>13 DEF vars, serving, control, conns
<1> QED BY <1>1, <1>4, <1>5, <1>6, <1>7, <1>8, <1>9, <1>10, <1>11, <1>12, <1>13
        DEF Next, ServerStep

LEMMA CallersStep ==
  ASSUME Structure, Callers, [Next]_vars
  PROVE  Callers'
<1>1. CASE UNCHANGED <<spoke, client>> /\ pending' \subseteq pending
  BY <1>1 DEF Callers
<1>2. CASE Poll
  <2>1. UNCHANGED <<spoke, client>> /\ pending' = Ready
    BY <1>2 DEF Poll, conns
  <2>2. \A c \in Ready \cap Clients : spoke[c] \/ client[c] = "gone"
    BY NamesAssumption DEF Ready, None, listener, stdin, sigint
  <2> QED BY <2>1, <2>2 DEF Callers
<1>3. ASSUME NEW c \in Clients, tailer_readable_cb(c) PROVE Callers'
  <2>1. /\ pending' = pending \ {c} /\ UNCHANGED client
        /\ spoke' = [spoke EXCEPT ![c] = FALSE]
    BY <1>3 DEF tailer_readable_cb, tailer_final
  <2>2. \A d \in Clients \ {c} : spoke'[d] = spoke[d]
    BY <2>1 DEF Structure, TypeOK, ClientTypes
  <2> QED BY <2>1, <2>2 DEF Callers
<1>4. CASE Environment
  <2>1. /\ UNCHANGED pending
        /\ spoke \in [Clients -> BOOLEAN]
        /\ client \in [Clients -> {"away", "open", "gone"}]
    BY <1>4, EnvironmentStep DEF control, Structure, TypeOK, ClientTypes
  <2>2. ASSUME NEW c \in Clients, Connect(c) \/ Speak(c) \/ ClientReads(c) \/ ClientLeaves(c)
        PROVE  \A d \in Clients :
                 spoke[d] \/ client[d] = "gone" => spoke'[d] \/ client'[d] = "gone"
    BY <2>1, <2>2 DEF Connect, Speak, ClientReads, ClientLeaves, conns
  <2>3. CASE Supply \/ CloseInput \/ StdoutDrains \/ Interrupt
    BY <1>1, <2>1, <2>3 DEF Supply, CloseInput, StdoutDrains, Interrupt, conns
  <2> QED BY <1>4, <2>1, <2>2, <2>3 DEF Environment, Callers
<1>5. CASE sockets_write_blocking \/ SendSize \/ SendTail
  BY <1>1, <1>5 DEF sockets_write_blocking, SendSize, SendTail, SendsLess, tailer_final, conns
<1>6. CASE \/ init_all \/ Leave \/ libev_error_handler \/ sigint_cb
           \/ stdin_cb_Read \/ stdin_cb_Break \/ stdin_cb_Again
           \/ tailer_readable_cb_Again
  BY <1>1, <1>6 DEF init_all, Leave, libev_error_handler, sigint_cb, stdin_cb_Read,
       stdin_cb_Break, stdin_cb_Again, tailer_readable_cb_Again, ReadsNothing, Starts,
       conns
<1>7. CASE \/ stdout_write_blocking_or_break
           \/ unix_sock_cb \/ unix_sock_cb_Accept \/ unix_sock_cb_Again \/ unix_sock_cb_Fail
           \/ sockets_final \/ pipes_final \/ close_stdout
  BY <1>1, <1>7 DEF stdout_write_blocking_or_break, unix_sock_cb, unix_sock_cb_Accept,
       unix_sock_cb_Again, unix_sock_cb_Fail, sockets_final, pipes_final, close_stdout,
       Starts, conns
<1>8. CASE UNCHANGED vars
  BY <1>1, <1>8 DEF vars, control, conns
<1> QED BY <1>2, <1>3, <1>4, <1>5, <1>6, <1>7, <1>8 DEF Next, ServerStep

LEMMA WatchersAlways == Spec => [](Structure /\ Waiting /\ Callers)
<1> DEFINE I == Structure /\ Waiting /\ Callers
<1>1. Init => I
  <2> SUFFICES ASSUME Init PROVE I
    OBVIOUS
  <2>1. Structure
    BY StructureInit
  <2>2. waiting_for_client = wait_for_client /\ received = 0
    BY DEF Init
  <2>3. Waiting
    <3>1. wait_for_client => waiting_for_client
      BY <2>2, Zenon
    <3>2. pc = "init"
      BY DEF Init
    <3>3. ~ (received > 0) /\ pc \notin {"run", "stdout", "broadcast", "accept"}
      BY <2>2, <3>2
    <3> QED BY <3>1, <3>2, <3>3, Zenon DEF Waiting
  <2>4. Callers
    BY DEF Init, Callers
  <2> QED BY <2>1, <2>3, <2>4
<1>2. I /\ [Next]_vars => I'
  BY TypesStep, ListsStep, PhasesStep, WaitingStep, CallersStep DEF Structure
<1> QED BY <1>1, <1>2, PTL DEF Spec

\* With -w nothing is read from stdin (pipes.c) before sockets.c has accepted a client,
\* and from then on stdin is read, though that client may have been ditched.
THEOREM FirstClientIsAwaited == Spec => []WaitsForFirstClient
<1>1. Waiting => WaitsForFirstClient
  BY DEF Waiting, WaitsForFirstClient
<1> QED BY <1>1, WatchersAlways, PTL

\* Without -d less than all is written only when the client is gone, or by a short write,
\* which fills its socket.
LEMMA LessWritten ==
  ASSUME ChannelTypes, tailer_block_forever, NEW c \in Clients,
         NEW bytes \in Seq(0..MaxBytes), WriteLess(c, bytes)
  PROVE  client[c] = "gone" \/ (PartialWrites /\ CutShort(c))
<1>1. CASE /\ PartialWrites /\ Room(c) \in 1..(Len(bytes) - 1)
           /\ sent' = [sent EXCEPT ![c] = @ \o SubSeq(bytes, 1, Room(c))]
           /\ unread' = [unread EXCEPT ![c] = Capacity]
  <2> DEFINE part == SubSeq(bytes, 1, Room(c))
  <2>1. Len(bytes) \in Nat /\ sent[c] \in Seq(0..MaxBytes) /\ Len(sent[c]) \in Nat
    BY LenProperties DEF ChannelTypes
  <2>2. part \in Seq(0..MaxBytes) /\ Len(part) = Room(c)
    <3>1. \A i \in 1..Room(c) : i \in 1..Len(bytes)
      BY <1>1, <2>1
    <3>2. \A i \in 1..Room(c) : bytes[i] \in 0..MaxBytes
      BY <3>1, ElementOfSeq
    <3>3. Room(c) \in Nat /\ Room(c) <= Len(bytes)
      BY <1>1, <2>1
    <3> QED BY <3>2, <3>3, SubSeqProperties
  <2>3. sent'[c] = sent[c] \o part /\ unread'[c] = Capacity
    BY <1>1 DEF ChannelTypes
  <2> HIDE DEF part
  <2>4. Len(sent[c] \o part) = Len(sent[c]) + Len(part)
    BY <2>1, <2>2, ConcatProperties, ZenonT(60)
  <2>5. Room(c) > 0
    BY <1>1, <2>1
  <2>6. Len(sent'[c]) = Len(sent[c]) + Room(c)
    BY <2>2, <2>3, <2>4
  <2>7. Len(sent'[c]) # Len(sent[c])
    BY <1>1, <2>1, <2>5, <2>6
  <2> QED BY <1>1, <2>3, <2>7 DEF CutShort
<1> QED BY <1>1 DEF WriteLess

\* Nothing but such a short write (safe_write_forever does not go on after one) and the
\* end of the loop disconnects a client that is there and has not spoken, however slowly
\* it reads.
LEMMA OnlyTheGoneAreDitched ==
  ASSUME Structure, Callers, [Next]_vars, tailer_block_forever, pc # "final",
         NEW c \in ToSet(tailers)
  PROVE  \/ c \in ToSet(tailers') \/ client[c] = "gone" \/ spoke[c]
         \/ PartialWrites /\ CutShort(c)
<1>1. tailers \in Seq(Clients) /\ IsInjective(tailers) /\ c \in Clients
  BY Elements DEF Structure, TypeOK, ListTypes, Lists
<1>2. ASSUME NEW d \in Clients, NEW bytes \in Seq(0..MaxBytes), WriteLess(d, bytes)
      PROVE  client[d] = "gone" \/ (PartialWrites /\ CutShort(d))
  BY <1>2, LessWritten DEF Structure, TypeOK
<1>3. CASE sockets_write_blocking
  <2>1. tailer \in ToSet(tailers) /\ tailer \in Clients
    BY <1>1, <1>3, Elements DEF sockets_write_blocking, Structure, Phases
  <2>2. \/ UNCHANGED tailers
        \/ WriteLess(tailer, data) /\ tailer_final(tailer)
    BY <1>3 DEF sockets_write_blocking
  <2>3. data \in Seq(0..MaxBytes)
    BY SizesAssumption, SeqMonotonic DEF Structure, TypeOK, DataTypes
  <2>4. WriteLess(tailer, data) =>
          client[tailer] = "gone" \/ (PartialWrites /\ CutShort(tailer))
    BY <1>2, <2>1, <2>3
  <2> QED BY <1>1, <2>1, <2>2, <2>4, Unlinked
<1>4. CASE SendSize \/ SendTail
  <2>1. tailer \in ToSet(tailers) /\ tailer \in Clients
    BY <1>4, SendingType DEF SendSize, SendTail
  <2>2. \/ UNCHANGED tailers
        \/ \E bytes \in Seq(0..MaxBytes) :
             WriteLess(tailer, bytes) /\ tailer_final(tailer)
    <3>1. CASE SendSize
      BY <3>1, SendingType DEF SendSize, SendsLess
    <3>2. CASE SendTail /\ ~ UNCHANGED tailers
      <4>1. PICK n \in 1..ReadSize :
              pos + n <= received /\ SendsLess(Bytes(pos, pos + n))
        BY <3>2 DEF SendTail
      <4>2. /\ pos \in Nat /\ pos + n \in Nat /\ pos <= pos + n /\ pos + n <= MaxBytes
        BY <4>1, SizesAssumption DEF Structure, TypeOK, CountTypes
      <4>3. Bytes(pos, pos + n) \in Seq(0..MaxBytes)
        BY <4>2, BytesType
      <4> QED BY <4>1, <4>3 DEF SendsLess
    <3> QED BY <1>4, <3>1, <3>2
  <2>3. ASSUME NEW bytes \in Seq(0..MaxBytes), WriteLess(tailer, bytes)
        PROVE  client[tailer] = "gone" \/ (PartialWrites /\ CutShort(tailer))
    BY <1>2, <2>1, <2>3
  <2> QED BY <1>1, <2>1, <2>2, <2>3, Unlinked
<1>5. ASSUME NEW d \in Clients, tailer_readable_cb(d)
      PROVE  c \in ToSet(tailers') \/ client[c] = "gone" \/ spoke[c]
  <2>1. d \in pending /\ (client[d] = "gone" \/ spoke[d])
    BY <1>5 DEF tailer_readable_cb, Callers
  <2>2. d \in ToSet(tailers)
    BY <1>5, <2>1, NamesAssumption
       DEF Structure, Phases, tailer_readable_cb, Closed, Active, None, listener, stdin,
           sigint
  <2> QED BY <1>1, <1>5, <2>1, <2>2, Unlinked DEF tailer_readable_cb
<1>6. CASE unix_sock_cb_Accept
  <2>1. /\ backlog \in Seq(Clients) /\ backlog # <<>>
        /\ tailers' = <<Head(backlog)>> \o tailers
    BY <1>6 DEF unix_sock_cb_Accept, Structure, TypeOK, ListTypes
  <2>2. Head(backlog) \in Clients
    BY <2>1, TakeFirst
  <2>3. ToSet(tailers') = ToSet(tailers) \cup {Head(backlog)}
    BY <1>1, <2>1, <2>2, AddFirst
  <2> QED BY <2>3
<1>7. CASE UNCHANGED tailers
  BY <1>7
<1>8. CASE ServerStep
  <2>1. ~ sockets_final
    BY DEF sockets_final
  <2> QED BY <1>3, <1>4, <1>5, <1>6, <1>7, <1>8, <2>1 DEF ServerStep, init_all, Poll,
       Leave, libev_error_handler, sigint_cb, stdin_cb_Read, stdin_cb_Break,
       stdin_cb_Again, tailer_readable_cb_Again, ReadsNothing,
       stdout_write_blocking_or_break, unix_sock_cb, unix_sock_cb_Again,
       unix_sock_cb_Fail, pipes_final, close_stdout
<1>9. CASE Environment \/ UNCHANGED vars
  BY <1>7, <1>9, EnvironmentStep DEF vars
<1> QED BY <1>8, <1>9 DEF Next

\* tailer_write_blocking (sockets.c) blocks for ever without -d: no client is ditched
\* for being slow, unless a write to it was cut short.
THEOREM SlowClientsStay == Spec => BlocksForever
<1> DEFINE A == tailer_block_forever /\ pc # "final" =>
                  \A c \in ToSet(tailers) :
                    \/ c \in ToSet(tailers)' \/ client[c] = "gone" \/ spoke[c]
                    \/ PartialWrites /\ CutShort(c)
<1>1. Structure /\ Waiting /\ Callers /\ [Next]_vars => [A]_vars
  BY OnlyTheGoneAreDitched
<1> QED BY <1>1, WatchersAlways, PTL DEF Spec, BlocksForever
=================================================================================
