------------------------------- MODULE RelayProofs -------------------------------
(***************************************************************************)
(* What Server.tla gives to stdout and to the clients, for every set of    *)
(* clients, every stream and every size of reads and sockets; and that it  *)
(* implements Relay.tla.                                                   *)
(***************************************************************************)
EXTENDS ServerProofs

---------------------------------------------------------------------------------
(***************************************************************************)
(* The inductive invariant of what is written, which rests on Structure.   *)
(***************************************************************************)
\* data is what was read last.
DataIsLast ==
  /\ Len(data) \in 1..received
  /\ \A i \in 1..Len(data) : data[i] = received - Len(data) + i

\* stdout has everything but what stdin_cb is about to write, as long as it is not lost;
\* and when it is lost, or the memory is out, stdin_cb is not called again.
Output ==
  /\ Len(stdout) <= received /\ \A i \in 1..Len(stdout) : stdout[i] = i
  /\ pc \in {"stdout", "broadcast"} =>
       DataIsLast /\ stdin \notin pending /\ ~out_of_memory
  /\ pc = "stdout" => Len(stdout) = received - Len(data)
  /\ pc # "stdout" /\ (~broken \/ stdin \in pending) => Len(stdout) = received
  /\ out_of_memory => broken /\ stdin \notin pending

\* Where the tail of c starts.
Cut(c) == TailCut(joined[c])

\* c was sent the size of its tail and, without a gap, bytes from its cut on.
Sound(c) ==
  /\ sent[c][1] = joined[c] - Cut(c)
  /\ \A i \in 2..Len(sent[c]) : sent[c][i] = Cut(c) + i - 1
  /\ Cut(c) + Len(sent[c]) - 1 <= received

Streams ==
  \A c \in Clients : /\ joined[c] <= received
                     /\ joined[c] = -1 => sent[c] = <<>>
                     /\ sent[c] # <<>> => Sound(c)

\* c was sent the size and all bytes from its cut up to n.
InStep(c, n) == Len(sent[c]) = 1 + n - Cut(c)

\* How far the tailers are at each point of the program: the walk over the list has
\* given data to those before tailer, and the newcomer is behind all others.
UpToDate ==
  /\ ~out_of_memory =>
       /\ pc \in {"run", "accept", "final"} =>
            \A c \in ToSet(tailers) : InStep(c, received)
       /\ pc = "stdout" =>
            \A c \in ToSet(tailers) : InStep(c, received - Len(data))
       /\ pc = "broadcast" =>
            \E p \in 1..Len(tailers) :
              /\ tailers[p] = tailer
              /\ \A i \in 1..Len(tailers) :
                   InStep(tailers[i], IF i < p THEN received ELSE received - Len(data))
       /\ pc \in {"size", "tail"} =>
            \A c \in ToSet(tailers) \ {tailer} : InStep(c, received)
  /\ pc \in {"size", "tail"} => joined[tailer] = received
  /\ pc = "size" => sent[tailer] = <<>>
  /\ pc = "tail" => pos >= Cut(tailer) /\ InStep(tailer, pos)
  /\ \A c \in ToSet(tailers) : sent[c] # <<>> \/ (pc = "size" /\ c = tailer)
---------------------------------------------------------------------------------
LEMMA ReceivedType ==
  ASSUME TypeOK
  PROVE  /\ received \in Nat /\ received <= MaxBytes /\ MaxBytes \in Nat
         /\ Len(stdout) \in Nat /\ Len(data) \in Nat /\ Len(tailers) \in Nat
         /\ \A c \in Clients : Len(sent[c]) \in Nat /\ joined[c] \in Int /\ joined[c] >= -1
<1>1. received \in Nat /\ received <= MaxBytes /\ MaxBytes \in Nat
  BY SizesAssumption DEF TypeOK, CountTypes
<1>2. Len(stdout) \in Nat /\ Len(data) \in Nat /\ Len(tailers) \in Nat
  BY LenProperties DEF TypeOK, DataTypes, ListTypes
<1>3. \A c \in Clients : Len(sent[c]) \in Nat
  BY LenProperties DEF TypeOK, ChannelTypes
<1>4. \A c \in Clients : joined[c] \in Int /\ joined[c] >= -1
  BY DEF TypeOK, ClientTypes
<1> QED BY <1>1, <1>2, <1>3, <1>4
---------------------------------------------------------------------------------
(***************************************************************************)
(* stdout.                                                                 *)
(***************************************************************************)
LEMMA OutputOfReads ==
  ASSUME Structure, Output, stdin_cb_Read \/ stdin_cb_Break
  PROVE  Output'
<1>1. TypeOK /\ pc = "run" /\ stdin \in pending /\ stdin \notin pending' /\ UNCHANGED stdout
  BY DEF Structure, stdin_cb_Read, stdin_cb_Break, Starts
<1>2. /\ received \in Nat /\ MaxBytes \in Nat /\ supplied <= MaxBytes /\ supplied \in Nat
      /\ ReadSize \in Nat
  BY <1>1, SizesAssumption DEF TypeOK, CountTypes
<1>3. Len(stdout) = received /\ (\A i \in 1..Len(stdout) : stdout[i] = i) /\ ~out_of_memory
  BY <1>1 DEF Output
<1>4. CASE stdin_cb_Read
  <2>1. PICK n \in 1..ReadSize : /\ received + n <= supplied
                                 /\ received' = received + n
                                 /\ data' = Bytes(received, received + n)
    BY <1>4 DEF stdin_cb_Read
  <2>2. /\ received + n \in Nat /\ received <= received + n /\ received + n <= MaxBytes
        /\ (received + n) - received = n /\ n \in Nat /\ 1 <= n
    BY <1>2, <2>1
  <2>3. Len(data') = n /\ \A i \in 1..n : data'[i] = received + i
    BY <1>2, <2>1, <2>2, BytesType
  <2>4. DataIsLast'
    <3>1. Len(data') \in 1..received'
      BY <1>2, <2>1, <2>2, <2>3
    <3>2. ASSUME NEW i \in 1..Len(data')
          PROVE  data'[i] = received' - Len(data') + i
      <4>1. data'[i] = received + i
        BY <2>3
      <4>2. received' - Len(data') = received
        BY <1>2, <2>1, <2>2, <2>3
      <4> QED BY <4>1, <4>2
    <3> QED BY <3>1, <3>2 DEF DataIsLast
  <2>5. Len(stdout') = received' - Len(data') /\ Len(stdout') <= received'
    BY <1>1, <1>2, <1>3, <2>1, <2>3
  <2>6. pc' = "stdout" /\ UNCHANGED <<broken, out_of_memory>>
    BY <1>4 DEF stdin_cb_Read, aside
  <2> QED BY <1>1, <1>3, <2>4, <2>5, <2>6 DEF Output
<1>5. CASE stdin_cb_Break
  <2>1. received' \in Nat /\ received <= received' /\ broken' /\ pc' = pc
    BY <1>2, <1>5 DEF stdin_cb_Break
  <2>2. Len(stdout') <= received'
    BY <1>1, <1>2, <1>3, <2>1
  <2> QED BY <1>1, <1>3, <2>1, <2>2 DEF Output
<1> QED BY <1>4, <1>5

LEMMA OutputOfStdout ==
  ASSUME Structure, Output, stdout_write_blocking_or_break
  PROVE  Output'
<1>1. /\ TypeOK /\ DataTypes /\ pc = "stdout" /\ UNCHANGED <<received, pending, out_of_memory>>
      /\ stdin \notin pending
  BY DEF Structure, TypeOK, stdout_write_blocking_or_break, Output, aside
<1>2. /\ Len(stdout) \in Nat /\ Len(data) \in Nat /\ received \in Nat
      /\ Len(stdout) = received - Len(data) /\ DataIsLast /\ ~out_of_memory
      /\ \A i \in 1..Len(stdout) : stdout[i] = i
  BY <1>1, ReceivedType DEF Output
<1>3. PICK ok \in BOOLEAN : stdout_write_blocking(ok) /\ broken' = (broken \/ ~ok)
  BY DEF stdout_write_blocking_or_break
<1>4. PICK n \in 0..Len(data) :
        /\ Len(stdout') = Len(stdout) + n
        /\ \A i \in 1..Len(stdout) : stdout'[i] = stdout[i]
        /\ \A i \in 1..n : stdout'[Len(stdout) + i] = data[i]
        /\ ok => n = Len(data)
  BY <1>1, <1>3, StdoutWritten
<1>5. Len(stdout') <= received'
  BY <1>1, <1>2, <1>4
<1>6. ASSUME NEW i \in 1..Len(stdout') PROVE stdout'[i] = i
  <2>1. CASE i <= Len(stdout)
    <3>1. i \in 1..Len(stdout)
      BY <1>2, <1>4, <2>1
    <3> QED BY <1>2, <1>4, <3>1
  <2>2. CASE ~ (i <= Len(stdout))
    <3>1. /\ i - Len(stdout) \in 1..n /\ i - Len(stdout) \in 1..Len(data)
          /\ Len(stdout) + (i - Len(stdout)) = i
          /\ received - Len(data) + (i - Len(stdout)) = i
      BY <1>2, <1>4, <2>2
    <3>2. stdout'[i] = data[i - Len(stdout)]
      BY <1>4, <3>1
    <3> QED BY <1>2, <3>1, <3>2 DEF DataIsLast
  <2> QED BY <2>1, <2>2
<1>7. pc' \in {"run", "broadcast"} /\ (pc' = "broadcast" => data' = data)
  BY DEF stdout_write_blocking_or_break, Broadcast
<1>8. pc' = "broadcast" => DataIsLast'
  BY <1>1, <1>2, <1>7 DEF DataIsLast
<1>9. ~broken' => ok
  BY <1>3, Zenon
<1>10. ok => Len(stdout') = received'
  <2>1. ok => n = Len(data)
    BY <1>4
  <2>2. n = Len(data) => Len(stdout') = received'
    BY <1>1, <1>2, <1>4
  <2> QED BY <2>1, <2>2, Zenon
<1> QED BY <1>1, <1>2, <1>5, <1>6, <1>7, <1>8, <1>9, <1>10 DEF Output

LEMMA OutputStep ==
  ASSUME Structure, Output, [Next]_vars
  PROVE  Output'
<1>1. CASE /\ UNCHANGED <<stdout, received, out_of_memory>> /\ pending' \subseteq pending
           /\ broken => broken'
           /\ pc # "stdout" /\ pc' # "stdout"
           /\ pc' = "broadcast" => pc = "broadcast" /\ UNCHANGED data
  BY <1>1 DEF Output, DataIsLast
<1>2. CASE UNCHANGED <<stdout, received, out_of_memory, data, pending, broken, pc>>
  BY <1>2 DEF Output, DataIsLast
<1>3. CASE \/ init_all \/ Leave \/ libev_error_handler \/ sigint_cb
           \/ stdin_cb_Again \/ tailer_readable_cb_Again
  <2>1. /\ UNCHANGED <<stdout, received, out_of_memory>> /\ pending' \subseteq pending
        /\ broken' = broken \/ broken' = TRUE
        /\ pc \in {"init", "run"} /\ pc' \in {"run", "final", "atexit", "close_stdin"}
    BY <1>3 DEF init_all, Leave, libev_error_handler, sigint_cb, stdin_cb_Again,
         tailer_readable_cb_Again, ReadsNothing, Starts, serving, aside
  <2> QED BY <1>1, <2>1
<1>4. CASE Poll
  BY <1>4 DEF Poll, Output, serving, aside, Structure
<1>5. CASE stdin_cb_Read \/ stdin_cb_Break
  BY <1>5, OutputOfReads
<1>6. CASE stdout_write_blocking_or_break
  BY <1>6, OutputOfStdout
<1>7. CASE sockets_write_blocking
  BY <1>1, <1>7 DEF sockets_write_blocking, Broadcast, tailer_final, serving, aside
<1>8. CASE unix_sock_cb \/ unix_sock_cb_Accept \/ unix_sock_cb_Again \/ unix_sock_cb_Fail
  <2>1. /\ UNCHANGED <<stdout, received, out_of_memory, broken>> /\ pending' \subseteq pending
        /\ pc \in {"run", "accept"} /\ pc' \in {"run", "accept", "size"}
    BY <1>8 DEF unix_sock_cb, unix_sock_cb_Accept, unix_sock_cb_Again, unix_sock_cb_Fail,
         Starts, serving, aside
  <2> QED BY <1>1, <2>1
<1>9. CASE SendSize \/ SendTail
  <2>1. /\ UNCHANGED <<stdout, received, out_of_memory, broken>> /\ pending' \subseteq pending
        /\ pc \in {"size", "tail"} /\ pc' \in {"run", "tail"}
    BY <1>9 DEF SendSize, SendTail, SendsLess, pipes_on_new_client, tailer_final, serving,
         aside
  <2> QED BY <1>1, <2>1
<1>10. CASE \E c \in Clients : tailer_readable_cb(c)
  BY <1>1, <1>10 DEF tailer_readable_cb, tailer_final, serving, aside
<1>11. CASE sockets_final \/ pipes_final \/ close_stdout
  <2>1. /\ UNCHANGED <<stdout, received, out_of_memory, broken, pending>>
        /\ pc \in {"final", "close_stdin", "atexit"}
        /\ pc' \in {"close_stdin", "atexit", "exited"}
    BY <1>11 DEF sockets_final, pipes_final, close_stdout, serving, aside
  <2> QED BY <1>1, <2>1
<1>12. CASE Environment
  BY <1>2, <1>12, EnvironmentStep DEF serving, control, writing, aside
<1>13. CASE UNCHANGED vars
  BY <1>2, <1>13 DEF vars, serving, control, writing, aside
<1> QED BY <1>3, <1>4, <1>5, <1>6, <1>7, <1>8, <1>9, <1>10, <1>11, <1>12, <1>13
        DEF Next, ServerStep
---------------------------------------------------------------------------------
(***************************************************************************)
(* What the clients are sent.                                              *)
(***************************************************************************)
LEMMA CutType ==
  ASSUME TypeOK, NEW c \in Clients, joined[c] # -1
  PROVE  joined[c] \in Nat /\ Cut(c) \in 0..joined[c]
<1>1. joined[c] \in Nat
  BY ReceivedType
<1> QED BY <1>1, TailCutType DEF Cut

\* The cut of a client does not move.
LEMMA CutsStay ==
  ASSUME [Next]_vars
  PROVE  /\ \A n : TailCut(n)' = TailCut(n)
         /\ \A c : joined'[c] = joined[c] => Cut(c)' = Cut(c)
<1>1. UNCHANGED <<count_lines, n_units, newlines>>
  BY OptionsStay DEF options
<1> QED BY <1>1 DEF Cut, TailCut

LEMMA NothingSent ==
  ASSUME TypeOK, NEW c \in Clients
  PROVE  /\ sent[c] = <<>> <=> Len(sent[c]) = 0
         /\ sent[c] # <<>> => Len(sent[c]) >= 1 /\ 1 \in 1..Len(sent[c])
<1>1. sent[c] \in Seq(0..MaxBytes) /\ Len(sent[c]) \in Nat
  BY LenProperties DEF TypeOK, ChannelTypes
<1>2. sent[c] = <<>> <=> Len(sent[c]) = 0
  BY <1>1, EmptySeq
<1> QED BY <1>1, <1>2

\* Who is in the list has been sent its size, or is about to be.
LEMMA TailerType ==
  ASSUME Structure, NEW c \in ToSet(tailers)
  PROVE  /\ c \in Clients /\ joined[c] # -1 /\ joined[c] \in Nat /\ Cut(c) \in Nat
         /\ Cut(c) <= joined[c]
<1>1. c \in Clients
  BY Elements DEF Structure, TypeOK, ListTypes
<1>2. joined[c] # -1
  BY DEF Structure, Lists
<1> QED BY <1>1, <1>2, CutType DEF Structure

LEMMA SoundStays ==
  ASSUME [Next]_vars, TypeOK, TypeOK', NEW c \in Clients, joined[c] # -1,
         joined'[c] = joined[c], sent'[c] = sent[c], received <= received', Sound(c)
  PROVE  Sound(c)'
<1>1. Cut(c)' = Cut(c) /\ Cut(c) \in Nat /\ Len(sent[c]) \in Nat
  BY CutsStay, CutType, ReceivedType
<1>2. received \in Nat /\ received' \in Nat
  BY DEF TypeOK, CountTypes
<1>3. Cut(c)' + Len(sent'[c]) - 1 <= received'
  BY <1>1, <1>2 DEF Sound
<1> QED BY <1>1, <1>3 DEF Sound

LEMMA SoundGrows ==
  ASSUME [Next]_vars, TypeOK, TypeOK', NEW c \in Clients, joined[c] # -1,
         joined'[c] = joined[c], sent[c] # <<>>, Sound(c), NEW bytes, NEW n \in Nat,
         Len(sent'[c]) = Len(sent[c]) + n,
         \A i \in 1..Len(sent[c]) : sent'[c][i] = sent[c][i],
         \A i \in 1..n : sent'[c][Len(sent[c]) + i] = bytes[i],
         \A i \in 1..n : bytes[i] = Cut(c) + Len(sent[c]) - 1 + i,
         Cut(c) + Len(sent[c]) - 1 + n <= received'
  PROVE  Sound(c)'
<1>1. /\ Cut(c)' = Cut(c) /\ Cut(c) \in Nat /\ Len(sent[c]) \in Nat /\ Len(sent[c]) >= 1
      /\ 1 \in 1..Len(sent[c]) /\ received' \in Nat
  <2>1. Cut(c)' = Cut(c) /\ Cut(c) \in Nat
    BY CutsStay, CutType
  <2>2. Len(sent[c]) \in Nat /\ Len(sent[c]) >= 1 /\ 1 \in 1..Len(sent[c])
    BY ReceivedType, NothingSent
  <2>3. received' \in Nat
    BY DEF TypeOK, CountTypes
  <2> QED BY <2>1, <2>2, <2>3
<1>2. sent'[c][1] = joined'[c] - Cut(c)'
  BY <1>1 DEF Sound
<1>3. ASSUME NEW i \in 2..Len(sent'[c]) PROVE sent'[c][i] = Cut(c)' + i - 1
  <2>1. CASE i <= Len(sent[c])
    <3>1. i \in 1..Len(sent[c]) /\ i \in 2..Len(sent[c])
      BY <1>1, <2>1
    <3> QED BY <1>1, <3>1 DEF Sound
  <2>2. CASE ~ (i <= Len(sent[c]))
    <3> DEFINE j == i - Len(sent[c])
    <3>1. j \in 1..n /\ Len(sent[c]) + j = i
      BY <1>1, <2>2
    <3>2. sent'[c][i] = Cut(c) + Len(sent[c]) - 1 + j
      BY <3>1
    <3>3. Cut(c) + Len(sent[c]) - 1 + j = Cut(c) + i - 1
      BY <1>1, <3>1
    <3> QED BY <1>1, <3>2, <3>3
  <2> QED BY <2>1, <2>2
<1>4. Cut(c)' + Len(sent'[c]) - 1 <= received'
  BY <1>1
<1> QED BY <1>2, <1>3, <1>4 DEF Sound

\* Most steps send nothing.
LEMMA StreamsStay ==
  ASSUME Structure, TypeOK', Streams, [Next]_vars, UNCHANGED <<sent, joined>>,
         received <= received'
  PROVE  Streams'
<1>1. TypeOK /\ received \in Nat /\ received' \in Nat
  BY DEF Structure, TypeOK, CountTypes
<1>2. \A c \in Clients : joined[c] \in Int
  BY <1>1, ReceivedType
<1>3. ASSUME NEW c \in Clients
      PROVE  /\ joined'[c] <= received'
             /\ joined'[c] = -1 => sent'[c] = <<>>
             /\ sent'[c] # <<>> => Sound(c)'
  <2>1. joined'[c] <= received' /\ (joined'[c] = -1 => sent'[c] = <<>>)
    BY <1>1, <1>2 DEF Streams
  <2>2. sent[c] # <<>> => joined[c] # -1 /\ Sound(c)
    BY DEF Streams
  <2> QED BY <1>1, <2>1, <2>2, SoundStays
<1> QED BY <1>3 DEF Streams

\* A write to one client leaves what others were sent alone.
LEMMA StreamsButOne ==
  ASSUME TypeOK, TypeOK', Streams, [Next]_vars, UNCHANGED <<joined, received>>,
         NEW c \in Clients, joined[c] # -1, \A d \in Clients \ {c} : sent'[d] = sent[d],
         sent'[c] # <<>> => Sound(c)'
  PROVE  Streams'
<1>1. received <= received' /\ joined'[c] <= received'
  BY DEF Streams, TypeOK, CountTypes
<1>2. ASSUME NEW d \in Clients \ {c}
      PROVE  /\ joined'[d] <= received'
             /\ joined'[d] = -1 => sent'[d] = <<>>
             /\ sent'[d] # <<>> => Sound(d)'
  <2>1. sent[d] # <<>> => joined[d] # -1 /\ Sound(d)
    BY DEF Streams
  <2>2. sent'[d] = sent[d] /\ joined'[d] = joined[d]
    OBVIOUS
  <2> QED BY <1>1, <2>1, <2>2, SoundStays DEF Streams
<1> QED BY <1>1, <1>2 DEF Streams

\* A write to one client, who had been sent something before.
LEMMA StreamGrows ==
  ASSUME Structure, TypeOK', Streams, [Next]_vars, UNCHANGED <<joined, received>>,
         NEW c \in ToSet(tailers), sent[c] # <<>>, NEW m \in Nat, InStep(c, m),
         NEW bytes \in Seq(0..MaxBytes), WriteAll(c, bytes) \/ WriteLess(c, bytes),
         \A i \in 1..Len(bytes) : bytes[i] = m + i, m + Len(bytes) <= received
  PROVE  /\ Streams'
         /\ \A d \in Clients \ {c} : sent'[d] = sent[d]
         /\ sent'[c] # <<>>
         /\ WriteAll(c, bytes) => InStep(c, m + Len(bytes))'
<1>1. /\ TypeOK /\ c \in Clients /\ joined[c] # -1 /\ joined[c] \in Nat /\ Cut(c) \in Nat
      /\ Len(sent[c]) \in Nat /\ Len(sent[c]) >= 1 /\ received \in Nat
      /\ Len(bytes) \in Nat /\ Cut(c)' = Cut(c)
  BY TailerType, ReceivedType, NothingSent, CutsStay, LenProperties DEF Structure
<1>2. PICK n \in 0..Len(bytes) :
        /\ \A d \in Clients \ {c} : sent'[d] = sent[d]
        /\ Len(sent'[c]) = Len(sent[c]) + n
        /\ \A i \in 1..Len(sent[c]) : sent'[c][i] = sent[c][i]
        /\ \A i \in 1..n : sent'[c][Len(sent[c]) + i] = bytes[i]
        /\ WriteAll(c, bytes) => n = Len(bytes)
  <2>1. ChannelTypes
    BY DEF Structure, TypeOK
  <2> QED BY <1>1, <2>1, Written
<1>3. Cut(c) + Len(sent[c]) - 1 = m
  BY <1>1 DEF InStep
<1>4. \A i \in 1..n : bytes[i] = Cut(c) + Len(sent[c]) - 1 + i
  <2>1. \A i \in 1..n : i \in 1..Len(bytes)
    BY <1>1
  <2> QED BY <1>3, <2>1
<1>5. Cut(c) + Len(sent[c]) - 1 + n <= received' /\ n \in Nat
  BY <1>1, <1>3
<1>6. Sound(c)'
  <2>1. Sound(c)
    BY <1>1 DEF Streams
  <2> QED BY <1>1, <1>2, <1>4, <1>5, <2>1, SoundGrows
<1>7. sent'[c] # <<>>
  <2>1. Len(sent'[c]) # 0
    BY <1>1, <1>2, <1>5
  <2> QED BY <1>1, <2>1, EmptySeq
<1>8. Streams'
  BY <1>1, <1>2, <1>6, StreamsButOne
<1>9. WriteAll(c, bytes) => InStep(c, m + Len(bytes))'
  <2>1. ASSUME n = Len(bytes) PROVE Len(sent'[c]) = 1 + (m + Len(bytes)) - Cut(c)'
    <3>1. Len(sent'[c]) = Len(sent[c]) + Len(bytes)
      BY <1>2, <2>1
    <3>2. Len(sent[c]) = 1 + m - Cut(c)
      BY DEF InStep
    <3>3. 1 + m - Cut(c) + Len(bytes) = 1 + (m + Len(bytes)) - Cut(c)
      BY <1>1
    <3> QED BY <1>1, <3>1, <3>2, <3>3
  <2> QED BY <1>2, <2>1 DEF InStep
<1> QED BY <1>2, <1>7, <1>8, <1>9
---------------------------------------------------------------------------------
(***************************************************************************)
(* Sending the size and the tail.                                          *)
(***************************************************************************)
\* unix_sock_cb is done with the newcomer, who is gone or up to date.
LEMMA NewcomerIsDone ==
  ASSUME Structure, UpToDate, [Next]_vars, UNCHANGED <<joined, received, out_of_memory>>,
         pc \in {"size", "tail"}, pc' = "run",
         \A d \in Clients \ {tailer} : sent'[d] = sent[d],
         ToSet(tailers') \subseteq ToSet(tailers),
         tailer \in ToSet(tailers') =>
           sent'[tailer] = sent[tailer] /\ sent[tailer] # <<>> /\ InStep(tailer, received)
  PROVE  UpToDate'
<1>1. ASSUME NEW c \in ToSet(tailers')
      PROVE  /\ sent'[c] = sent[c] /\ sent[c] # <<>> /\ Cut(c)' = Cut(c)
             /\ ~out_of_memory => InStep(c, received)
  <2>1. c \in Clients /\ Cut(c)' = Cut(c)
    BY TailerType, CutsStay
  <2> QED BY <2>1 DEF UpToDate
<1>2. ASSUME NEW c \in ToSet(tailers'), ~out_of_memory PROVE InStep(c, received)'
  BY <1>1, <1>2 DEF InStep
<1> QED BY <1>1, <1>2 DEF UpToDate

\* Or a part was sent and the others are as they were.
LEMMA NewcomerGoesOn ==
  ASSUME Structure, UpToDate, [Next]_vars, UNCHANGED <<joined, received, out_of_memory>>,
         NEW c, tailer = c, UNCHANGED <<tailer, tailers>>,
         pc \in {"size", "tail"}, pc' = "tail",
         \A d \in Clients \ {c} : sent'[d] = sent[d], sent'[c] # <<>>,
         NEW m, pos' = m, Len(sent'[c]) = 1 + m - Cut(c), m >= Cut(c)
  PROVE  UpToDate'
<1>1. c \in ToSet(tailers) /\ c \in Clients
  BY TailerType DEF Structure, Phases
<1>2. Cut(c)' = Cut(c) /\ Cut(tailer)' = Cut(c)'
  BY CutsStay DEF Cut, TailCut
<1>3. InStep(tailer, pos)' /\ pos' >= Cut(tailer)'
  BY <1>2 DEF InStep
<1>4. ASSUME NEW d \in ToSet(tailers) \ {c}
      PROVE  /\ sent'[d] # <<>> /\ (~out_of_memory => InStep(d, received)')
  <2>1. d \in Clients \ {c} /\ Cut(d)' = Cut(d)
    BY TailerType, CutsStay
  <2>2. /\ sent'[d] = sent[d] /\ sent[d] # <<>>
        /\ ~out_of_memory => InStep(d, received)
    BY <2>1 DEF UpToDate
  <2> QED BY <2>1, <2>2 DEF InStep
<1>5. joined'[tailer'] = received'
  BY DEF UpToDate
<1> QED BY <1>3, <1>4, <1>5 DEF UpToDate

\* What holds when the size has been sent, or was not.
LEMMA SizeIsSent ==
  ASSUME Structure, TypeOK', Streams, UpToDate, [Next]_vars, SendSize
  PROVE  Streams' /\ UpToDate'
<1> DEFINE size == <<received - TailCut(received)>>
<1> SUFFICES ASSUME NEW c, tailer = c PROVE Streams' /\ UpToDate'
  OBVIOUS
<1>1. /\ TypeOK /\ pc = "size" /\ UNCHANGED <<joined, received, out_of_memory>>
  BY DEF Structure, SendSize, SendsLess, pipes_on_new_client, aside, conns, serving
<1>2. /\ tailers \in Seq(Clients) /\ IsInjective(tailers)
      /\ c \in ToSet(tailers) /\ c \in Clients /\ joined[c] # -1 /\ joined[c] = received
      /\ sent[c] = <<>> /\ Cut(c) = TailCut(received) /\ Cut(c)' = Cut(c)
      /\ received \in Nat /\ Cut(c) \in 0..received
      /\ size \in Seq(0..MaxBytes) /\ Len(size) = 1 /\ size[1] = received - Cut(c)
  <2>1. /\ tailers \in Seq(Clients) /\ IsInjective(tailers)
        /\ c \in ToSet(tailers) /\ c \in Clients
        /\ size \in Seq(0..MaxBytes) /\ Len(size) = 1
        /\ received \in Nat /\ TailCut(received) \in 0..received
    BY <1>1, SendingType
  <2>2. joined[c] = received /\ Cut(c) = TailCut(received) /\ sent[c] = <<>>
    BY <1>1 DEF UpToDate, Cut
  <2>3. joined[c] # -1 /\ Cut(c)' = Cut(c)
    BY <1>1, <2>1, TailerType, CutsStay
  <2> QED BY <2>1, <2>2, <2>3
<1>3. PICK n \in 0..Len(size) :
        /\ \A d \in Clients \ {c} : sent'[d] = sent[d]
        /\ Len(sent'[c]) = Len(sent[c]) + n
        /\ \A i \in 1..n : sent'[c][Len(sent[c]) + i] = size[i]
        /\ WriteAll(c, size) => n = 1
        /\ WriteLess(c, size) => n = 0
  <2>1. WriteAll(c, size) \/ WriteLess(c, size)
    BY DEF SendSize, SendsLess
  <2>2. ChannelTypes
    BY <1>1 DEF TypeOK
  <2> QED BY <1>2, <2>1, <2>2, Written, ZenonT(60)
<1>4. Len(sent[c]) = 0 /\ Len(sent'[c]) = n /\ n \in {0, 1}
  <2>1. Len(sent[c]) = 0
    BY <1>2, EmptySeq
  <2>2. n \in {0, 1}
    BY <1>2
  <2> QED BY <1>3, <2>1, <2>2
<1>5. CASE /\ WriteAll(c, size)
           /\ pos' = TailCut(received) /\ pc' = "tail" /\ UNCHANGED <<tailer, tailers>>
  <2>1. n = 1 /\ Len(sent'[c]) = 1 /\ sent'[c][1] = received - Cut(c)
    <3>1. n = 1 /\ Len(sent'[c]) = 1 /\ 1 \in 1..n /\ Len(sent[c]) + 1 = 1
      BY <1>3, <1>4, <1>5
    <3> QED BY <1>2, <1>3, <3>1
  <2>2. Sound(c)'
    <3>1. sent'[c][1] = joined'[c] - Cut(c)'
      BY <1>1, <1>2, <2>1
    <3>2. ~ \E i \in 2..Len(sent'[c]) : TRUE
      BY <2>1
    <3>3. Cut(c)' + Len(sent'[c]) - 1 <= received'
      BY <1>1, <1>2, <2>1
    <3> QED BY <3>1, <3>2, <3>3 DEF Sound
  <2>3. Streams'
    BY <1>1, <1>2, <1>3, <2>2, StreamsButOne
  <2>4. sent'[c] # <<>>
    <3>1. Len(sent'[c]) # 0
      BY <2>1
    <3> QED BY <3>1, EmptySeq
  <2>5. Len(sent'[c]) = 1 + Cut(c) - Cut(c) /\ Cut(c) >= Cut(c)
    BY <1>2, <2>1
  <2>6. UpToDate'
    BY <1>1, <1>2, <1>3, <1>5, <2>4, <2>5, NewcomerGoesOn
  <2> QED BY <2>3, <2>6
<1>6. CASE WriteLess(c, size) /\ tailer_final(c) /\ pc' = "run"
  <2>1. sent'[c] = <<>>
    <3>1. sent'[c] \in Seq(0..MaxBytes) /\ Len(sent'[c]) = 0
      BY <1>2, <1>3, <1>4, <1>6 DEF TypeOK, ChannelTypes
    <3> QED BY <3>1, EmptySeq
  <2>2. Streams'
    BY <1>1, <1>2, <1>3, <2>1, StreamsButOne
  <2>3. ToSet(tailers') = ToSet(tailers) \ {c}
    BY <1>2, <1>6, Unlinked
  <2>4. UpToDate'
    BY <1>1, <1>3, <1>6, <2>3, NewcomerIsDone
  <2> QED BY <2>2, <2>4
<1> QED BY <1>5, <1>6 DEF SendSize, SendsLess, pipes_on_new_client

\* The same of the tail, chunk by chunk.
LEMMA TailIsSent ==
  ASSUME Structure, TypeOK', Streams, UpToDate, [Next]_vars, SendTail
  PROVE  Streams' /\ UpToDate'
<1> SUFFICES ASSUME NEW c, tailer = c, NEW m, pos = m PROVE Streams' /\ UpToDate'
  OBVIOUS
<1>1. /\ TypeOK /\ pc = "tail" /\ UNCHANGED <<joined, received, out_of_memory>>
  BY DEF Structure, SendTail, SendsLess, pipes_on_new_client, aside, conns, serving
<1>2. /\ tailers \in Seq(Clients) /\ IsInjective(tailers)
      /\ c \in ToSet(tailers) /\ c \in Clients /\ received \in Nat
      /\ received <= MaxBytes /\ m \in Nat /\ m <= received
  BY <1>1, SendingType DEF TypeOK, CountTypes
<1>3. /\ InStep(c, m) /\ m >= Cut(c) /\ joined[c] = received /\ sent[c] # <<>>
      /\ Cut(c)' = Cut(c) /\ Cut(c) \in Nat
  BY <1>1, <1>2, TailerType, CutsStay DEF UpToDate
<1>4. CASE m = received /\ pipes_on_new_client /\ UNCHANGED <<channel, tailers, pending>>
  <2>1. UNCHANGED <<sent, tailers>> /\ pc' = "run"
    BY <1>4 DEF channel, pipes_on_new_client
  <2>2. received <= received'
    BY <1>1, <1>2
  <2>3. Streams'
    BY <1>1, <2>1, <2>2, StreamsStay
  <2>4. UpToDate'
    BY <1>1, <1>3, <1>4, <2>1, NewcomerIsDone
  <2> QED BY <2>3, <2>4
<1>5. ASSUME NEW n \in 1..ReadSize, m + n <= received,
             \/ /\ WriteAll(c, Bytes(m, m + n)) /\ pos' = m + n
                /\ UNCHANGED <<pc, tailer, tailers>>
             \/ SendsLess(Bytes(m, m + n))
      PROVE  Streams' /\ UpToDate'
  <2> DEFINE bytes == Bytes(m, m + n)
  <2>1. /\ bytes \in Seq(0..MaxBytes) /\ Len(bytes) = n
        /\ \A i \in 1..Len(bytes) : bytes[i] = m + i
        /\ n \in Nat
    <3>1. /\ m + n \in Nat /\ m <= m + n /\ m + n <= MaxBytes
          /\ (m + n) - m = n /\ n \in Nat
      BY <1>2, <1>5, SizesAssumption
    <3> QED BY <1>2, <3>1, BytesType
  <2> HIDE DEF bytes
  <2>2. WriteAll(c, bytes) \/ WriteLess(c, bytes)
    BY <1>5 DEF bytes, SendsLess
  <2>3. m + Len(bytes) <= received
    BY <1>5, <2>1
  <2>4. /\ Streams'
        /\ \A d \in Clients \ {c} : sent'[d] = sent[d]
        /\ sent'[c] # <<>>
        /\ WriteAll(c, bytes) => InStep(c, m + Len(bytes))'
    <3> HIDE <1>5
    <3> QED BY <1>1, <1>2, <1>3, <2>1, <2>2, <2>3, StreamGrows
  <2>5. CASE SendsLess(bytes)
    <3>1. tailer_final(c) /\ pc' = "run"
      BY <2>5 DEF SendsLess, pipes_on_new_client
    <3>2. ToSet(tailers') = ToSet(tailers) \ {c}
      BY <1>2, <3>1, Unlinked
    <3> QED BY <1>1, <2>4, <3>1, <3>2, NewcomerIsDone
  <2>6. CASE /\ WriteAll(c, bytes) /\ pos' = m + n
             /\ UNCHANGED <<pc, tailer, tailers>>
    <3>1. Len(sent'[c]) = 1 + (m + n) - Cut(c)
      BY <1>3, <2>1, <2>4, <2>6 DEF InStep
    <3>2. m + n >= Cut(c)
      BY <1>2, <1>3, <2>1
    <3> QED BY <1>1, <2>4, <2>6, <3>1, <3>2, NewcomerGoesOn
  <2> QED BY <1>5, <2>5, <2>6 DEF bytes
<1> QED BY <1>4, <1>5 DEF SendTail
---------------------------------------------------------------------------------
(***************************************************************************)
(* The walk over the list of tailers.                                      *)
(***************************************************************************)
\* The walk is at the place q, and those before it have been sent data.
LEMMA WalkIsAt ==
  ASSUME TypeOK', NEW r, received' = r, NEW n, Len(data') = n,
         pc' = "broadcast", NEW q \in 1..Len(tailers'), tailers'[q] = tailer',
         \A j \in 1..Len(tailers') : \A c : tailers'[j] = c =>
           /\ sent'[c] # <<>>
           /\ Len(sent'[c]) = 1 + (IF j < q THEN r ELSE r - n) - Cut(c)'
  PROVE  UpToDate'
<1>1. ASSUME NEW j \in 1..Len(tailers')
      PROVE  InStep(tailers[j], IF j < q THEN received ELSE received - Len(data))'
  <2>1. PICK c : tailers'[j] = c
    OBVIOUS
  <2>2. Len(sent'[c]) = 1 + (IF j < q THEN r ELSE r - n) - Cut(c)'
    BY <2>1
  <2>3. Cut(tailers[j])' = Cut(c)'
    BY <2>1 DEF Cut, TailCut
  <2> QED BY <2>1, <2>2, <2>3 DEF InStep
<1>2. ASSUME NEW c \in ToSet(tailers') PROVE sent'[c] # <<>>
  <2>1. PICK j \in 1..Len(tailers') : tailers'[j] = c
    BY Elements DEF TypeOK, ListTypes
  <2> QED BY <2>1
<1> QED BY <1>1, <1>2 DEF UpToDate

\* The walk is over and all have been sent data.
LEMMA WalkIsOver ==
  ASSUME TypeOK', NEW r, received' = r, pc' = "run",
         \A j \in 1..Len(tailers') : \A c : tailers'[j] = c =>
           sent'[c] # <<>> /\ Len(sent'[c]) = 1 + r - Cut(c)'
  PROVE  UpToDate'
<1>1. ASSUME NEW c \in ToSet(tailers') PROVE sent'[c] # <<>> /\ InStep(c, received)'
  <2>1. PICK j \in 1..Len(tailers') : tailers'[j] = c
    BY Elements DEF TypeOK, ListTypes
  <2> QED BY <2>1 DEF InStep
<1> QED BY <1>1 DEF UpToDate

\* Who is sent data is at the place p of the list. The walk goes on with the next place,
\* or with the same one when the tailer there was taken out.
LEMMA WalkGoesOn ==
  ASSUME Structure, TypeOK', [Next]_vars, sockets_write_blocking,
         NEW r \in Nat, received = r, NEW n \in Nat, Len(data) = n,
         NEW p \in 1..Len(tailers), tailers[p] = tailer,
         \A i \in 1..Len(tailers) : \A c : tailers[i] = c =>
           /\ sent'[c] # <<>>
           /\ i # p \/ UNCHANGED tailers =>
                Len(sent'[c]) = 1 + (IF i <= p THEN r ELSE r - n) - Cut(c)',
         UNCHANGED tailers \/ tailer_final(tailer)
  PROVE  UpToDate'
<1>1. /\ received' = r /\ tailer' = next(tailer)
      /\ tailers \in Seq(Clients) /\ IsInjective(tailers) /\ tailer \in ToSet(tailers)
  BY DEF Structure, TypeOK, ListTypes, Lists, Phases, sockets_write_blocking, Broadcast,
         serving
<1>2. Len(tailers) \in Nat /\ DOMAIN tailers = 1..Len(tailers)
  BY <1>1, Elements
<1>3. Place(tailer) = p
  <2>1. Place(tailer) \in 1..Len(tailers) /\ tailers[Place(tailer)] = tailer
    BY <1>1, PlaceOfTailer
  <2> QED BY <1>1, <1>2, <2>1 DEF IsInjective
<1>4. IF p = Len(tailers)
      THEN pc' = "run"
      ELSE /\ p + 1 \in 1..Len(tailers) /\ tailer' = tailers[p + 1]
           /\ pc' = "broadcast" /\ Len(data') = n
  <2>1. IF p = Len(tailers)
        THEN next(tailer) = None
        ELSE /\ p + 1 \in 1..Len(tailers)
             /\ next(tailer) = tailers[p + 1] /\ next(tailer) # None
    <3>1. None \notin Clients
      BY NamesAssumption
    <3> QED BY <1>1, <1>3, <3>1, NextTailer, Elements
  <2> QED BY <1>1, <2>1 DEF sockets_write_blocking, Broadcast
<1>5. CASE UNCHANGED tailers
  <2>1. CASE p = Len(tailers)
    <3>1. ASSUME NEW i \in 1..Len(tailers) PROVE i <= p
      <4>1. i \in Nat /\ i <= Len(tailers)
        BY <1>2
      <4> QED BY <2>1, <4>1
    <3> QED BY <1>1, <1>4, <1>5, <2>1, <3>1, WalkIsOver
  <2>2. CASE p # Len(tailers)
    <3>1. \A i \in 1..Len(tailers) : i < p + 1 <=> i <= p
      BY <1>2
    <3>2. p + 1 \in 1..Len(tailers') /\ tailers'[p + 1] = tailer'
      BY <1>4, <1>5, <2>2
    <3>3. \A i \in 1..Len(tailers') : \A c : tailers'[i] = c =>
            /\ sent'[c] # <<>>
            /\ Len(sent'[c]) = 1 + (IF i < p + 1 THEN r ELSE r - n) - Cut(c)'
      BY <1>5, <3>1
    <3> HIDE <1>5
    <3> QED BY <1>1, <1>4, <2>2, <3>2, <3>3, WalkIsAt
  <2> QED BY <2>1, <2>2
<1>6. CASE tailer_final(tailer)
  <2>1. /\ Len(tailers') = Len(tailers) - 1
        /\ \A j \in 1..(Len(tailers) - 1) :
             tailers'[j] = IF j < p THEN tailers[j] ELSE tailers[j + 1]
    BY <1>1, <1>3, <1>6, Unlinked
  <2>2. ASSUME NEW j \in 1..Len(tailers'), NEW c, tailers'[j] = c
        PROVE  /\ sent'[c] # <<>>
               /\ Len(sent'[c]) = 1 + (IF j < p THEN r ELSE r - n) - Cut(c)'
    <3>1. j \in Nat /\ j \in 1..(Len(tailers) - 1)
      BY <1>2, <2>1
    <3>2. CASE j < p
      <4>1. j \in 1..Len(tailers) /\ j # p /\ j <= p /\ tailers[j] = c
        BY <1>2, <2>1, <2>2, <3>1, <3>2
      <4> QED BY <3>2, <4>1
    <3>3. CASE ~ (j < p)
      <4>1. j + 1 \in 1..Len(tailers) /\ j + 1 # p /\ ~ (j + 1 <= p) /\ tailers[j + 1] = c
        BY <1>2, <2>1, <2>2, <3>1, <3>3
      <4> QED BY <3>3, <4>1
    <3> QED BY <3>2, <3>3
  <2>3. CASE p = Len(tailers)
    <3>1. ASSUME NEW j \in 1..Len(tailers') PROVE j < p
      <4>1. j \in 1..(Len(tailers) - 1)
        BY <2>1
      <4>2. j \in Nat /\ j < Len(tailers)
        BY <1>2, <4>1
      <4> QED BY <2>3, <4>2
    <3>2. \A j \in 1..Len(tailers') : \A c : tailers'[j] = c =>
            sent'[c] # <<>> /\ Len(sent'[c]) = 1 + r - Cut(c)'
      BY <2>2, <3>1
    <3> HIDE <2>2, <1>6
    <3> QED BY <1>1, <1>4, <2>3, <3>2, WalkIsOver
  <2>4. CASE p # Len(tailers)
    <3>1. p \in 1..Len(tailers') /\ tailers'[p] = tailer'
      <4>1. p \in 1..(Len(tailers) - 1) /\ ~ (p < p)
        <5>1. \A m \in Nat : \A k \in 1..m : k # m => k \in 1..(m - 1) /\ ~ (k < k)
          OBVIOUS
        <5> QED BY <1>2, <2>4, <5>1, Zenon
      <4>2. tailer' = tailers[p + 1]
        BY <1>4, <2>4
      <4> HIDE <1>6, <2>2
      <4> QED BY <2>1, <4>1, <4>2
    <3>2. pc' = "broadcast" /\ Len(data') = n
      BY <1>4, <2>4
    <3>3. \A j \in 1..Len(tailers') : \A c : tailers'[j] = c =>
            /\ sent'[c] # <<>>
            /\ Len(sent'[c]) = 1 + (IF j < p THEN r ELSE r - n) - Cut(c)'
      BY <2>2
    <3> HIDE <2>2, <1>6
    <3> QED BY <1>1, <3>1, <3>2, <3>3, WalkIsAt
  <2> QED BY <2>3, <2>4
<1> QED BY <1>5, <1>6

\* One turn of the loop of sockets_write_blocking.
LEMMA DataIsSent ==
  ASSUME Structure, TypeOK', Streams, Output, UpToDate, [Next]_vars,
         sockets_write_blocking
  PROVE  Streams' /\ UpToDate'
<1> SUFFICES ASSUME NEW t, tailer = t, NEW r, received = r, NEW n, Len(data) = n
             PROVE  Streams' /\ UpToDate'
  OBVIOUS
<1>1. /\ TypeOK /\ pc = "broadcast" /\ UNCHANGED <<joined, received>>
      /\ ~out_of_memory /\ DataIsLast
      /\ tailers \in Seq(Clients) /\ IsInjective(tailers)
      /\ t \in ToSet(tailers) /\ t \in Clients
  BY TailerType DEF Structure, TypeOK, ListTypes, Lists, Phases, Output,
         sockets_write_blocking, serving, conns
<1>2. /\ r \in Nat /\ n \in 1..r /\ n \in Nat /\ r - n \in Nat /\ (r - n) + n = r
      /\ \A i \in 1..n : data[i] = (r - n) + i
  <2>1. r \in Nat /\ n \in 1..r /\ \A i \in 1..n : data[i] = r - n + i
    BY <1>1, ReceivedType DEF DataIsLast
  <2> QED BY <2>1
<1>3. PICK p \in 1..Len(tailers) :
        /\ tailers[p] = t
        /\ \A i \in 1..Len(tailers) : InStep(tailers[i], IF i < p THEN r ELSE r - n)
  BY <1>1 DEF UpToDate
<1>4. p \in Nat /\ ~ (p < p) /\ InStep(t, r - n)
  <2>1. p \in Nat /\ ~ (p < p)
    BY <1>1, LenProperties
  <2> QED BY <1>3, <2>1
<1>5. data \in Seq(0..MaxBytes)
  BY <1>1, SizesAssumption, SeqMonotonic DEF TypeOK, DataTypes
<1>6. \/ WriteAll(t, data) /\ UNCHANGED tailers
      \/ WriteLess(t, data) /\ tailer_final(t)
  BY DEF sockets_write_blocking
<1>7. sent[t] # <<>>
  BY <1>1 DEF UpToDate
<1>8. /\ Streams'
      /\ \A d \in Clients \ {t} : sent'[d] = sent[d]
      /\ sent'[t] # <<>>
      /\ WriteAll(t, data) => InStep(t, (r - n) + n)'
  <2>1. WriteAll(t, data) \/ WriteLess(t, data)
    BY <1>6
  <2>2. (r - n) + Len(data) <= received
    BY <1>2
  <2> QED BY <1>1, <1>2, <1>4, <1>5, <1>7, <2>1, <2>2, StreamGrows
<1>9. ASSUME NEW i \in 1..Len(tailers), NEW c, tailers[i] = c
      PROVE  /\ sent'[c] # <<>>
             /\ i # p \/ UNCHANGED tailers =>
                  Len(sent'[c]) = 1 + (IF i <= p THEN r ELSE r - n) - Cut(c)'
  <2>1. c \in ToSet(tailers) /\ c \in Clients /\ Cut(c)' = Cut(c) /\ i \in Nat
    BY <1>1, <1>9, Elements, CutsStay
  <2>2. CASE i = p
    <3>1. UNCHANGED tailers => WriteAll(t, data)
      <4>1. Len(tailers) \in Nat
        BY <1>1, LenProperties
      <4>2. tailer_final(t) => Len(tailers') = Len(tailers) - 1
        BY <1>1, Unlinked
      <4> QED BY <1>6, <4>1, <4>2
    <3>2. c = t
      BY <1>3, <1>9, <2>2
    <3>3. WriteAll(t, data) => Len(sent'[t]) = 1 + r - Cut(t)'
      BY <1>2, <1>8 DEF InStep
    <3>4. i <= p
      BY <2>1, <2>2
    <3> QED BY <1>8, <2>2, <3>1, <3>2, <3>3, <3>4
  <2>3. CASE i # p
    <3>1. c # t
      BY <1>1, <1>3, <1>9, <2>3, LenProperties DEF IsInjective
    <3>2. sent'[c] = sent[c] /\ sent[c] # <<>>
      BY <1>1, <1>8, <2>1, <3>1 DEF UpToDate
    <3>3. (i <= p <=> i < p)
      BY <1>4, <2>1, <2>3
    <3>4. InStep(c, IF i < p THEN r ELSE r - n)
      BY <1>3, <1>9
    <3> QED BY <2>1, <3>2, <3>3, <3>4 DEF InStep
  <2> QED BY <2>2, <2>3
<1>10. UNCHANGED tailers \/ tailer_final(tailer)
  BY <1>6
<1>11. UpToDate'
  BY <1>2, <1>3, <1>9, <1>10, WalkGoesOn
<1> QED BY <1>8, <1>11
---------------------------------------------------------------------------------
(***************************************************************************)
(* The other steps.                                                        *)
(***************************************************************************)
\* Nothing is read or written.
LEMMA NothingIsSent ==
  ASSUME Structure, UpToDate, [Next]_vars, UNCHANGED <<sent, joined, received>>,
         out_of_memory => out_of_memory',
         ToSet(tailers') \subseteq ToSet(tailers), pc # "size",
         pc' \notin {"stdout", "broadcast", "size", "tail"},
         pc' \in {"run", "accept", "final"} => pc \in {"run", "accept", "final"}
  PROVE  UpToDate'
<1>1. ASSUME NEW c \in ToSet(tailers')
      PROVE  /\ sent'[c] # <<>>
             /\ ~out_of_memory' /\ pc' \in {"run", "accept", "final"} => InStep(c, received)'
  <2>1. c \in Clients /\ Cut(c)' = Cut(c)
    BY TailerType, CutsStay
  <2>2. /\ sent'[c] = sent[c] /\ sent[c] # <<>>
        /\ ~out_of_memory' /\ pc' \in {"run", "accept", "final"} => InStep(c, received)
    BY <2>1 DEF UpToDate
  <2> QED BY <2>1, <2>2 DEF InStep
<1> QED BY <1>1 DEF UpToDate

LEMMA WhileReading ==
  ASSUME Structure, Streams, UpToDate, Output', [Next]_vars,
         stdin_cb_Read \/ stdin_cb_Break, TypeOK'
  PROVE  Streams' /\ UpToDate'
<1>1. /\ TypeOK /\ pc = "run" /\ UNCHANGED <<sent, joined, tailers>>
  BY DEF Structure, stdin_cb_Read, stdin_cb_Break, Starts, conns, channel
<1>2. received \in Nat /\ received' \in Nat /\ received <= received'
  BY <1>1 DEF TypeOK, CountTypes, stdin_cb_Read, stdin_cb_Break
<1>3. Streams'
  BY <1>1, <1>2, StreamsStay
<1>4. \A c \in ToSet(tailers) : c \in Clients /\ sent[c] # <<>> /\ Cut(c)' = Cut(c)
  BY <1>1, TailerType, CutsStay DEF UpToDate
<1>5. CASE stdin_cb_Read
  <2>1. pc' = "stdout" /\ UNCHANGED out_of_memory
    BY <1>5 DEF stdin_cb_Read, aside
  <2>2. received' - Len(data') = received
    <3>1. PICK n \in 1..ReadSize : /\ received + n <= supplied
                                   /\ received' = received + n
                                   /\ data' = Bytes(received, received + n)
      BY <1>5 DEF stdin_cb_Read
    <3>2. /\ received + n \in Nat /\ received <= received + n /\ received + n <= MaxBytes
          /\ (received + n) - received = n
      BY <1>1, <1>2, <3>1, SizesAssumption DEF TypeOK, CountTypes
    <3>3. Len(data') = n
      BY <1>2, <3>1, <3>2, BytesType
    <3> QED BY <1>2, <3>1, <3>3
  <2>3. ASSUME NEW c \in ToSet(tailers), ~out_of_memory
        PROVE  InStep(c, received - Len(data))'
    <3>1. InStep(c, received)
      BY <1>1, <2>3 DEF UpToDate
    <3> QED BY <1>1, <1>4, <2>2, <3>1 DEF InStep
  <2> QED BY <1>1, <1>3, <1>4, <2>1, <2>3 DEF UpToDate
<1>6. CASE stdin_cb_Break
  <2>1. pc' = "run" /\ (out_of_memory' \/ UNCHANGED <<received, out_of_memory>>)
    BY <1>1, <1>6 DEF stdin_cb_Break
  <2>2. CASE out_of_memory'
    BY <1>1, <1>3, <1>4, <2>1, <2>2 DEF UpToDate
  <2>3. CASE UNCHANGED <<received, out_of_memory>>
    BY <1>1, <1>3, <2>1, <2>3, NothingIsSent
  <2> QED BY <1>3, <2>1, <2>2, <2>3
<1> QED BY <1>5, <1>6

LEMMA WhileWritingStdout ==
  ASSUME Structure, Streams, Output, UpToDate, [Next]_vars, stdout_write_blocking_or_break,
         TypeOK'
  PROVE  Streams' /\ UpToDate'
<1> SUFFICES ASSUME NEW r, received = r, NEW n, Len(data) = n
             PROVE  Streams' /\ UpToDate'
  OBVIOUS
<1>1. /\ TypeOK /\ pc = "stdout" /\ UNCHANGED <<sent, joined, tailers, received>>
      /\ ~out_of_memory /\ tailers \in Seq(Clients)
  BY DEF Structure, TypeOK, ListTypes, stdout_write_blocking_or_break, conns, channel, Output
<1>2. received \in Nat /\ received <= received'
  BY <1>1 DEF TypeOK, CountTypes
<1>3. Streams'
  BY <1>1, <1>2, StreamsStay
<1>4. ASSUME NEW j \in 1..Len(tailers'), NEW c, tailers'[j] = c
      PROVE  sent'[c] # <<>> /\ Len(sent'[c]) = 1 + (r - n) - Cut(c)'
  <2>1. c \in ToSet(tailers) /\ Cut(c)' = Cut(c)
    BY <1>1, <1>4, Elements, CutsStay
  <2>2. sent[c] # <<>> /\ InStep(c, r - n)
    BY <1>1, <2>1 DEF UpToDate
  <2> QED BY <1>1, <2>1, <2>2 DEF InStep
<1>5. CASE tailers = <<>>
  <2>1. pc' = "run"
    BY <1>1, <1>5, FirstTailerType DEF stdout_write_blocking_or_break, Broadcast
  <2>2. ToSet(tailers') = {}
    BY <1>1, <1>5 DEF ToSet
  <2> QED BY <1>3, <2>1, <2>2 DEF UpToDate
<1>6. CASE tailers # <<>>
  <2>1. 1 \in 1..Len(tailers) /\ FirstTailer = tailers[1] /\ FirstTailer \in Clients
    BY <1>1, <1>6, FirstTailerType, Elements
  <2>2. pc' = "broadcast" /\ tailer' = tailers[1] /\ UNCHANGED data
    <3>1. None \notin Clients
      BY NamesAssumption
    <3> QED BY <2>1, <3>1 DEF stdout_write_blocking_or_break, Broadcast
  <2>3. \A j \in 1..Len(tailers') : ~ (j < 1)
    BY <1>1, LenProperties
  <2>4. \A j \in 1..Len(tailers') : \A c : tailers'[j] = c =>
          /\ sent'[c] # <<>>
          /\ Len(sent'[c]) = 1 + (IF j < 1 THEN r ELSE r - n) - Cut(c)'
    BY <1>4, <2>3
  <2>5. 1 \in 1..Len(tailers') /\ tailers'[1] = tailer'
    BY <1>1, <2>1, <2>2
  <2>6. UpToDate'
    <3> HIDE <1>4
    <3> QED BY <1>1, <2>2, <2>4, <2>5, WalkIsAt
  <2> QED BY <1>3, <2>6
<1> QED BY <1>5, <1>6

LEMMA WhenAccepted ==
  ASSUME Structure, Streams, UpToDate, [Next]_vars, unix_sock_cb_Accept, TypeOK'
  PROVE  Streams' /\ UpToDate'
<1> SUFFICES ASSUME NEW c, Head(backlog) = c PROVE Streams' /\ UpToDate'
  OBVIOUS
<1>1. /\ TypeOK /\ pc = "accept" /\ pc' = "size" /\ UNCHANGED <<sent, received, out_of_memory>>
      /\ tailer' = c /\ tailers' = <<c>> \o tailers
      /\ joined' = [joined EXCEPT ![c] = received]
      /\ tailers \in Seq(Clients) /\ backlog \in Seq(Clients) /\ backlog # <<>>
  BY DEF Structure, TypeOK, ListTypes, unix_sock_cb_Accept, serving, channel
<1>2. c \in Clients /\ c \in ToSet(backlog)
  BY <1>1, TakeFirst
<1>3. c \notin ToSet(tailers) /\ joined[c] = -1
  BY <1>2 DEF Structure, Lists
<1>4. ToSet(tailers') = ToSet(tailers) \cup {c}
  BY <1>1, <1>2, AddFirst
<1>5. joined'[c] = received /\ \A d \in Clients \ {c} : joined'[d] = joined[d]
  BY <1>1, <1>2 DEF TypeOK, ClientTypes
<1>6. sent[c] = <<>>
  BY <1>2, <1>3 DEF Streams
<1>7. received \in Nat /\ received <= received
  BY <1>1 DEF TypeOK, CountTypes
<1>8. Streams'
  <2>1. ASSUME NEW d \in Clients \ {c}
        PROVE  /\ joined'[d] <= received'
               /\ joined'[d] = -1 => sent'[d] = <<>>
               /\ sent'[d] # <<>> => Sound(d)'
    <3>1. sent[d] # <<>> => joined[d] # -1 /\ Sound(d)
      BY DEF Streams
    <3>2. received <= received' /\ sent'[d] = sent[d] /\ joined'[d] = joined[d]
      BY <1>1, <1>5, <1>7
    <3> QED BY <1>1, <3>1, <3>2, SoundStays DEF Streams
  <2> QED BY <1>1, <1>5, <1>6, <1>7, <2>1 DEF Streams
<1>9. ASSUME NEW d \in ToSet(tailers') \ {c}
      PROVE  sent'[d] # <<>> /\ (~out_of_memory => InStep(d, received)')
  <2>1. d \in ToSet(tailers) /\ d \in Clients \ {c}
    BY <1>4, TailerType
  <2>2. Cut(d)' = Cut(d)
    BY <1>5, <2>1, CutsStay
  <2>3. sent[d] # <<>> /\ (~out_of_memory => InStep(d, received))
    BY <1>1, <2>1 DEF UpToDate
  <2> QED BY <1>1, <2>2, <2>3 DEF InStep
<1>10. joined'[tailer'] = received' /\ sent'[tailer'] = <<>>
  BY <1>1, <1>5, <1>6
<1> QED BY <1>1, <1>8, <1>9, <1>10 DEF UpToDate

LEMMA StreamsStep ==
  ASSUME Structure, Structure', Output, Output', Streams, UpToDate, [Next]_vars
  PROVE  Streams' /\ UpToDate'
<1>1. TypeOK /\ TypeOK' /\ received \in Nat /\ received <= received
  BY DEF Structure, TypeOK, CountTypes
<1>2. CASE /\ UNCHANGED <<sent, joined, received, out_of_memory, tailers, tailer, data, pos, pc>>
  <2>1. \A c : Cut(c)' = Cut(c)
    BY <1>2, CutsStay
  <2>2. Cut(tailer)' = Cut(tailer)
    <3>1. UNCHANGED <<count_lines, n_units, newlines>>
      BY OptionsStay DEF options
    <3> QED BY <1>2, <3>1 DEF Cut, TailCut
  <2>3. \A i \in 1..Len(tailers) : Cut(tailers[i])' = Cut(tailers[i])
    <3>1. UNCHANGED <<count_lines, n_units, newlines>>
      BY OptionsStay DEF options
    <3> QED BY <1>2, <3>1 DEF Cut, TailCut
  <2>4. Streams'
    BY <1>1, <1>2, StreamsStay
  <2>5. UpToDate'
    BY <1>2, <2>1, <2>2, <2>3 DEF UpToDate, InStep
  <2> QED BY <2>4, <2>5
<1>3. CASE /\ UNCHANGED <<sent, joined, received, out_of_memory>>
           /\ ToSet(tailers') \subseteq ToSet(tailers) /\ pc # "size"
           /\ pc' \notin {"stdout", "broadcast", "size", "tail"}
           /\ pc' \in {"run", "accept", "final"} => pc \in {"run", "accept", "final"}
  <2>1. Streams'
    BY <1>1, <1>3, StreamsStay
  <2>2. UpToDate'
    BY <1>3, NothingIsSent
  <2> QED BY <2>1, <2>2
<1>4. CASE init_all
  <2>1. /\ UNCHANGED <<sent, joined, received, tailers>> /\ pc = "init"
        /\ pc' \in {"run", "atexit", "close_stdin"}
    BY <1>4 DEF init_all, conns, channel
  <2>2. ToSet(tailers') = {}
    BY <2>1 DEF Structure, Phases, ToSet
  <2>3. Streams'
    BY <1>1, <2>1, StreamsStay
  <2>4. UpToDate'
    BY <2>1, <2>2 DEF UpToDate
  <2> QED BY <2>3, <2>4
<1>5. CASE \/ Poll \/ Leave \/ libev_error_handler \/ sigint_cb \/ stdin_cb_Again
           \/ tailer_readable_cb_Again
           \/ unix_sock_cb
  <2>1. /\ UNCHANGED <<sent, joined, received, out_of_memory, tailers>> /\ pc = "run"
        /\ pc' \in {"run", "accept", "final"}
    BY <1>5 DEF Poll, Leave, libev_error_handler, sigint_cb, stdin_cb_Again,
         tailer_readable_cb_Again, ReadsNothing, unix_sock_cb, Starts, serving, conns,
         channel, aside
  <2> QED BY <1>3, <2>1
<1>6. CASE unix_sock_cb_Again \/ unix_sock_cb_Fail
  <2>1. /\ UNCHANGED <<sent, joined, received, out_of_memory, tailers>> /\ pc = "accept"
        /\ pc' \in {"run", "accept"}
    BY <1>6 DEF unix_sock_cb_Again, unix_sock_cb_Fail, serving, conns, channel
  <2> QED BY <1>3, <2>1
<1>7. CASE \E c \in Clients : tailer_readable_cb(c)
  <2>1. /\ UNCHANGED <<sent, joined, received, out_of_memory, pc>> /\ pc = "run"
    BY <1>7 DEF tailer_readable_cb, serving, channel, aside
  <2>2. ToSet(tailers') \subseteq ToSet(tailers)
    BY <1>7, TailersShrink
  <2> QED BY <1>3, <2>1, <2>2
<1>8. CASE sockets_final \/ pipes_final \/ close_stdout
  <2>1. /\ UNCHANGED <<sent, joined, received, out_of_memory>>
        /\ tailers' = <<>> \/ UNCHANGED tailers
        /\ pc \in {"final", "close_stdin", "atexit"}
        /\ pc' \in {"close_stdin", "atexit", "exited"}
    BY <1>8 DEF sockets_final, pipes_final, close_stdout, serving, conns, channel, aside
  <2>2. ToSet(tailers') \subseteq ToSet(tailers)
    BY <2>1 DEF ToSet
  <2> QED BY <1>3, <2>1, <2>2
<1>9. CASE Environment
  BY <1>2, <1>9, EnvironmentStep DEF serving, control, writing, aside
<1>10. CASE UNCHANGED vars
  BY <1>2, <1>10 DEF vars, serving, control, writing, aside, conns, channel
<1>11. CASE SendSize \/ SendTail
  BY <1>1, <1>11, SizeIsSent, TailIsSent
<1>12. CASE sockets_write_blocking
  BY <1>1, <1>12, DataIsSent
<1>13. CASE stdin_cb_Read \/ stdin_cb_Break
  BY <1>1, <1>13, WhileReading
<1>14. CASE stdout_write_blocking_or_break
  BY <1>1, <1>14, WhileWritingStdout
<1>15. CASE unix_sock_cb_Accept
  BY <1>1, <1>15, WhenAccepted
<1> QED BY <1>4, <1>5, <1>6, <1>7, <1>8, <1>9, <1>10, <1>11, <1>12, <1>13, <1>14, <1>15
        DEF Next, ServerStep
---------------------------------------------------------------------------------
(***************************************************************************)
(* Theorems.                                                               *)
(***************************************************************************)
RelayInvariant == Structure /\ Output /\ Streams /\ UpToDate

LEMMA RelayInvariantAlways == Spec => []RelayInvariant
<1>1. Init => RelayInvariant
  <2> SUFFICES ASSUME Init PROVE RelayInvariant
    OBVIOUS
  <2>1. Structure
    BY StructureInit
  <2>2. /\ pc = "init" /\ stdout = <<>> /\ received = 0 /\ tailers = <<>> /\ ~out_of_memory
        /\ \A c \in Clients : joined[c] = -1 /\ sent[c] = <<>>
    BY DEF Init
  <2>3. Len(stdout) = 0 /\ ToSet(tailers) = {}
    BY <2>2, EmptySeq DEF ToSet
  <2> QED BY <2>1, <2>2, <2>3 DEF RelayInvariant, Output, Streams, UpToDate
<1>2. RelayInvariant /\ [Next]_vars => RelayInvariant'
  <2> SUFFICES ASSUME RelayInvariant, [Next]_vars PROVE RelayInvariant'
    OBVIOUS
  <2>1. Structure'
    BY TypesStep, ListsStep, PhasesStep DEF RelayInvariant, Structure
  <2>2. Output'
    BY OutputStep DEF RelayInvariant
  <2>3. Streams' /\ UpToDate'
    BY <2>1, <2>2, StreamsStep DEF RelayInvariant
  <2> QED BY <2>1, <2>2, <2>3 DEF RelayInvariant
<1> QED BY <1>1, <1>2, PTL DEF Spec

\* What a client is to get, element by element.
LEMMA StreamElements ==
  ASSUME TypeOK, NEW c \in Clients, joined[c] # -1, joined[c] <= received
  PROVE  /\ Stream(c) \in Seq(0..MaxBytes) /\ Len(Stream(c)) = 1 + received - Cut(c)
         /\ Stream(c)[1] = joined[c] - Cut(c)
         /\ \A i \in 2..Len(Stream(c)) : Stream(c)[i] = Cut(c) + i - 1
<1> DEFINE size == joined[c] - Cut(c)
           bytes == Bytes(Cut(c), received)
<1>1. /\ received \in Nat /\ received <= MaxBytes /\ MaxBytes \in Nat
      /\ joined[c] \in Nat /\ Cut(c) \in Nat /\ Cut(c) <= joined[c]
  BY CutType, ReceivedType
<1>2. Cut(c) <= received /\ size \in 0..MaxBytes
  BY <1>1
<1>3. /\ bytes \in Seq(0..MaxBytes) /\ Len(bytes) = received - Cut(c)
      /\ \A i \in 1..(received - Cut(c)) : bytes[i] = Cut(c) + i
  BY <1>1, <1>2, BytesType
<1>4. Stream(c) = <<size>> \o bytes
  BY DEF Stream, Cut
<1> HIDE DEF size, bytes
<1>5. /\ Stream(c) \in Seq(0..MaxBytes) /\ Len(Stream(c)) = Len(bytes) + 1
      /\ Stream(c)[1] = size
      /\ \A i \in 2..(Len(bytes) + 1) : Stream(c)[i] = bytes[i - 1]
  BY <1>2, <1>3, <1>4, AddFirst
<1>6. Len(Stream(c)) = 1 + received - Cut(c)
  BY <1>1, <1>3, <1>5
<1>7. ASSUME NEW i \in 2..Len(Stream(c)) PROVE Stream(c)[i] = Cut(c) + i - 1
  <2>1. /\ i \in 2..(Len(bytes) + 1) /\ i - 1 \in 1..(received - Cut(c))
        /\ Cut(c) + (i - 1) = Cut(c) + i - 1
    BY <1>1, <1>3, <1>5
  <2>2. bytes[i - 1] = Cut(c) + (i - 1)
    BY <1>3, <2>1
  <2> QED BY <1>5, <2>1, <2>2
<1> QED BY <1>5, <1>6, <1>7 DEF size

\* Whatever is read, written in part, retried, lost or ended, and whoever is ditched: what
\* a client was sent (tailer_send_buffered_tail and sockets_write_blocking) is the
\* size of its tail, the tail and what follows it, without a gap or a repetition.
THEOREM EachClientGetsTheStream == Spec => []ClientsGetTheStream
<1>1. RelayInvariant => ClientsGetTheStream
  <2> SUFFICES ASSUME RelayInvariant, NEW c \in Clients
               PROVE  IF c \in Accepted THEN IsPrefix(sent[c], Stream(c))
                                        ELSE sent[c] = <<>>
    BY DEF ClientsGetTheStream
  <2>1. /\ TypeOK /\ joined[c] <= received /\ (joined[c] = -1 => sent[c] = <<>>)
        /\ sent[c] # <<>> => Sound(c)
        /\ sent[c] \in Seq(0..MaxBytes) /\ Len(sent[c]) \in Nat /\ received \in Nat
        /\ joined[c] \in Int /\ joined[c] >= -1
    BY ReceivedType DEF RelayInvariant, Structure, Streams, TypeOK, ChannelTypes
  <2>2. CASE joined[c] = -1
    BY <2>1, <2>2 DEF Accepted
  <2>3. CASE joined[c] # -1
    <3>1. c \in Accepted /\ Cut(c) \in Nat /\ Cut(c) <= received
      BY <2>1, <2>3, CutType DEF Accepted
    <3>2. /\ Stream(c) \in Seq(0..MaxBytes) /\ Len(Stream(c)) = 1 + received - Cut(c)
          /\ Stream(c)[1] = joined[c] - Cut(c)
          /\ \A i \in 2..Len(Stream(c)) : Stream(c)[i] = Cut(c) + i - 1
      BY <2>1, <2>3, StreamElements
    <3>3. Len(sent[c]) <= Len(Stream(c))
      <4>1. sent[c] = <<>> => Len(sent[c]) = 0
        BY EmptySeq
      <4>2. sent[c] # <<>> => Cut(c) + Len(sent[c]) - 1 <= received
        BY <2>1 DEF Sound
      <4> QED BY <2>1, <3>1, <3>2, <4>1, <4>2
    <3>4. ASSUME NEW i \in 1..Len(sent[c]) PROVE sent[c][i] = Stream(c)[i]
      <4>1. sent[c] # <<>> /\ Sound(c)
        <5>1. Len(sent[c]) # 0
          BY <2>1
        <5> QED BY <2>1, <5>1, EmptySeq
      <4>2. i = 1 \/ (i \in 2..Len(sent[c]) /\ i \in 2..Len(Stream(c)))
        BY <2>1, <3>1, <3>2, <3>3
      <4> QED BY <3>2, <4>1, <4>2 DEF Sound
    <3> QED BY <2>1, <3>1, <3>2, <3>3, <3>4, PrefixByElements
  <2> QED BY <2>2, <2>3
<1> QED BY <1>1, RelayInvariantAlways, PTL

\* Between two callbacks, and when the loop has ended for whatever reason (sockets_final is
\* called from final_all after it), every client that is in the list was sent everything
\* that was read.
THEOREM EachTailerIsUpToDate == Spec => []NobodyIsLeftBehind
<1>1. RelayInvariant => NobodyIsLeftBehind
  <2> SUFFICES ASSUME RelayInvariant, pc \in {"run", "final"}, ~out_of_memory,
                      NEW c \in ToSet(tailers)
               PROVE  sent[c] = Stream(c)
    BY DEF NobodyIsLeftBehind
  <2>1. /\ TypeOK /\ c \in Clients /\ joined[c] # -1 /\ joined[c] <= received
        /\ InStep(c, received) /\ sent[c] # <<>> /\ Sound(c)
    BY TailerType DEF RelayInvariant, Structure, Streams, UpToDate
  <2>2. /\ Stream(c) \in Seq(0..MaxBytes) /\ Len(Stream(c)) = 1 + received - Cut(c)
        /\ Stream(c)[1] = joined[c] - Cut(c)
        /\ \A i \in 2..Len(Stream(c)) : Stream(c)[i] = Cut(c) + i - 1
    BY <2>1, StreamElements
  <2>3. sent[c] \in Seq(0..MaxBytes) /\ Len(sent[c]) = Len(Stream(c)) /\ Len(sent[c]) \in Nat
    BY <2>1, <2>2, ReceivedType DEF TypeOK, ChannelTypes, InStep
  <2>4. ASSUME NEW i \in 1..Len(sent[c]) PROVE sent[c][i] = Stream(c)[i]
    <3>1. i = 1 \/ i \in 2..Len(sent[c])
      BY <2>3
    <3> QED BY <2>1, <2>2, <2>3, <3>1 DEF Sound
  <2> QED BY <2>2, <2>3, <2>4, SeqEqual
<1> QED BY <1>1, RelayInvariantAlways, PTL

\* stdin_cb (pipes.c) writes to stdout before sockets_write_blocking is called: no client
\* is ahead of stdout, which is a copy of stdin, unless stdout is lost.
THEOREM StdoutIsAhead == Spec => []StdoutComesFirst
<1>1. RelayInvariant => StdoutComesFirst
  <2> SUFFICES ASSUME RelayInvariant PROVE StdoutComesFirst
    OBVIOUS
  <2>1. /\ TypeOK /\ received \in Nat /\ received <= MaxBytes
        /\ stdout \in Seq(1..MaxBytes) /\ Len(stdout) <= received /\ Len(stdout) \in Nat
        /\ \A i \in 1..Len(stdout) : stdout[i] = i
    BY ReceivedType DEF RelayInvariant, Structure, Output, TypeOK, DataTypes
  <2>2. /\ Bytes(0, received) \in Seq(1..MaxBytes)
        /\ Len(Bytes(0, received)) = received
        /\ \A i \in 1..received : Bytes(0, received)[i] = i
    <3>1. 0 \in Nat /\ 0 <= received /\ received - 0 = received
      BY <2>1
    <3>2. /\ Bytes(0, received) \in Seq(1..MaxBytes)
          /\ Len(Bytes(0, received)) = received
          /\ \A i \in 1..received : Bytes(0, received)[i] = 0 + i
      BY <2>1, <3>1, BytesType
    <3>3. \A i \in 1..received : 0 + i = i
      OBVIOUS
    <3> QED BY <3>2, <3>3
  <2>3. \A i \in 1..Len(stdout) : i \in 1..received
    BY <2>1
  <2>4. IsPrefix(stdout, Bytes(0, received))
    BY <2>1, <2>2, <2>3, PrefixByElements
  <2>5. ~broken /\ pc # "stdout" => Len(stdout) = received
    BY DEF RelayInvariant, Output
  <2>6. ASSUME NEW c \in Accepted, Len(sent[c]) > 1 PROVE Last(sent[c]) <= received
    <3>1. /\ c \in Clients /\ Len(sent[c]) \in Nat /\ joined[c] # -1
      BY <2>1, ReceivedType DEF Accepted
    <3>2. sent[c] # <<>>
      <4>1. Len(sent[c]) # 0
        BY <2>6, <3>1
      <4> QED BY <4>1, EmptySeq
    <3>3. Sound(c) /\ Cut(c) \in Nat
      BY <2>1, <3>1, <3>2, CutType DEF RelayInvariant, Streams
    <3>4. Len(sent[c]) \in 2..Len(sent[c])
      BY <2>6, <3>1
    <3>5. sent[c][Len(sent[c])] = Cut(c) + Len(sent[c]) - 1
      BY <3>3, <3>4 DEF Sound
    <3> QED BY <3>3, <3>5 DEF Sound, Last
  <2> QED BY <2>4, <2>5, <2>6 DEF StdoutComesFirst
<1> QED BY <1>1, RelayInvariantAlways, PTL
---------------------------------------------------------------------------------
(***************************************************************************)
(* The server implements the relay.                                        *)
(***************************************************************************)
\* The variables of the relay, as Server.tla maps them.
RelayStart ==
  [r \in Clients \cup {"stdout"} |->
     IF r = "stdout" THEN 0 ELSE IF joined[r] < 0 THEN -1 ELSE TailCut(joined[r])]
RelayOutput ==
  [r \in Clients \cup {"stdout"} |->
     IF r = "stdout" THEN stdout ELSE IF sent[r] = <<>> THEN <<>> ELSE Tail(sent[r])]
RelayStays == UNCHANGED <<received, TailCut(received), RelayStart, RelayOutput>>

LEMMA RelayStutters ==
  ASSUME RelayStays
  PROVE  UNCHANGED R!vars
BY DEF RelayStays, RelayStart, RelayOutput, R!vars

\* Bytes by their elements.
LEMMA BytesElements ==
  ASSUME NEW lo \in Nat, NEW hi \in Nat, lo <= hi
  PROVE  /\ Bytes(lo, hi) \in Seq(Nat) /\ Len(Bytes(lo, hi)) = hi - lo
         /\ \A i \in 1..(hi - lo) : Bytes(lo, hi)[i] = lo + i
<1>1. hi - lo \in Nat /\ \A i \in 1..(hi - lo) : lo + i \in Nat
  OBVIOUS
<1> QED BY <1>1, Stretch DEF Bytes

LEMMA BytesAdd ==
  ASSUME NEW lo \in Nat, NEW mid \in Nat, NEW hi \in Nat, lo <= mid, mid <= hi
  PROVE  Bytes(lo, mid) \o Bytes(mid, hi) = Bytes(lo, hi)
<1> DEFINE a == Bytes(lo, mid)
           b == Bytes(mid, hi)
           c == Bytes(lo, hi)
<1>1. /\ a \in Seq(Nat) /\ Len(a) = mid - lo /\ \A i \in 1..(mid - lo) : a[i] = lo + i
      /\ b \in Seq(Nat) /\ Len(b) = hi - mid /\ \A i \in 1..(hi - mid) : b[i] = mid + i
  BY BytesElements
<1>2. c \in Seq(Nat) /\ Len(c) = hi - lo /\ \A i \in 1..(hi - lo) : c[i] = lo + i
  <2>1. lo <= hi
    OBVIOUS
  <2> QED BY <2>1, BytesElements
<1> HIDE DEF a, b, c
<1>3. /\ a \o b \in Seq(Nat) /\ Len(a \o b) = Len(a) + Len(b)
      /\ \A i \in 1..(Len(a) + Len(b)) :
           (a \o b)[i] = IF i <= Len(a) THEN a[i] ELSE b[i - Len(a)]
  BY <1>1, ConcatProperties
<1>4. Len(a \o b) = Len(c)
  BY <1>1, <1>2, <1>3
<1>5. ASSUME NEW i \in 1..Len(a \o b) PROVE (a \o b)[i] = c[i]
  <2>1. i \in 1..(Len(a) + Len(b)) /\ i \in 1..(hi - lo) /\ i \in Nat
    BY <1>1, <1>2, <1>3
  <2>2. CASE i <= Len(a)
    <3>1. i \in 1..(mid - lo)
      BY <1>1, <2>1, <2>2
    <3> QED BY <1>1, <1>2, <1>3, <2>1, <2>2, <3>1
  <2>3. CASE ~ (i <= Len(a))
    <3>1. i - Len(a) \in 1..(hi - mid) /\ mid + (i - Len(a)) = lo + i
      BY <1>1, <2>1, <2>3
    <3>2. b[i - Len(a)] = lo + i
      BY <1>1, <3>1
    <3> QED BY <1>2, <1>3, <2>1, <2>3, <3>2
  <2> QED BY <2>2, <2>3
<1> QED BY <1>2, <1>3, <1>4, <1>5, SeqEqual DEF a, b, c

\* What a client was sent after its size line.
LEMMA TailIsBytes ==
  ASSUME NEW s \in Seq(0..MaxBytes), s # <<>>, NEW k \in Nat,
         \A i \in 2..Len(s) : s[i] = k + i - 1
  PROVE  Tail(s) = Bytes(k, k + (Len(s) - 1)) /\ Len(s) - 1 \in Nat
<1>1. Len(s) \in Nat /\ Len(s) # 0
  BY EmptySeq, LenProperties
<1>2. /\ Tail(s) \in Seq(0..MaxBytes) /\ Len(Tail(s)) = Len(s) - 1
      /\ \A i \in 1..(Len(s) - 1) : Tail(s)[i] = s[i + 1]
  BY TakeFirst
<1>3. /\ Len(s) - 1 \in Nat /\ k + (Len(s) - 1) \in Nat /\ k <= k + (Len(s) - 1)
      /\ (k + (Len(s) - 1)) - k = Len(s) - 1
  BY <1>1
<1>4. /\ Bytes(k, k + (Len(s) - 1)) \in Seq(Nat)
      /\ Len(Bytes(k, k + (Len(s) - 1))) = Len(s) - 1
      /\ \A i \in 1..(Len(s) - 1) : Bytes(k, k + (Len(s) - 1))[i] = k + i
  <2>1. ASSUME NEW n \in Nat, NEW hi \in Nat, k <= hi, hi - k = n
        PROVE  /\ Bytes(k, hi) \in Seq(Nat) /\ Len(Bytes(k, hi)) = n
               /\ \A i \in 1..n : Bytes(k, hi)[i] = k + i
    BY <2>1, BytesElements
  <2> QED BY <1>3, <2>1
<1>5. \A i \in 1..(Len(s) - 1) : i + 1 \in 2..Len(s) /\ k + (i + 1) - 1 = k + i
  BY <1>1
<1>6. \A i \in 1..(Len(s) - 1) : Tail(s)[i] = k + i
  BY <1>2, <1>5
<1>7. Tail(s) \in Seq(Nat)
  <2>1. 0..MaxBytes \subseteq Nat
    OBVIOUS
  <2> QED BY <1>2, <2>1, SeqMonotonic
<1>8. /\ Len(Tail(s)) = Len(Bytes(k, k + (Len(s) - 1)))
      /\ \A i \in 1..Len(Tail(s)) : Tail(s)[i] = Bytes(k, k + (Len(s) - 1))[i]
  BY <1>2, <1>4, <1>6
<1> QED BY <1>3, <1>4, <1>7, <1>8, SeqEqual

\* One reader gets the next bytes, or nothing.
LEMMA DeliverOrNothing ==
  ASSUME received \in Nat, UNCHANGED <<received, TailCut(received), RelayStart>>,
         NEW r \in Clients \cup {"stdout"},
         \A q \in (Clients \cup {"stdout"}) \ {r} : RelayOutput'[q] = RelayOutput[q],
         NEW k \in Nat, RelayStart[r] = k,
         NEW l \in Nat, NEW m \in Nat, l <= m, k + m <= received,
         RelayOutput[r] = Bytes(k, k + l), RelayOutput'[r] = Bytes(k, k + m)
  PROVE  R!Deliver(r) \/ UNCHANGED R!vars
<1>1. /\ k + l \in Nat /\ k <= k + l /\ (k + l) - k = l
      /\ k + m \in Nat /\ k + l <= k + m
  OBVIOUS
<1>2. CASE l = m
  <2>1. RelayOutput' = RelayOutput
    BY <1>2 DEF RelayOutput
  <2> QED BY <2>1, RelayStutters DEF RelayStays
<1>3. CASE l # m
  <2>1. Len(RelayOutput[r]) = l
    <3>1. \A lo, hi \in Nat : lo <= hi => Len(Bytes(lo, hi)) = hi - lo
      BY BytesElements
    <3>2. Len(Bytes(k, k + l)) = (k + l) - k
      BY <1>1, <3>1
    <3> QED BY <1>1, <3>2
  <2>2. RelayOutput'[r] = RelayOutput[r] \o Bytes(k + l, k + m)
    <3>1. \A lo, mid, hi \in Nat :
            lo <= mid /\ mid <= hi => Bytes(lo, mid) \o Bytes(mid, hi) = Bytes(lo, hi)
      BY BytesAdd, ZenonT(60)
    <3>2. Bytes(k, k + l) \o Bytes(k + l, k + m) = Bytes(k, k + m)
      BY <1>1, <3>1, ZenonT(60)
    <3> QED BY <3>2
  <2>3. RelayOutput' = [RelayOutput EXCEPT ![r] = @ \o Bytes(k + l, k + m)]
    BY <2>2 DEF RelayOutput
  <2>4. k + m \in ((k + l) + 1)..received
    BY <1>1, <1>3
  <2>5. /\ RelayStart[r] # -1
        /\ \E hi \in ((RelayStart[r] + Len(RelayOutput[r])) + 1)..received :
             RelayOutput' = [RelayOutput EXCEPT ![r] =
                               @ \o Bytes(RelayStart[r] + Len(RelayOutput[r]), hi)]
    <3>1. k # -1
      OBVIOUS
    <3> QED BY <2>1, <2>3, <2>4, <3>1
  <2> QED BY <2>5 DEF R!Deliver, R!NotJoined, R!Between, Bytes, RelayStart, RelayOutput
<1> QED BY <1>2, <1>3

\* What a client has got as a reader of the relay, from what it was sent.
LEMMA ClientOutput ==
  ASSUME NEW s \in Seq(0..MaxBytes), NEW k \in Nat, NEW r \in Nat, k <= r,
         s # <<>> => /\ \A i \in 2..Len(s) : s[i] = k + i - 1
                     /\ k + Len(s) - 1 <= r
  PROVE  \E l \in Nat : /\ (IF s = <<>> THEN <<>> ELSE Tail(s)) = Bytes(k, k + l)
                        /\ k + l <= r
                        /\ l = IF s = <<>> THEN 0 ELSE Len(s) - 1
<1>1. CASE s = <<>>
  <2>1. k <= k /\ k - k = 0 /\ k + 0 = k
    OBVIOUS
  <2>2. Bytes(k, k) \in Seq(Nat) /\ Len(Bytes(k, k)) = 0
    BY <2>1, BytesElements
  <2>3. Bytes(k, k + 0) = <<>>
    BY <2>1, <2>2, EmptySeq
  <2> QED BY <1>1, <2>1, <2>3
<1>2. CASE s # <<>>
  <2>1. Tail(s) = Bytes(k, k + (Len(s) - 1)) /\ Len(s) - 1 \in Nat
    BY <1>2, TailIsBytes
  <2>2. k + (Len(s) - 1) <= r
    <3>1. Len(s) \in Nat
      BY LenProperties
    <3> QED BY <1>2, <3>1
  <2> QED BY <1>2, <2>1, <2>2
<1> QED BY <1>1, <1>2

\* What stdout has got.
LEMMA StdoutIsBytes ==
  ASSUME NEW s \in Seq(1..MaxBytes), \A i \in 1..Len(s) : s[i] = i
  PROVE  s = Bytes(0, 0 + Len(s)) /\ Len(s) \in Nat
<1>1. Len(s) \in Nat /\ 0 <= Len(s) /\ Len(s) - 0 = Len(s) /\ 0 + Len(s) = Len(s)
  BY LenProperties
<1>2. /\ Bytes(0, Len(s)) \in Seq(Nat) /\ Len(Bytes(0, Len(s))) = Len(s)
      /\ \A i \in 1..Len(s) : Bytes(0, Len(s))[i] = 0 + i
  BY <1>1, BytesElements
<1>3. \A i \in 1..Len(s) : Bytes(0, Len(s))[i] = s[i]
  BY <1>2
<1>4. s \in Seq(Nat)
  <2>1. 1..MaxBytes \subseteq Nat
    OBVIOUS
  <2> QED BY <2>1, SeqMonotonic
<1> QED BY <1>1, <1>2, <1>3, <1>4, SeqEqual

\* Each step of the server that sends something sends it to one client.
LEMMA SendsToOne ==
  ASSUME Structure, sockets_write_blocking \/ SendSize \/ SendTail
  PROVE  /\ UNCHANGED <<received, joined, stdout>>
         /\ UNCHANGED sent \/ \E c \in ToSet(tailers) :
              /\ \A d \in Clients \ {c} : sent'[d] = sent[d]
              /\ Len(sent'[c]) >= Len(sent[c])
<1>1. TypeOK /\ ChannelTypes
  BY DEF Structure, TypeOK
<1>2. tailer \in ToSet(tailers) /\ tailer \in Clients
  BY Elements DEF Structure, Phases, TypeOK, ListTypes, sockets_write_blocking, SendSize,
       SendTail
<1>3. ASSUME NEW bytes \in Seq(0..MaxBytes), WriteAll(tailer, bytes) \/ WriteLess(tailer, bytes)
      PROVE  /\ \A d \in Clients \ {tailer} : sent'[d] = sent[d]
             /\ Len(sent'[tailer]) >= Len(sent[tailer])
  <2>1. PICK n \in 0..Len(bytes) :
          /\ \A d \in Clients \ {tailer} : sent'[d] = sent[d]
          /\ Len(sent'[tailer]) = Len(sent[tailer]) + n
    BY <1>1, <1>2, <1>3, Written
  <2>2. n \in Nat /\ Len(sent[tailer]) \in Nat
    BY <1>1, <1>2, ReceivedType, LenProperties
  <2> QED BY <2>1, <2>2
<1>4. UNCHANGED <<received, joined, stdout>>
  BY DEF sockets_write_blocking, SendSize, SendTail, SendsLess, pipes_on_new_client, serving,
         conns
<1>5. CASE sockets_write_blocking
  <2>1. data \in Seq(0..MaxBytes)
    BY <1>1, SizesAssumption, SeqMonotonic DEF TypeOK, DataTypes
  <2>2. WriteAll(tailer, data) \/ WriteLess(tailer, data)
    BY <1>5 DEF sockets_write_blocking
  <2> QED BY <1>2, <1>3, <1>4, <2>1, <2>2
<1>6. CASE SendSize
  <2> DEFINE size == <<received - TailCut(received)>>
  <2>1. size \in Seq(0..MaxBytes)
    BY <1>6, SendingType DEF SendSize
  <2>2. WriteAll(tailer, size) \/ WriteLess(tailer, size)
    BY <1>6 DEF SendSize, SendsLess
  <2> HIDE DEF size
  <2> QED BY <1>2, <1>3, <1>4, <2>1, <2>2
<1>7. CASE SendTail
  <2>1. CASE UNCHANGED channel
    BY <1>4, <2>1 DEF channel
  <2>2. ASSUME NEW n \in 1..ReadSize, pos + n <= received,
               \/ WriteAll(tailer, Bytes(pos, pos + n))
               \/ WriteLess(tailer, Bytes(pos, pos + n))
        PROVE  \E c \in ToSet(tailers) :
                 /\ \A d \in Clients \ {c} : sent'[d] = sent[d]
                 /\ Len(sent'[c]) >= Len(sent[c])
    <3>1. /\ pos \in Nat /\ pos + n \in Nat /\ pos <= pos + n /\ pos + n <= MaxBytes
      BY <1>1, <2>2, SizesAssumption DEF TypeOK, CountTypes
    <3>2. Bytes(pos, pos + n) \in Seq(0..MaxBytes)
      BY <3>1, BytesType
    <3> QED BY <1>2, <1>3, <2>2, <3>2
  <2> QED BY <1>4, <1>7, <2>1, <2>2 DEF SendTail, SendsLess
<1> QED BY <1>5, <1>6, <1>7

LEMMA RelayInit ==
  ASSUME Init
  PROVE  R!Init
<1>1. TypeOK
  BY StructureInit DEF Structure
<1>2. received = 0 /\ TailCut(received) = 0
  <2>1. received = 0 /\ 0 \in Nat
    BY DEF Init
  <2>2. TailCut(0) \in 0..0
    BY <1>1, TailCutType
  <2> QED BY <2>1, <2>2
<1>3. RelayStart \in [Clients \cup {"stdout"} -> {-1, 0}]
  <2>1. \A c \in Clients : joined[c] = -1
    BY DEF Init
  <2>2. \A c \in Clients : joined[c] < 0
    BY <2>1
  <2> QED BY <2>2 DEF RelayStart
<1>4. RelayOutput = [r \in Clients \cup {"stdout"} |-> <<>>]
  BY DEF Init, RelayOutput
<1> QED BY <1>2, <1>3, <1>4 DEF R!Init, R!NotJoined, RelayStart, RelayOutput

LEMMA RelayStep ==
  ASSUME RelayInvariant, RelayInvariant', [Next]_vars
  PROVE  [R!Next]_(R!vars)
<1>1. /\ TypeOK /\ TypeOK' /\ Structure
      /\ received \in Nat /\ received' \in Nat /\ received \in Int /\ received' \in Int
      /\ "stdout" \notin Clients
  BY NamesAssumption DEF RelayInvariant, Structure, TypeOK, CountTypes
<1>2. UNCHANGED joined => UNCHANGED RelayStart
  <2>1. UNCHANGED <<count_lines, n_units, newlines>>
    BY OptionsStay DEF options
  <2> QED BY <2>1 DEF RelayStart, TailCut
<1>3. UNCHANGED received => UNCHANGED TailCut(received)
  <2>1. UNCHANGED <<count_lines, n_units, newlines>>
    BY OptionsStay DEF options
  <2> QED BY <2>1 DEF TailCut
<1>4. UNCHANGED <<sent, stdout>> => UNCHANGED RelayOutput
  BY DEF RelayOutput
<1>5. CASE UNCHANGED <<received, joined, sent, stdout>>
  BY <1>2, <1>3, <1>4, <1>5, RelayStutters DEF RelayStays
<1>6. CASE received < received' /\ UNCHANGED <<joined, sent, stdout>>
  <2>1. ASSUME NEW r, received = r, NEW s, received' = s
        PROVE  TailCut(received)' \in TailCut(received)..received'
    <3>1. TailCut(s)' = TailCut(s) /\ TailCut(received)' = TailCut(s)'
      BY <2>1, CutsStay DEF TailCut
    <3>2. r \in Nat /\ s \in Nat /\ r <= s
      BY <1>1, <1>6, <2>1
    <3>3. TailCut(r) <= TailCut(s) /\ TailCut(s) \in 0..s /\ TailCut(r) \in 0..r
      BY <1>1, <3>2, TailCutGrows, TailCutType
    <3>4. TailCut(s) \in TailCut(r)..s
      BY <3>2, <3>3
    <3> QED BY <2>1, <3>1, <3>4
  <2>2. TailCut(received)' \in TailCut(received)..received'
    BY <2>1
  <2>3. R!Receive
    BY <1>1, <1>2, <1>4, <1>6, <2>2 DEF R!Receive, RelayStart, RelayOutput
  <2> QED BY <2>3 DEF R!Next
<1>7. ASSUME NEW c \in ToSet(tailers), UNCHANGED <<received, joined, stdout>>,
             \A d \in Clients \ {c} : sent'[d] = sent[d], Len(sent'[c]) >= Len(sent[c])
      PROVE  [R!Next]_(R!vars)
  <2>1. /\ c \in Clients /\ joined[c] # -1 /\ joined[c] >= 0 /\ Cut(c) \in Nat
        /\ Cut(c) <= joined[c] /\ Cut(c)' = Cut(c)
    BY <1>1, <1>7, TailerType, CutsStay
  <2>2. /\ sent[c] \in Seq(0..MaxBytes) /\ sent'[c] \in Seq(0..MaxBytes)
    BY <1>1, <2>1 DEF TypeOK, ChannelTypes
  <2>3. joined[c] <= received /\ joined[c] \in Nat
    BY <2>1, TailerType DEF RelayInvariant, Streams
  <2>4. Cut(c) <= received
    BY <1>1, <2>1, <2>3
  <2>5. PICK l \in Nat :
          /\ (IF sent[c] = <<>> THEN <<>> ELSE Tail(sent[c])) = Bytes(Cut(c), Cut(c) + l)
          /\ l = IF sent[c] = <<>> THEN 0 ELSE Len(sent[c]) - 1
    <3>1. sent[c] # <<>> => /\ \A i \in 2..Len(sent[c]) : sent[c][i] = Cut(c) + i - 1
                            /\ Cut(c) + Len(sent[c]) - 1 <= received
      BY <2>1 DEF RelayInvariant, Streams, Sound
    <3> QED BY <1>1, <2>1, <2>2, <2>4, <3>1, ClientOutput, ZenonT(60)
  <2>6. PICK m \in Nat :
          /\ (IF sent'[c] = <<>> THEN <<>> ELSE Tail(sent'[c])) = Bytes(Cut(c), Cut(c) + m)
          /\ Cut(c) + m <= received
          /\ m = IF sent'[c] = <<>> THEN 0 ELSE Len(sent'[c]) - 1
    <3>1. sent'[c] # <<>> => /\ \A i \in 2..Len(sent'[c]) : sent'[c][i] = Cut(c) + i - 1
                             /\ Cut(c) + Len(sent'[c]) - 1 <= received
      BY <1>7, <2>1 DEF RelayInvariant, Streams, Sound
    <3> QED BY <1>1, <2>1, <2>2, <2>4, <3>1, ClientOutput
  <2>7. l <= m
    <3>1. /\ sent[c] # <<>> => Len(sent[c]) # 0
          /\ sent'[c] = <<>> => Len(sent'[c]) = 0
          /\ Len(sent[c]) \in Nat /\ Len(sent'[c]) \in Nat
      BY <2>2, EmptySeq, LenProperties
    <3>2. CASE sent'[c] = <<>>
      <4>1. Len(sent[c]) = 0
        BY <1>7, <3>1, <3>2
      <4>2. sent[c] = <<>>
        BY <3>1, <4>1
      <4> QED BY <2>5, <4>2
    <3>3. CASE sent'[c] # <<>> /\ sent[c] # <<>>
      <4>1. l = Len(sent[c]) - 1 /\ m = Len(sent'[c]) - 1
        BY <2>5, <2>6, <3>3
      <4> QED BY <1>7, <3>1, <4>1
    <3>4. CASE sent[c] = <<>>
      BY <2>5, <3>4
    <3> QED BY <3>2, <3>3, <3>4
  <2>8. c # "stdout" /\ RelayStart[c] = Cut(c)
    <3>1. ~ (joined[c] < 0)
      BY <2>3
    <3> QED BY <1>1, <2>1, <3>1 DEF RelayStart, Cut
  <2>9. RelayOutput[c] = Bytes(Cut(c), Cut(c) + l) /\ RelayOutput'[c] = Bytes(Cut(c), Cut(c) + m)
    BY <2>1, <2>5, <2>6, <2>8 DEF RelayOutput
  <2>10. \A q \in (Clients \cup {"stdout"}) \ {c} : RelayOutput'[q] = RelayOutput[q]
    BY <1>7 DEF RelayOutput
  <2>11. UNCHANGED <<received, TailCut(received), RelayStart>>
    BY <1>2, <1>3, <1>7
  <2>12. R!Deliver(c) \/ UNCHANGED R!vars
    BY <1>1, <2>1, <2>6, <2>7, <2>8, <2>9, <2>10, <2>11, DeliverOrNothing
  <2> QED BY <2>1, <2>12 DEF R!Next
<1>8. CASE stdout_write_blocking_or_break
  <2>1. UNCHANGED <<received, joined, sent>>
    BY <1>8 DEF stdout_write_blocking_or_break, conns, channel
  <2>2. /\ stdout \in Seq(1..MaxBytes) /\ stdout' \in Seq(1..MaxBytes)
        /\ \A i \in 1..Len(stdout) : stdout[i] = i
        /\ \A i \in 1..Len(stdout') : stdout'[i] = i
        /\ Len(stdout') <= received
    BY <1>1, <2>1 DEF RelayInvariant, Output, TypeOK, DataTypes
  <2>3. /\ stdout = Bytes(0, 0 + Len(stdout)) /\ Len(stdout) \in Nat
        /\ stdout' = Bytes(0, 0 + Len(stdout')) /\ Len(stdout') \in Nat
    BY <2>2, StdoutIsBytes
  <2>4. Len(stdout) <= Len(stdout')
    <3>1. PICK ok \in BOOLEAN : stdout_write_blocking(ok)
      BY <1>8 DEF stdout_write_blocking_or_break
    <3>2. PICK n \in 0..Len(data) : Len(stdout') = Len(stdout) + n
      BY <1>1, <3>1, StdoutWritten DEF TypeOK
    <3>3. n \in Nat
      BY <1>1, ReceivedType
    <3> QED BY <2>3, <3>2, <3>3
  <2>5. /\ RelayStart["stdout"] = 0 /\ RelayOutput["stdout"] = stdout
        /\ RelayOutput'["stdout"] = stdout'
        /\ \A q \in (Clients \cup {"stdout"}) \ {"stdout"} : RelayOutput'[q] = RelayOutput[q]
    BY <2>1 DEF RelayStart, RelayOutput
  <2>6. UNCHANGED <<received, TailCut(received), RelayStart>>
    BY <1>2, <1>3, <2>1
  <2>7. \A k, l, m \in Nat :
          /\ RelayStart["stdout"] = k /\ l <= m /\ k + m <= received
          /\ RelayOutput["stdout"] = Bytes(k, k + l)
          /\ RelayOutput'["stdout"] = Bytes(k, k + m)
          => R!Deliver("stdout") \/ UNCHANGED R!vars
    BY <1>1, <2>5, <2>6, DeliverOrNothing
  <2>8. 0 \in Nat /\ 0 + Len(stdout') <= received
    BY <2>2, <2>3
  <2>9. R!Deliver("stdout") \/ UNCHANGED R!vars
    BY <2>3, <2>4, <2>5, <2>7, <2>8
  <2> QED BY <2>9 DEF R!Next
<1>9. CASE unix_sock_cb_Accept
  <2> SUFFICES ASSUME NEW c, Head(backlog) = c
               PROVE  [R!Next]_(R!vars)
    OBVIOUS
  <2>1. /\ UNCHANGED <<received, sent, stdout>> /\ joined' = [joined EXCEPT ![c] = received]
        /\ backlog \in Seq(Clients) /\ backlog # <<>>
    BY <1>1, <1>9 DEF unix_sock_cb_Accept, serving, channel, TypeOK, ListTypes
  <2>2. c \in Clients /\ c \in ToSet(backlog)
    BY <2>1, TakeFirst
  <2>3. joined[c] = -1 /\ joined \in [Clients -> -1..MaxBytes] /\ ~ (received < 0) /\ -1 < 0
    BY <1>1, <2>2 DEF Structure, Lists, TypeOK, ClientTypes
  <2>4. RelayStart' = [RelayStart EXCEPT ![c] = TailCut(received)]
    <3>1. UNCHANGED <<count_lines, n_units, newlines>>
      BY OptionsStay DEF options
    <3>2. c # "stdout" /\ \A r \in Clients : joined'[r] = IF r = c THEN received ELSE joined[r]
      BY <1>1, <2>1, <2>2, <2>3
    <3>3. \A r \in Clients \cup {"stdout"} :
            RelayStart'[r] = IF r = c THEN TailCut(received) ELSE RelayStart[r]
      BY <2>2, <2>3, <3>1, <3>2 DEF RelayStart, TailCut
    <3> QED BY <2>2, <3>3 DEF RelayStart
  <2>5. RelayStart[c] = -1 /\ c \in Clients \cup {"stdout"}
    BY <1>1, <2>2, <2>3 DEF RelayStart
  <2>6. R!Join(c)
    BY <1>3, <1>4, <2>1, <2>4, <2>5 DEF R!Join, R!NotJoined, RelayStart, RelayOutput
  <2> QED BY <2>5, <2>6 DEF R!Next
<1>10. CASE stdin_cb_Read \/ stdin_cb_Break
  <2>1. UNCHANGED <<joined, sent, stdout>>
    BY <1>10 DEF stdin_cb_Read, stdin_cb_Break, conns, channel
  <2>2. received' = received \/ received < received'
    BY <1>1, <1>10, SizesAssumption DEF stdin_cb_Read, stdin_cb_Break
  <2> QED BY <1>5, <1>6, <2>1, <2>2
<1>11. CASE sockets_write_blocking \/ SendSize \/ SendTail
  BY <1>1, <1>5, <1>7, <1>11, SendsToOne
<1>12. CASE \/ init_all \/ Poll \/ Leave \/ libev_error_handler \/ sigint_cb
            \/ stdin_cb_Again \/ tailer_readable_cb_Again
  BY <1>5, <1>12 DEF init_all, Poll, Leave, libev_error_handler, sigint_cb,
       stdin_cb_Again, tailer_readable_cb_Again, ReadsNothing, serving, conns, channel
<1>13. CASE \/ unix_sock_cb \/ unix_sock_cb_Again \/ unix_sock_cb_Fail
            \/ \E c \in Clients : tailer_readable_cb(c)
  BY <1>5, <1>13 DEF unix_sock_cb, unix_sock_cb_Again, unix_sock_cb_Fail,
       tailer_readable_cb, serving, conns, channel
<1>14. CASE sockets_final \/ pipes_final \/ close_stdout
  BY <1>5, <1>14 DEF sockets_final, pipes_final, close_stdout, serving, conns, channel
<1>15. CASE Environment
  BY <1>5, <1>15, EnvironmentStep DEF serving
<1>16. CASE UNCHANGED vars
  BY <1>5, <1>16 DEF vars, serving, conns, channel
<1> QED BY <1>8, <1>9, <1>10, <1>11, <1>12, <1>13, <1>14, <1>15, <1>16 DEF Next, ServerStep

\* To stdout and to each client the server is the relay of Relay.tla: a reader gets, from
\* the cut of the tail on offer when it joined, the stream in order, and no failure, short
\* write or disconnection makes it get anything else.
THEOREM ServerIsARelay == Spec => RelaySpec
<1>1. Init => R!Init
  BY RelayInit
<1>2. RelayInvariant /\ RelayInvariant' /\ [Next]_vars => [R!Next]_(R!vars)
  BY RelayStep
<1> QED BY <1>1, <1>2, RelayInvariantAlways, PTL DEF Spec, RelaySpec, R!Spec
=================================================================================
