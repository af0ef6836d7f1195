--------------------------------- MODULE Buffer ---------------------------------
(***************************************************************************)
(* The tail buffer of tailserver and tailclient (src/buffer.c): a linked   *)
(* list of chunks of BUFSIZ bytes that remembers at least the last n_units *)
(* lines or bytes of a stream and knows where that tail starts.            *)
(*                                                                         *)
(* The chunks of the list are numbered in the order they were linked, so   *)
(* the list is chunk[first], ..., chunk[last].  A chunk does not hold      *)
(* characters: chunk[i].from is the cut of the stream where its bytes      *)
(* start, and its bytes are from+1 .. from+nbytes.  The newlines seen are  *)
(* the set newlines of stream positions.                                   *)
(*                                                                         *)
(* buffer_set_appended runs to completion in one thread; it is split at    *)
(* its loop and at the calls that may fail:                                *)
(*   Append; SkipBuffer*; PlaceTail; (RecycleFirst | Allocate | OutOfMemory) *)
(***************************************************************************)
EXTENDS Stream

CONSTANTS
  Modes,        \* the values of count_lines to consider
  Units,        \* the values of n_units to consider
  BufSize,      \* BUFSIZ
  UninitLines,  \* what append->nlines may hold after buffer_init, see there
  MaxBytes      \* bound: bytes fed in one behaviour

ASSUME ModesAssumption == Modes \subseteq BOOLEAN
ASSUME UnitsAssumption == Units \subseteq Nat
ASSUME BufSizeAssumption == BufSize \in Nat \ {0, 1}
ASSUME UninitAssumption == UninitLines \subseteq Nat
ASSUME MaxBytesAssumption == MaxBytes \in Nat

VARIABLES
  count_lines, n_units,             \* the configuration
  chunk, first, last,               \* the list of chunks
  append,                           \* the spare chunk that input is read into
  total_lines, total_bytes,         \* in the whole list
  tail_buffer, tail_offset,         \* where the tail starts
  lines_up_to_tail_buffer, bytes_up_to_tail_buffer,
  blocks,                           \* linebuffer_t's malloc'd and not freed
  pc,                               \* where in buffer_set_appended we are
  received, newlines                \* history: the stream fed so far

config  == <<count_lines, n_units>>
list    == <<chunk, first, last>>
totals  == <<total_lines, total_bytes>>
tailpos == <<tail_buffer, tail_offset,
             lines_up_to_tail_buffer, bytes_up_to_tail_buffer>>
stream  == <<received, newlines>>
vars    == <<config, list, append, totals, tailpos, blocks, pc, stream>>

\* append: NULL, or a chunk whose bytes have not been accounted for.
NULL     == [allocated |-> FALSE, nbytes |-> 0, nlines |-> 0]
Empty(g) == [allocated |-> TRUE, nbytes |-> 0, nlines |-> g]

Min2(a, b) == IF a < b THEN a ELSE b
---------------------------------------------------------------------------------
\* The configured buffer before buffer_init: every pointer is NULL.
Init ==
  /\ count_lines \in Modes
  /\ n_units \in Units
  /\ chunk = <<>> /\ first = 1 /\ last = 0
  /\ append = NULL
  /\ total_lines = 0 /\ total_bytes = 0
  /\ tail_buffer = 1 /\ tail_offset = 0
  /\ lines_up_to_tail_buffer = 0 /\ bytes_up_to_tail_buffer = 0
  /\ blocks = 0
  /\ pc = "start"
  /\ received = 0 /\ newlines = {}

FirstChunk == <<[from |-> 0, nbytes |-> 0, nlines |-> 0]>>

\* (When a malloc fails here the program exits without having done anything.)
\* Line 312 resets first->nlines a second time in place of append->nlines: the
\* latter keeps whatever malloc returned.
buffer_init ==
  /\ pc = "start"
  /\ chunk' = FirstChunk /\ last' = 1
  /\ \E g \in UninitLines : append' = Empty(g)
  /\ blocks' = 2
  /\ pc' = "idle"
  /\ UNCHANGED <<config, first, totals, tailpos, stream>>

---------------------------------------------------------------------------------
\* memchr looks for newlines only if lines are counted.
NewlineSets(lo, hi) == IF count_lines THEN SUBSET ((lo + 1)..hi) ELSE {{}}

\* buffer_set_appended(size): the size bytes that were read at buffer_end(), with
\* newlines at new, go to the end of the last chunk or become a chunk.
Append ==
  /\ pc = "idle"
  /\ \E size \in 1..Min2(BufSize, MaxBytes - received) :
     \E new \in NewlineSets(received, received + size) :
       LET nlines == append.nlines + Cardinality(new) IN
       /\ received' = received + size
       /\ newlines' = newlines \cup new
       /\ total_bytes' = total_bytes + size
       /\ total_lines' = IF count_lines THEN total_lines + nlines ELSE total_lines
       /\ \/ /\ size + chunk[last].nbytes < BufSize
             /\ chunk' = [chunk EXCEPT ![last] =
                            [from |-> @.from, nbytes |-> @.nbytes + size,
                             nlines |-> @.nlines + nlines]]
             /\ pc' = "copied"
             /\ UNCHANGED <<last, append>>
          \/ /\ size + chunk[last].nbytes >= BufSize
             /\ chunk' = [i \in first..(last + 1) |->
                            IF i <= last THEN chunk[i]
                            ELSE [from |-> received, nbytes |-> size,
                                  nlines |-> nlines]]
             /\ last' = last + 1
             /\ append' = NULL
             /\ pc' = "linked"
  /\ UNCHANGED <<config, first, tailpos, blocks>>

\* Mutant: only nbytes is reset, the lines of the recycled chunk are still counted.
ResetAppend_KeepsLines == append' = Empty(chunk[first].nlines)

\* append->nbytes = append->nlines = 0 (line 241) once the append is over.
ResetAppend == append' = Empty(0)

tracking == pc \in {"copied", "linked"}

\* The units of the list from the tail buffer on, and of the tail buffer.
UnitsFromTail ==
  IF count_lines THEN total_lines - lines_up_to_tail_buffer
                 ELSE total_bytes - bytes_up_to_tail_buffer
TailBufferUnits ==
  IF count_lines THEN chunk[tail_buffer].nlines ELSE chunk[tail_buffer].nbytes

Skippable == UnitsFromTail - TailBufferUnits > n_units

\* Mutant: pos = pos->next is forgotten.
SkipBuffer_Stuck == tracking /\ Skippable /\ UNCHANGED vars

\* First, skip over unneeded buffers: one turn of the while loop.
SkipBuffer ==
  /\ tracking
  /\ Skippable
  /\ bytes_up_to_tail_buffer' = bytes_up_to_tail_buffer + chunk[tail_buffer].nbytes
  /\ lines_up_to_tail_buffer' = IF count_lines
                                THEN lines_up_to_tail_buffer + chunk[tail_buffer].nlines
                                ELSE lines_up_to_tail_buffer
  /\ tail_buffer' = tail_buffer + 1
  /\ UNCHANGED <<config, list, append, totals, tail_offset, blocks, pc, stream>>

\* Mutant: one unit too many is kept.
Excess_OneLess == UnitsFromTail - n_units - 1

\* The units from the tail buffer on that are not part of the tail.
Excess == UnitsFromTail - n_units

\* The tail starts after the Excess-th newline or byte of the tail buffer.
IsTailOffset(o) ==
  LET from == chunk[tail_buffer].from IN
  /\ o \in 0..chunk[tail_buffer].nbytes
  /\ IF Excess <= 0 THEN o = 0
     ELSE IF count_lines
     THEN from + o \in newlines /\ NewlinesIn(newlines, from, from + o) = Excess
     ELSE o = Excess

\* Find the correct beginning, and don't allow a zero sized chunk there.
PlaceTail ==
  /\ tracking
  /\ ~Skippable
  /\ \E o \in 0..chunk[tail_buffer].nbytes :
       /\ IsTailOffset(o)
       /\ LET c == chunk[tail_buffer] IN
          \/ /\ o = c.nbytes /\ tail_buffer # last
             /\ bytes_up_to_tail_buffer' = bytes_up_to_tail_buffer + c.nbytes
             /\ lines_up_to_tail_buffer' = lines_up_to_tail_buffer + c.nlines
             /\ tail_buffer' = tail_buffer + 1
             /\ tail_offset' = 0
          \/ /\ o # c.nbytes \/ tail_buffer = last
             /\ tail_offset' = o
             /\ UNCHANGED <<bytes_up_to_tail_buffer, lines_up_to_tail_buffer,
                            tail_buffer>>
  /\ \/ pc = "copied" /\ pc' = "idle" /\ ResetAppend
     \/ pc = "linked" /\ pc' = "placed" /\ UNCHANGED append
  /\ UNCHANGED <<config, list, totals, blocks, stream>>

\* Mutant: the chunk where the tail starts counts as not needed.
first_buffer_droppable_TooEarly ==
  IF count_lines THEN total_lines - chunk[first].nlines >= n_units
                 ELSE total_bytes - chunk[first].nbytes >= n_units

\* Mutant: in bytes mode nothing is ever given back.
first_buffer_droppable_LinesOnly ==
  count_lines /\ total_lines - chunk[first].nlines > n_units

\* The first buffer is not needed for the tail.
first_buffer_droppable ==
  IF count_lines THEN total_lines - chunk[first].nlines > n_units
                 ELSE total_bytes - chunk[first].nbytes > n_units

\* Mutant: the lines of the recycled chunk stay in the count before the tail.
RecycleFirst_KeepsLines ==
  /\ pc = "placed"
  /\ first_buffer_droppable
  /\ total_bytes' = total_bytes - chunk[first].nbytes
  /\ total_lines' = total_lines - chunk[first].nlines
  /\ bytes_up_to_tail_buffer' = bytes_up_to_tail_buffer - chunk[first].nbytes
  /\ chunk' = [i \in (first + 1)..last |-> chunk[i]]
  /\ first' = first + 1
  /\ ResetAppend
  /\ pc' = "idle"
  /\ UNCHANGED <<config, last, tail_buffer, tail_offset, lines_up_to_tail_buffer,
                 blocks, stream>>

\* After linking append, the first buffer becomes the next append ...
RecycleFirst ==
  /\ pc = "placed"
  /\ first_buffer_droppable
  /\ total_bytes' = total_bytes - chunk[first].nbytes
  /\ total_lines' = total_lines - chunk[first].nlines
  /\ bytes_up_to_tail_buffer' = bytes_up_to_tail_buffer - chunk[first].nbytes
  /\ lines_up_to_tail_buffer' = lines_up_to_tail_buffer - chunk[first].nlines
  /\ chunk' = [i \in (first + 1)..last |-> chunk[i]]
  /\ first' = first + 1
  /\ ResetAppend
  /\ pc' = "idle"
  /\ UNCHANGED <<config, last, tail_buffer, tail_offset, blocks, stream>>

\* ... or a new one is malloc'd ...
Allocate ==
  /\ pc = "placed"
  /\ ~first_buffer_droppable
  /\ blocks' = blocks + 1
  /\ ResetAppend
  /\ pc' = "idle"
  /\ UNCHANGED <<config, list, totals, tailpos, stream>>

\* ... unless malloc fails: append stays NULL and the caller gives up.
OutOfMemory ==
  /\ pc = "placed"
  /\ ~first_buffer_droppable
  /\ pc' = "oom"
  /\ UNCHANGED <<config, list, append, totals, tailpos, blocks, stream>>

\* Mutant: append is not freed.
buffer_final_LeaksAppend ==
  /\ pc \in {"idle", "oom"}
  /\ blocks' = blocks - (last - first + 1)
  /\ pc' = "final"
  /\ UNCHANGED <<config, list, append, totals, tailpos, stream>>

\* Frees every chunk of the list, and append unless it is NULL.
buffer_final ==
  /\ pc \in {"idle", "oom"}
  /\ blocks' = blocks - (last - first + 1) - (IF append.allocated THEN 1 ELSE 0)
  /\ pc' = "final"
  /\ UNCHANGED <<config, list, append, totals, tailpos, stream>>

buffer_set_appended ==
  Append \/ SkipBuffer \/ PlaceTail \/ RecycleFirst \/ Allocate \/ OutOfMemory

Next == buffer_init \/ buffer_set_appended \/ buffer_final

Spec == Init /\ [][Next]_vars

\* The code between two returns to its caller runs on its own.
FairSpec ==
  /\ Spec
  /\ WF_vars(SkipBuffer) /\ WF_vars(PlaceTail)
  /\ WF_vars(RecycleFirst) /\ WF_vars(Allocate \/ OutOfMemory)
---------------------------------------------------------------------------------
(***************************************************************************)
(* The reading side: buffer_tail_size, buffer_get_tail_chunk and _offset,  *)
(* buffer_chunk_size and buffer_advance_chunk, as their callers combine    *)
(* them: chunk after chunk until one has size 0 or the list ends.          *)
(***************************************************************************)
Readable == pc \in {"idle", "placed", "oom"}

\* Mutant: the part of the tail buffer before the tail is announced too.
buffer_tail_size_WholeChunk == total_bytes - bytes_up_to_tail_buffer

buffer_tail_size == total_bytes - bytes_up_to_tail_buffer - tail_offset

TailCut == chunk[tail_buffer].from + tail_offset

ReadChunks ==
  {i \in tail_buffer..last : \A j \in tail_buffer..i : chunk[j].nbytes > 0}

\* Mutant: the walk does not reset the offset after the first chunk.
ReadFrom_KeepsOffset(i) == chunk[i].from + tail_offset

ReadFrom(i) == chunk[i].from + IF i = tail_buffer THEN tail_offset ELSE 0
ReadTo(i) == chunk[i].from + chunk[i].nbytes
---------------------------------------------------------------------------------
PCs == {"start", "idle", "copied", "linked", "placed", "oom", "final"}

\* Type invariant: the list is first..last with a record for each chunk, and the
\* counters are integers (that they never go below 0 is CountersMatchList).
TypeOK ==
  /\ count_lines \in Modes /\ n_units \in Units
  /\ first \in Nat \ {0} /\ last \in Nat
  /\ chunk \in [first..last -> [from : Nat, nbytes : Nat, nlines : Nat]]
  /\ append \in [allocated : BOOLEAN, nbytes : {0}, nlines : Nat]
  /\ total_lines \in Int /\ total_bytes \in Int
  /\ tail_buffer \in Nat /\ tail_offset \in Nat
  /\ lines_up_to_tail_buffer \in Int /\ bytes_up_to_tail_buffer \in Int
  /\ blocks \in Int
  /\ pc \in PCs
  /\ received \in Nat /\ newlines \subseteq 1..received

\* The promise of buffer_set_appended: once it has placed the tail, the tail is
\* the last n_units lines or bytes of everything that was ever appended, however
\* the input was cut into reads, whichever chunks were filled, linked or dropped.
TailIsLastUnits ==
  Readable => IsTailStart(count_lines, n_units, newlines, received, TailCut)

\* assert(beg), buffer.c:108, and the remarks at 103 and 128: once the walk over
\* the chunks ends, the newline or byte to start after is in the tail buffer.
AssertBeg ==
  tracking /\ ~Skippable =>
    \E o \in 0..chunk[tail_buffer].nbytes : IsTailOffset(o)

\* assert(first != tail_buffer), buffer.c:220: a chunk that is given back to read
\* input into holds no byte of the tail. And the walk never leaves the list,
\* though it follows tail_buffer->next without looking.
TailStaysInList ==
  /\ pc = "placed" /\ first_buffer_droppable => first # tail_buffer
  /\ pc # "start" => tail_buffer \in first..last

\* The running totals, updated piecemeal by append, walk and recycling, always
\* describe the list they belong to; so the unsigned differences the code takes
\* of them never wrap.
CountersMatchList ==
  pc # "start" =>
    /\ total_bytes = received - chunk[first].from
    /\ bytes_up_to_tail_buffer = chunk[tail_buffer].from - chunk[first].from
    /\ bytes_up_to_tail_buffer \in 0..total_bytes
    /\ count_lines =>
         /\ total_lines = NewlinesIn(newlines, chunk[first].from, received)
         /\ lines_up_to_tail_buffer =
              NewlinesIn(newlines, chunk[first].from, chunk[tail_buffer].from)

(***************************************************************************)
(* The inductive invariant behind the above.                               *)
(***************************************************************************)
\* Static variables are zero until buffer_init.
StartInv ==
  pc = "start" =>
    /\ first = 1 /\ tail_buffer = 1 /\ tail_offset = 0
    /\ total_lines = 0 /\ total_bytes = 0
    /\ lines_up_to_tail_buffer = 0 /\ bytes_up_to_tail_buffer = 0
    /\ received = 0 /\ newlines = {}

\* The list holds a contiguous stretch of the stream up to its end; only its very
\* first chunk can be empty.
ListInv ==
  pc # "start" =>
    /\ tail_buffer \in first..last
    /\ chunk[last].from + chunk[last].nbytes = received
    /\ \A i, j \in first..last :
         /\ j = i + 1 => chunk[j].from = chunk[i].from + chunk[i].nbytes
         /\ i < j => chunk[i].from + chunk[i].nbytes <= chunk[j].from
    /\ \A i \in first..last :
         /\ chunk[i].from + chunk[i].nbytes <= received
         /\ i # first => chunk[i].nbytes > 0
         /\ count_lines => chunk[i].nlines =
              NewlinesIn(newlines, chunk[i].from, chunk[i].from + chunk[i].nbytes)

\* An append starts from a clean spare chunk; once it has linked it, the list has
\* a second chunk and append is NULL until it gets another.
AppendInv ==
  /\ pc \in {"idle", "copied"} => append.allocated
  /\ pc \in {"linked", "placed", "oom"} => ~append.allocated
  /\ count_lines => append.nlines = 0
  /\ pc \in {"linked", "placed"} => first < last

\* Outside a call the tail is right and starts in a chunk that is not used up;
\* during the walk the tail starts in the tail buffer or in a later chunk.
TailInv ==
  /\ Readable =>
       /\ IsTailStart(count_lines, n_units, newlines, received, TailCut)
       /\ tail_offset <= chunk[tail_buffer].nbytes
       /\ chunk[tail_buffer].nbytes > 0 \/ tail_buffer = last
  /\ tracking =>
       TailNotBefore(count_lines, n_units, newlines, received, chunk[tail_buffer].from)

\* The invariant of Buffer.tla that every step preserves.
Inv == TypeOK /\ StartInv /\ ListInv /\ CountersMatchList /\ AppendInv /\ TailInv

\* What a caller gets by walking the chunks (tailer_send_buffered_tail,
\* output_buffered_tail) is the tail, all of it, in order and without a gap: no
\* chunk of size 0 ends the walk early. buffer_tail_size announces its length.
WalkReadsTail ==
  Readable =>
    /\ UNION {(ReadFrom(i) + 1)..ReadTo(i) : i \in ReadChunks}
         = (TailCut + 1)..received
    /\ \A i, j \in ReadChunks : i < j => ReadTo(i) <= ReadFrom(j)
    /\ buffer_tail_size = received - TailCut

\* Every chunk fits its array, and the malloc'd chunks are those of the list and
\* append: none is leaked, by a failed malloc and buffer_final either.
BlocksAccounted ==
  /\ pc # "start" => \A i \in first..last : chunk[i].nbytes <= BufSize
  /\ pc \notin {"start", "final"} =>
       blocks = last - first + 1 + IF append.allocated THEN 1 ELSE 0
  /\ pc = "final" => blocks = 0

\* Two neighbours of the list hold BufSize bytes at least, and each append that
\* links a chunk recycles one when it can: with -c the memory in use stays within
\* a constant of twice the tail, however long the stream.
BytesTailBounded ==
  ~count_lines /\ pc # "start" => blocks <= 2 * (n_units \div BufSize) + 3

\* The buffer, seen between its calls, is the tail of LastUnits.tla.
Promise == INSTANCE LastUnits WITH tail <- IF Readable THEN TailCut ELSE -1
TailSpec == Promise!Spec

\* Every append returns to its caller: the walk and the search end.
AppendReturns == tracking \/ pc = "placed" ~> pc \in {"idle", "oom"}
=================================================================================
