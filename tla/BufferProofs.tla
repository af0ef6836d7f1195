------------------------------ MODULE BufferProofs ------------------------------
(***************************************************************************)
(* Theorems about Buffer.tla, for every BUFSIZ, every number of units and  *)
(* every stream: the tail is right whenever it can be read, the assertions *)
(* of the code hold, and the buffer implements LastUnits.tla.                   *)
(*                                                                         *)
(* They assume that a buffer that counts lines starts with a spare chunk   *)
(* whose nlines is 0, which buffer_init leaves to chance.                  *)
(***************************************************************************)
EXTENDS Buffer, StreamProofs

CleanAppend == TRUE \in Modes => UninitLines = {0}

U(lo, hi) == UnitsIn(count_lines, newlines, lo, hi)

\* The newlines seen are finitely many positions of the stream.
LEMMA NewlinesFinite ==
  ASSUME TypeOK
  PROVE  /\ newlines \in SUBSET Int /\ IsFiniteSet(newlines)
         /\ \A p \in newlines : 0 < p /\ p <= received
<1>1. newlines \in SUBSET (1..received) /\ received \in Nat
  BY DEF TypeOK
<1>2. IsFiniteSet(1..received)
  BY <1>1, FS_Interval
<1>3. IsFiniteSet(newlines)
  BY <1>1, <1>2, FS_Subset
<1> QED BY <1>1, <1>3

\* The list in terms of cuts of the stream.
LEMMA ListTypes ==
  ASSUME TypeOK, ListInv, pc # "start"
  PROVE  /\ first \in Nat \ {0} /\ last \in Nat /\ tail_buffer \in first..last
         /\ first <= last
         /\ \A i \in first..last :
              /\ chunk[i].from \in Nat /\ chunk[i].nbytes \in Nat
              /\ chunk[i].nlines \in Nat
              /\ chunk[i].from + chunk[i].nbytes \in 0..received
              /\ chunk[i].from \in 0..received
<1>1. first \in Nat \ {0} /\ last \in Nat /\ tail_buffer \in first..last
  BY DEF TypeOK, ListInv
<1>2. first <= last
  BY <1>1
<1>3. ASSUME NEW i \in first..last
      PROVE  /\ chunk[i].from \in Nat /\ chunk[i].nbytes \in Nat
             /\ chunk[i].nlines \in Nat
             /\ chunk[i].from + chunk[i].nbytes <= received
  BY DEF TypeOK, ListInv
<1>4. received \in Nat
  BY DEF TypeOK
<1> QED BY <1>1, <1>2, <1>3, <1>4

\* What the code computes from its counters is the number of units it means.
LEMMA UnitCounts ==
  ASSUME TypeOK, ListInv, CountersMatchList, pc # "start"
  PROVE  /\ UnitsFromTail = U(chunk[tail_buffer].from, received)
         /\ TailBufferUnits =
              U(chunk[tail_buffer].from,
                chunk[tail_buffer].from + chunk[tail_buffer].nbytes)
         /\ first_buffer_droppable <=>
              U(chunk[first].from + chunk[first].nbytes, received) > n_units
<1> DEFINE f == chunk[first].from
           t == chunk[tail_buffer].from
           g == chunk[first].from + chunk[first].nbytes
<1>a. /\ first \in first..last /\ tail_buffer \in first..last
      /\ received \in Nat /\ count_lines \in BOOLEAN
  BY ListTypes, ModesAssumption DEF TypeOK
<1>b. /\ f \in 0..received /\ t \in 0..received /\ g \in 0..received
      /\ chunk[first].nbytes \in Nat /\ chunk[tail_buffer].nbytes \in Nat
  BY <1>a, ListTypes
<1>c. /\ total_bytes = received - f
      /\ bytes_up_to_tail_buffer = t - f
      /\ bytes_up_to_tail_buffer >= 0
  BY <1>a, <1>b DEF CountersMatchList
<1>1. f <= g /\ f <= t
  <2> HIDE DEF t
  <2> QED BY <1>b, <1>c
<1>2. newlines \in SUBSET Int /\ IsFiniteSet(newlines)
  BY NewlinesFinite
<1>3. CASE ~count_lines
  <2>1. total_bytes - bytes_up_to_tail_buffer = received - t
    <3> HIDE DEF t, f
    <3> QED BY <1>a, <1>b, <1>c
  <2>2. TailBufferUnits = (t + chunk[tail_buffer].nbytes) - t
    <3>1. TailBufferUnits = chunk[tail_buffer].nbytes
      BY <1>3 DEF TailBufferUnits
    <3> HIDE DEF t
    <3> QED BY <1>b, <3>1
  <2>3. total_bytes - chunk[first].nbytes = received - g
    BY <1>a, <1>b, <1>c
  <2> QED BY <1>3, <2>1, <2>2, <2>3
          DEF UnitsFromTail, first_buffer_droppable, U, UnitsIn
<1>4. CASE count_lines
  <2>1. /\ total_lines = NewlinesIn(newlines, f, received)
        /\ lines_up_to_tail_buffer = NewlinesIn(newlines, f, t)
    BY <1>4 DEF CountersMatchList
  <2>3. NewlinesIn(newlines, f, received)
          = NewlinesIn(newlines, f, t) + NewlinesIn(newlines, t, received)
    BY <1>a, <1>b, <1>1, <1>2, NewlinesInAdd
  <2>4. NewlinesIn(newlines, f, received)
          = NewlinesIn(newlines, f, g) + NewlinesIn(newlines, g, received)
    BY <1>a, <1>b, <1>1, <1>2, NewlinesInAdd
  <2>5. /\ NewlinesIn(newlines, f, t) \in Nat
        /\ NewlinesIn(newlines, t, received) \in Nat
        /\ NewlinesIn(newlines, f, g) \in Nat
        /\ NewlinesIn(newlines, g, received) \in Nat
    BY <1>2, NewlinesInType
  <2>6. /\ chunk[first].nlines = NewlinesIn(newlines, f, g)
        /\ chunk[tail_buffer].nlines =
             NewlinesIn(newlines, t, t + chunk[tail_buffer].nbytes)
    BY <1>a, <1>4 DEF ListInv
  <2> HIDE DEF f, t, g
  <2>7. total_lines - lines_up_to_tail_buffer = NewlinesIn(newlines, t, received)
    BY <2>1, <2>3, <2>5
  <2>8. total_lines - chunk[first].nlines = NewlinesIn(newlines, g, received)
    BY <2>1, <2>4, <2>5, <2>6
  <2> QED BY <1>4, <2>6, <2>7, <2>8
          DEF UnitsFromTail, TailBufferUnits, first_buffer_droppable, U, UnitsIn, t, g
<1> QED BY <1>a, <1>3, <1>4
---------------------------------------------------------------------------------
(***************************************************************************)
(* Every step preserves Inv.                                               *)
(***************************************************************************)
LEMMA InitInv == Init => Inv
<1> SUFFICES ASSUME Init PROVE Inv
  OBVIOUS
<1>1. TypeOK
  <2>1. chunk \in [first..last -> [from : Nat, nbytes : Nat, nlines : Nat]]
    <3>1. first..last = {}
      BY DEF Init
    <3>2. chunk = [i \in {} |-> 0]
      BY DEF Init
    <3> QED BY <3>1, <3>2
  <2>2. append \in [allocated : BOOLEAN, nbytes : {0}, nlines : Nat]
    BY DEF Init, NULL
  <2> QED BY <2>1, <2>2 DEF Init, TypeOK, PCs
<1>2. ListInv /\ CountersMatchList
  BY DEF Init, ListInv, CountersMatchList
<1>3. AppendInv
  BY DEF Init, AppendInv, NULL
<1>4. TailInv
  BY DEF Init, TailInv, Readable, tracking
<1>5. StartInv
  BY DEF Init, StartInv
<1> QED BY <1>1, <1>2, <1>3, <1>4, <1>5 DEF Inv

LEMMA buffer_initKeepsInv ==
  ASSUME CleanAppend, Inv, buffer_init
  PROVE  Inv'
<1> DEFINE c == [from |-> 0, nbytes |-> 0, nlines |-> 0]
<1>1. PICK g \in UninitLines : append' = Empty(g)
  BY DEF buffer_init
<1>2. /\ pc' = "idle" /\ last' = 1 /\ blocks' = 2
      /\ UNCHANGED <<count_lines, n_units, first, total_lines, total_bytes,
                     tail_buffer, tail_offset, lines_up_to_tail_buffer,
                     bytes_up_to_tail_buffer, received, newlines>>
      /\ chunk' = <<c>>
  BY DEF buffer_init, FirstChunk, config, totals, tailpos, stream
<1>3. /\ first = 1 /\ tail_buffer = 1 /\ tail_offset = 0
      /\ total_bytes = 0 /\ total_lines = 0
      /\ bytes_up_to_tail_buffer = 0 /\ lines_up_to_tail_buffer = 0
      /\ received = 0 /\ newlines = {}
  BY DEF Inv, StartInv, buffer_init
<1>4. chunk' = [i \in {1} |-> c] /\ first'..last' = {1} /\ c \in [from : Nat, nbytes : Nat, nlines : Nat]
  BY <1>2, <1>3
<1>5. TypeOK'
  <2>1. append' \in [allocated : BOOLEAN, nbytes : {0}, nlines : Nat]
    BY <1>1, UninitAssumption DEF Empty
  <2>2. chunk' \in [first'..last' -> [from : Nat, nbytes : Nat, nlines : Nat]]
    BY <1>4
  <2> HIDE DEF c
  <2> QED BY <1>2, <1>3, <2>1, <2>2 DEF Inv, TypeOK, PCs
<1>6. chunk'[1].from = 0 /\ chunk'[1].nbytes = 0 /\ chunk'[1].nlines = 0
  BY <1>4
<1>n. NewlinesIn(newlines', 0, 0) = 0
  BY <1>2, <1>3, NewlinesInNothing
<1> HIDE DEF c
<1>7. ListInv'
  BY <1>2, <1>3, <1>6, <1>n DEF ListInv
<1>8. CountersMatchList'
  BY <1>2, <1>3, <1>6, <1>n DEF CountersMatchList
<1>9. AppendInv'
  <2>1. append'.allocated /\ append'.nlines = g
    BY <1>1 DEF Empty
  <2>2. count_lines' => g = 0
    BY <1>2, ModesAssumption DEF CleanAppend, Inv, TypeOK
  <2> QED BY <1>2, <2>1, <2>2 DEF AppendInv
<1>10. TailInv'
  <2>1. n_units' \in Nat
    BY <1>2, UnitsAssumption DEF Inv, TypeOK
  <2>2. IsTailStart(count_lines', n_units', newlines', received', 0)
    BY <1>2, <1>3, <1>n, <2>1 DEF IsTailStart, UnitsIn
  <2> QED BY <1>2, <1>3, <1>6, <2>2 DEF TailInv, Readable, tracking, TailCut
<1>11. StartInv'
  BY <1>2 DEF StartInv
<1> QED BY <1>5, <1>7, <1>8, <1>9, <1>10, <1>11 DEF Inv

LEMMA AppendKeepsInv ==
  ASSUME Inv, Append
  PROVE  Inv'
<1> DEFINE R == [from : Nat, nbytes : Nat, nlines : Nat]
<1> USE DEF Inv
<1>1. pc = "idle" /\ UNCHANGED <<count_lines, n_units, first, tail_buffer, tail_offset,
        lines_up_to_tail_buffer, bytes_up_to_tail_buffer, blocks>>
  BY DEF Append, config, tailpos
<1> DEFINE Effect(size, new) ==
          /\ received' = received + size
          /\ newlines' = newlines \cup new
          /\ total_bytes' = total_bytes + size
          /\ total_lines' = IF count_lines
                            THEN total_lines + (append.nlines + Cardinality(new))
                            ELSE total_lines
          /\ \/ /\ size + chunk[last].nbytes < BufSize
                /\ chunk' = [chunk EXCEPT ![last] =
                     [from |-> @.from, nbytes |-> @.nbytes + size,
                      nlines |-> @.nlines + (append.nlines + Cardinality(new))]]
                /\ pc' = "copied"
                /\ UNCHANGED <<last, append>>
             \/ /\ size + chunk[last].nbytes >= BufSize
                /\ chunk' = [i \in first..(last + 1) |->
                               IF i <= last THEN chunk[i]
                               ELSE [from |-> received, nbytes |-> size,
                                     nlines |-> append.nlines + Cardinality(new)]]
                /\ last' = last + 1
                /\ append' = NULL
                /\ pc' = "linked"
<1>s. PICK size \in 1..Min2(BufSize, MaxBytes - received) :
        \E new \in NewlineSets(received, received + size) : Effect(size, new)
  BY DEF Append
<1>n. PICK new \in NewlineSets(received, received + size) : Effect(size, new)
  BY <1>s
<1> DEFINE k == Cardinality(new)
           a == append.nlines + k
<1>2. /\ received' = received + size
      /\ newlines' = newlines \cup new
      /\ total_bytes' = total_bytes + size
      /\ total_lines' = IF count_lines THEN total_lines + a ELSE total_lines
  BY <1>n
<1>3. /\ size \in Nat \ {0} /\ received \in Nat
      /\ count_lines \in BOOLEAN /\ n_units \in Nat
      /\ new \in SUBSET ((received + 1)..(received + size))
  <2>1. size \in Nat \ {0}
    BY BufSizeAssumption, MaxBytesAssumption DEF TypeOK, Min2
  <2>2. new \in SUBSET ((received + 1)..(received + size))
    BY DEF NewlineSets
  <2> QED BY <2>1, <2>2, ModesAssumption, UnitsAssumption DEF TypeOK
<1>4. /\ newlines \in SUBSET Int /\ IsFiniteSet(newlines)
      /\ \A p \in newlines : 0 < p /\ p <= received
  BY NewlinesFinite
<1>5. /\ newlines' \in SUBSET Int /\ IsFiniteSet(newlines')
      /\ new \in SUBSET Int /\ IsFiniteSet(new) /\ k \in Nat
      /\ \A p \in new : received < p /\ p <= received + size
      /\ \A lo, hi \in 0..received :
           NewlinesIn(newlines', lo, hi) = NewlinesIn(newlines, lo, hi)
      /\ \A lo \in 0..received :
           NewlinesIn(newlines', lo, received') = NewlinesIn(newlines, lo, received) + k
  <2>1. newlines' = newlines \cup new /\ received' = received + size
    BY <1>2
  <2>2. size \in Nat /\ received \in Nat /\ new \in SUBSET ((received + 1)..(received + size))
    BY <1>3
  <2>3. \A p \in newlines : p <= received
    BY <1>4
  <2>4. /\ newlines \cup new \in SUBSET Int /\ IsFiniteSet(newlines \cup new)
        /\ new \in SUBSET Int /\ IsFiniteSet(new) /\ Cardinality(new) \in Nat
        /\ \A p \in new : received < p /\ p <= received + size
        /\ \A lo, hi \in 0..received :
             NewlinesIn(newlines \cup new, lo, hi) = NewlinesIn(newlines, lo, hi)
        /\ \A lo \in 0..received :
             NewlinesIn(newlines \cup new, lo, received + size)
               = NewlinesIn(newlines, lo, received) + Cardinality(new)
    <3>1. newlines \in SUBSET Int /\ IsFiniteSet(newlines)
      BY <1>4
    <3> HIDE DEF Inv
    <3>2. newlines \cup new \in SUBSET Int /\ IsFiniteSet(newlines \cup new)
      BY <2>2, <2>3, <3>1, NewlinesInGrown
    <3>3. new \in SUBSET Int /\ IsFiniteSet(new) /\ Cardinality(new) \in Nat
      BY <2>2, <2>3, <3>1, NewlinesInGrown
    <3>4. \A p \in new : received < p /\ p <= received + size
      BY <2>2, <2>3, <3>1, NewlinesInGrown
    <3>5. ASSUME NEW lo \in 0..received, NEW hi \in 0..received
          PROVE  NewlinesIn(newlines \cup new, lo, hi) = NewlinesIn(newlines, lo, hi)
      <4>1. lo \in Int /\ hi \in Int /\ \A p \in new : hi < p
        <5>1. ASSUME NEW p \in new PROVE hi < p
          BY <2>2, <3>3, <3>4
        <5> QED BY <2>2, <5>1
      <4> QED BY <3>1, <3>3, <4>1, NewlinesInOld
    <3>6. ASSUME NEW lo \in 0..received
          PROVE  NewlinesIn(newlines \cup new, lo, received + size)
                   = NewlinesIn(newlines, lo, received) + Cardinality(new)
      BY <2>2, <2>3, <3>1, NewlinesInAdded
    <3> QED BY <3>2, <3>3, <3>4, <3>5, <3>6
  <2> QED BY <2>1, <2>4
<1>6. newlines' \subseteq 1..received'
  BY <1>2, <1>3, <1>5 DEF TypeOK
<1>7. /\ first \in Nat \ {0} /\ last \in Nat /\ tail_buffer \in first..last
      /\ first <= last
      /\ \A i \in first..last :
           /\ chunk[i].from \in Nat /\ chunk[i].nbytes \in Nat
           /\ chunk[i].nlines \in Nat
           /\ chunk[i].from + chunk[i].nbytes \in 0..received
           /\ chunk[i].from \in 0..received
  BY <1>1, ListTypes
<1>8. append.nlines \in Nat /\ (count_lines => append.nlines = 0)
  BY DEF TypeOK, AppendInv
<1>9. a \in Nat /\ (count_lines => a = k)
  BY <1>5, <1>8
<1> DEFINE copied == [from |-> chunk[last].from, nbytes |-> chunk[last].nbytes + size,
                      nlines |-> chunk[last].nlines + a]
           linked == [from |-> received, nbytes |-> size, nlines |-> a]
<1>c. \/ /\ pc' = "copied" /\ last' = last /\ append' = append
         /\ chunk' = [chunk EXCEPT ![last] = copied]
      \/ /\ pc' = "linked" /\ last' = last + 1 /\ append' = NULL
         /\ chunk' = [i \in first..(last + 1) |-> IF i <= last THEN chunk[i] ELSE linked]
  BY <1>n
<1>10. \A i \in first..last : chunk'[i].from = chunk[i].from
  <2>1. CASE pc' = "copied"
    <3>1. chunk' = [chunk EXCEPT ![last] = copied]
      BY <1>c, <2>1
    <3>2. chunk \in [first..last -> R]
      BY DEF TypeOK
    <3>3. copied.from = chunk[last].from
      OBVIOUS
    <3> HIDE DEF copied
    <3> QED BY <3>1, <3>2, <3>3
  <2>2. CASE pc' = "linked"
    <3>1. chunk' = [i \in first..(last + 1) |-> IF i <= last THEN chunk[i] ELSE linked]
      BY <1>c, <2>2
    <3> HIDE DEF linked
    <3> QED BY <1>7, <3>1
  <2> QED BY <1>c, <2>1, <2>2
<1> HIDE DEF Effect, k, a
<1>11. CountersMatchList'
  <2>1. chunk'[first].from = chunk[first].from
        /\ chunk'[tail_buffer].from = chunk[tail_buffer].from
    BY <1>7, <1>10
  <2>2. /\ chunk[first].from \in 0..received /\ chunk[tail_buffer].from \in 0..received
    BY <1>7
  <2> DEFINE f == chunk[first].from
             t == chunk[tail_buffer].from
  <2>3. /\ total_bytes = received - f
        /\ bytes_up_to_tail_buffer = t - f
        /\ bytes_up_to_tail_buffer \in 0..total_bytes
        /\ count_lines =>
             /\ total_lines = NewlinesIn(newlines, f, received)
             /\ lines_up_to_tail_buffer = NewlinesIn(newlines, f, t)
    BY <1>1 DEF CountersMatchList
  <2> HIDE DEF f, t
  <2>4. /\ total_bytes' = received' - f
        /\ bytes_up_to_tail_buffer' = t - f
        /\ bytes_up_to_tail_buffer' \in 0..total_bytes'
    BY <1>1, <1>2, <1>3, <2>2, <2>3 DEF f, t
  <2>5. ASSUME count_lines
        PROVE  /\ total_lines' = NewlinesIn(newlines', f, received')
               /\ lines_up_to_tail_buffer' = NewlinesIn(newlines', f, t)
    <3>1. NewlinesIn(newlines', f, received') = NewlinesIn(newlines, f, received) + k
      BY <1>5, <2>2 DEF f
    <3>2. NewlinesIn(newlines', f, t) = NewlinesIn(newlines, f, t)
      BY <1>5, <2>2 DEF f, t
    <3> QED BY <1>1, <1>2, <1>9, <2>3, <2>5, <3>1, <3>2
  <2> QED BY <1>1, <2>1, <2>4, <2>5 DEF CountersMatchList, f, t
<1>12. ASSUME pc' \in {"copied", "linked"} PROVE TailInv'
  <2>1. /\ IsTailStart(count_lines, n_units, newlines, received, TailCut)
        /\ tail_offset \in Nat
        /\ tail_offset <= chunk[tail_buffer].nbytes
    BY <1>1 DEF TailInv, Readable, TypeOK
  <2>2. TailCut \in 0..received /\ chunk[tail_buffer].from \in 0..TailCut
    <3> DEFINE f == chunk[tail_buffer].from
               b == chunk[tail_buffer].nbytes
    <3>1. f \in Nat /\ b \in Nat /\ f + b \in 0..received /\ received \in Nat
      BY <1>3, <1>7
    <3>2. TailCut = f + tail_offset /\ tail_offset <= b
      BY <2>1 DEF TailCut
    <3> HIDE DEF f, b
    <3>3. f + tail_offset \in 0..received /\ f \in 0..(f + tail_offset)
      BY <2>1, <3>1, <3>2
    <3> QED BY <3>2, <3>3 DEF f
  <2>3. TailNotBefore(count_lines, n_units, newlines, received, chunk[tail_buffer].from)
    BY <1>3, <1>4, <2>1, <2>2, TailIsNotBefore
  <2>4. TailNotBefore(count_lines, n_units, newlines \cup new, received + size,
                      chunk[tail_buffer].from)
    <3>1. chunk[tail_buffer].from \in 0..received /\ \A p \in new : received < p
      BY <1>5, <1>7
    <3>2. size \in Nat
      BY <1>3
    <3> QED BY <1>3, <1>4, <1>5, <2>3, <3>1, <3>2, TailNotBeforeGrows
  <2>5. ~Readable'
    BY <1>12 DEF Readable
  <2> QED BY <1>1, <1>2, <1>7, <1>10, <2>4, <2>5 DEF TailInv
<1>13. CASE pc' = "copied"
  <2> DEFINE c == copied
  <2>1. /\ last' = last /\ append' = append
        /\ chunk' = [chunk EXCEPT ![last] = c]
    BY <1>13, <1>c
  <2>2. c.from = chunk[last].from /\ c.nbytes = chunk[last].nbytes + size
        /\ c.nlines = chunk[last].nlines + a /\ c \in R /\ chunk[last] \in R
    <3>1. chunk[last] \in R
      BY <1>7 DEF TypeOK
    <3>2. chunk[last].nbytes + size \in Nat /\ chunk[last].nlines + a \in Nat
      BY <1>3, <1>7, <1>9
    <3> QED BY <3>1, <3>2
  <2> HIDE DEF c
  <2>3. chunk' \in [first..last -> R] /\ chunk'[last] = c
        /\ \A i \in first..last : i # last => chunk'[i] = chunk[i]
    BY <1>7, <2>1, <2>2, SMTT(40) DEF TypeOK
  <2>4. TypeOK'
    <3>1. total_lines' \in Int /\ total_bytes' \in Int /\ received' \in Nat
      BY <1>2, <1>3, <1>9 DEF TypeOK
    <3> QED BY <1>1, <1>6, <1>13, <2>1, <2>3, <3>1 DEF TypeOK, PCs
  <2>5. ListInv'
    <3>1. chunk[last].from + chunk[last].nbytes = received
      BY <1>1 DEF ListInv
    <3>2. c.from + c.nbytes = received'
      BY <1>2, <1>3, <1>7, <2>2, <3>1
    <3>3. count_lines => c.nlines = NewlinesIn(newlines', c.from, c.from + c.nbytes)
      <4>1. NewlinesIn(newlines', c.from, received')
              = NewlinesIn(newlines, c.from, received) + k
        BY <1>5, <1>7, <2>2
      <4>2. count_lines => chunk[last].nlines = NewlinesIn(newlines, c.from, received)
        BY <1>1, <1>7, <2>2, <3>1 DEF ListInv
      <4> QED BY <1>9, <2>2, <3>2, <4>1, <4>2
    <3>4. ASSUME NEW i \in first..last
          PROVE  /\ chunk'[i].from + chunk'[i].nbytes <= received'
                 /\ i # first => chunk'[i].nbytes > 0
                 /\ count_lines => chunk'[i].nlines =
                      NewlinesIn(newlines', chunk'[i].from,
                                 chunk'[i].from + chunk'[i].nbytes)
      <4>1. CASE i = last
        <5>1. c.nbytes > 0
          BY <1>3, <1>7, <2>2
        <5>2. c.from + c.nbytes <= received'
          BY <1>2, <1>3, <3>2
        <5> QED BY <2>3, <3>3, <4>1, <5>1, <5>2
      <4>2. CASE i # last
        <5>1. chunk'[i] = chunk[i]
          BY <2>3, <4>2
        <5>2. /\ chunk[i].from + chunk[i].nbytes <= received
              /\ i # first => chunk[i].nbytes > 0
              /\ count_lines => chunk[i].nlines =
                   NewlinesIn(newlines, chunk[i].from, chunk[i].from + chunk[i].nbytes)
          BY <1>1 DEF ListInv
        <5>3. NewlinesIn(newlines', chunk[i].from, chunk[i].from + chunk[i].nbytes)
                = NewlinesIn(newlines, chunk[i].from, chunk[i].from + chunk[i].nbytes)
          BY <1>5, <1>7
        <5>4. chunk[i].from + chunk[i].nbytes <= received'
          BY <1>2, <1>3, <1>7
        <5> QED BY <5>1, <5>2, <5>3, <5>4
      <4> QED BY <4>1, <4>2
    <3>5. ASSUME NEW i \in first..last, NEW j \in first..last
          PROVE  /\ j = i + 1 => chunk'[j].from = chunk'[i].from + chunk'[i].nbytes
                 /\ i < j => chunk'[i].from + chunk'[i].nbytes <= chunk'[j].from
      <4>1. i < j => chunk'[i] = chunk[i]
        BY <1>7, <2>3
      <4>2. /\ j = i + 1 => chunk[j].from = chunk[i].from + chunk[i].nbytes
            /\ i < j => chunk[i].from + chunk[i].nbytes <= chunk[j].from
        BY <1>1 DEF ListInv
      <4> QED BY <1>7, <1>10, <4>1, <4>2
    <3> QED BY <1>1, <1>7, <2>1, <2>3, <3>2, <3>4, <3>5 DEF ListInv
  <2>6. AppendInv'
    BY <1>1, <1>13, <2>1 DEF AppendInv
  <2>7. StartInv'
    BY <1>13 DEF StartInv
  <2> QED BY <1>11, <1>12, <1>13, <2>4, <2>5, <2>6, <2>7
<1>14. CASE pc' = "linked"
  <2> DEFINE c == linked
  <2>1. /\ last' = last + 1 /\ append' = NULL
        /\ chunk' = [i \in first..(last + 1) |-> IF i <= last THEN chunk[i] ELSE c]
    BY <1>14, <1>c
  <2>2. c.from = received /\ c.nbytes = size /\ c.nlines = a /\ c \in R
    BY <1>3, <1>9
  <2> HIDE DEF c
  <2>3. /\ chunk' \in [first..(last + 1) -> R] /\ chunk'[last + 1] = c
        /\ \A i \in first..last : chunk'[i] = chunk[i]
    BY <1>7, <2>1, <2>2, SMTT(40) DEF TypeOK
  <2>4. TypeOK'
    <3>1. total_lines' \in Int /\ total_bytes' \in Int /\ received' \in Nat
      BY <1>2, <1>3, <1>9 DEF TypeOK
    <3>2. last' \in Nat /\ append' \in [allocated : BOOLEAN, nbytes : {0}, nlines : Nat]
      BY <1>7, <2>1 DEF NULL
    <3> QED BY <1>1, <1>6, <1>14, <2>1, <2>3, <3>1, <3>2 DEF TypeOK, PCs
  <2>5. ListInv'
    <3>1. chunk[last].from + chunk[last].nbytes = received
      BY <1>1 DEF ListInv
    <3>2. c.from + c.nbytes = received'
      BY <1>2, <2>2
    <3>3. count_lines => c.nlines = NewlinesIn(newlines', c.from, c.from + c.nbytes)
      <4>1. received \in 0..received /\ received \in Int
        BY <1>3
      <4>2. NewlinesIn(newlines', received, received')
              = NewlinesIn(newlines, received, received) + k
        BY <1>5, <4>1
      <4>3. NewlinesIn(newlines, received, received) = 0
        BY <1>4, <4>1, NewlinesInNothing
      <4> QED BY <1>5, <1>9, <2>2, <3>2, <4>2, <4>3
    <3>4. ASSUME NEW i \in first..(last + 1)
          PROVE  /\ chunk'[i].from + chunk'[i].nbytes <= received'
                 /\ i # first => chunk'[i].nbytes > 0
                 /\ count_lines => chunk'[i].nlines =
                      NewlinesIn(newlines', chunk'[i].from,
                                 chunk'[i].from + chunk'[i].nbytes)
      <4>1. CASE i = last + 1
        <5>1. c.nbytes > 0
          BY <1>3, <2>2
        <5>2. c.from + c.nbytes <= received'
          BY <1>2, <1>3, <3>2
        <5> QED BY <2>3, <3>3, <4>1, <5>1, <5>2
      <4>2. CASE i # last + 1
        <5>0. i \in first..last
          BY <1>7, <4>2
        <5>1. chunk'[i] = chunk[i]
          BY <2>3, <5>0
        <5>2. /\ chunk[i].from + chunk[i].nbytes <= received
              /\ i # first => chunk[i].nbytes > 0
              /\ count_lines => chunk[i].nlines =
                   NewlinesIn(newlines, chunk[i].from, chunk[i].from + chunk[i].nbytes)
          BY <1>1, <5>0 DEF ListInv
        <5>3. NewlinesIn(newlines', chunk[i].from, chunk[i].from + chunk[i].nbytes)
                = NewlinesIn(newlines, chunk[i].from, chunk[i].from + chunk[i].nbytes)
          BY <1>5, <1>7, <5>0
        <5>4. chunk[i].from + chunk[i].nbytes <= received'
          BY <1>2, <1>3, <1>7, <5>0
        <5> QED BY <5>1, <5>2, <5>3, <5>4
      <4> QED BY <4>1, <4>2
    <3>5. ASSUME NEW i \in first..(last + 1), NEW j \in first..(last + 1)
          PROVE  /\ j = i + 1 => chunk'[j].from = chunk'[i].from + chunk'[i].nbytes
                 /\ i < j => chunk'[i].from + chunk'[i].nbytes <= chunk'[j].from
      <4>1. CASE j = last + 1 /\ i # last + 1
        <5>1. i \in first..last /\ chunk'[i] = chunk[i] /\ chunk'[j].from = received
          BY <1>7, <2>2, <2>3, <4>1
        <5>2. chunk[i].from + chunk[i].nbytes <= received
          BY <1>7, <5>1
        <5>3. j = i + 1 => i = last
          <6>1. i \in Int /\ last \in Int
            BY <1>7
          <6> QED BY <4>1, <6>1
        <5> QED BY <3>1, <5>1, <5>2, <5>3
      <4>2. CASE j # last + 1 /\ i # last + 1
        <5>1. i \in first..last /\ j \in first..last
          <6>1. first \in Int /\ last \in Int
            BY <1>7
          <6> QED BY <4>2, <6>1
        <5>2. chunk'[i] = chunk[i] /\ chunk'[j] = chunk[j]
          BY <2>3, <5>1
        <5>3. /\ j = i + 1 => chunk[j].from = chunk[i].from + chunk[i].nbytes
              /\ i < j => chunk[i].from + chunk[i].nbytes <= chunk[j].from
          BY <1>1, <5>1 DEF ListInv
        <5> QED BY <5>2, <5>3
      <4>3. CASE i = last + 1
        BY <1>7, <4>3
      <4> QED BY <4>1, <4>2, <4>3
    <3>6. tail_buffer' \in first..(last + 1)
      BY <1>1, <1>7
    <3> QED BY <1>1, <2>1, <2>3, <3>2, <3>4, <3>5, <3>6 DEF ListInv
  <2>6. AppendInv'
    BY <1>1, <1>7, <1>14, <2>1 DEF AppendInv, NULL
  <2>7. StartInv'
    BY <1>14 DEF StartInv
  <2> QED BY <1>11, <1>12, <1>14, <2>4, <2>5, <2>6, <2>7
<1> QED BY <1>c, <1>13, <1>14

\* Skipping a buffer: more than n_units units follow its end.
LEMMA SkipBufferKeepsInv ==
  ASSUME Inv, SkipBuffer
  PROVE  Inv'
<1> USE DEF Inv
<1>1. /\ tracking /\ Skippable
      /\ bytes_up_to_tail_buffer' = bytes_up_to_tail_buffer + chunk[tail_buffer].nbytes
      /\ lines_up_to_tail_buffer' = IF count_lines
                                    THEN lines_up_to_tail_buffer + chunk[tail_buffer].nlines
                                    ELSE lines_up_to_tail_buffer
      /\ tail_buffer' = tail_buffer + 1
      /\ UNCHANGED <<count_lines, n_units, chunk, first, last, append, total_lines,
                     total_bytes, tail_offset, blocks, pc, received, newlines>>
  BY DEF SkipBuffer, config, list, totals, stream
<1>2. pc \in {"copied", "linked"}
  BY <1>1 DEF tracking
<1>3. /\ first \in Nat \ {0} /\ last \in Nat /\ tail_buffer \in first..last
      /\ first <= last
      /\ \A i \in first..last :
           /\ chunk[i].from \in Nat /\ chunk[i].nbytes \in Nat
           /\ chunk[i].nlines \in Nat
           /\ chunk[i].from + chunk[i].nbytes \in 0..received
           /\ chunk[i].from \in 0..received
  BY <1>2, ListTypes
<1>4. newlines \in SUBSET Int /\ IsFiniteSet(newlines)
  BY NewlinesFinite
<1>5. received \in Nat /\ n_units \in Nat /\ count_lines \in BOOLEAN
  BY ModesAssumption, UnitsAssumption DEF TypeOK
<1> DEFINE t == chunk[tail_buffer].from
           b == chunk[tail_buffer].nbytes
<1>6. t \in Nat /\ b \in Nat /\ t + b \in 0..received
  BY <1>3
<1>7. U(t + b, received) > n_units
  <2>1. UnitsFromTail = U(t, received) /\ TailBufferUnits = U(t, t + b)
    BY <1>2, UnitCounts
  <2>2. U(t, received) - U(t, t + b) > n_units
    BY <1>1, <2>1 DEF Skippable
  <2> HIDE DEF t, b
  <2>3. U(t, received) = U(t, t + b) + U(t + b, received)
    BY <1>4, <1>5, <1>6, UnitsInAdd DEF U
  <2>4. U(t, t + b) \in Nat /\ U(t + b, received) \in Nat
    BY <1>4, <1>5, <1>6, UnitsInType DEF U
  <2> QED BY <1>5, <2>2, <2>3, <2>4
<1>8. tail_buffer # last
  <2>1. SUFFICES ASSUME tail_buffer = last PROVE FALSE
    OBVIOUS
  <2>2. t + b = received
    BY <1>2, <2>1 DEF ListInv
  <2>3. U(received, received) = 0
    BY <1>4, <1>5, NewlinesInNothing DEF U, UnitsIn
  <2> HIDE DEF t, b
  <2> QED BY <1>5, <1>7, <2>2, <2>3
<1>9. /\ tail_buffer + 1 \in first..last
      /\ chunk[tail_buffer + 1].from = t + b
  <2>1. tail_buffer + 1 \in first..last
    BY <1>3, <1>8
  <2> QED BY <1>2, <1>3, <2>1 DEF ListInv
<1>10. TypeOK'
  <2>1. /\ bytes_up_to_tail_buffer' \in Int /\ lines_up_to_tail_buffer' \in Int
        /\ tail_buffer' \in Nat
    <3>1. /\ chunk[tail_buffer].nlines \in Nat /\ b \in Nat
          /\ bytes_up_to_tail_buffer \in Int /\ lines_up_to_tail_buffer \in Int
          /\ tail_buffer \in Nat
      BY <1>3 DEF TypeOK
    <3> QED BY <1>1, <3>1
  <2> QED BY <1>1, <2>1 DEF TypeOK
<1>11. StartInv' /\ AppendInv'
  <2>1. StartInv'
    BY <1>1, <1>2 DEF StartInv
  <2>2. AppendInv'
    BY <1>1 DEF AppendInv
  <2> QED BY <2>1, <2>2
<1>12. ListInv'
  BY <1>1, <1>2, <1>9 DEF ListInv
<1>13. CountersMatchList'
  <2> DEFINE f == chunk[first].from
  <2>1. f \in Nat /\ first \in first..last
    BY <1>3
  <2>2. /\ total_bytes = received - f
        /\ bytes_up_to_tail_buffer = t - f
        /\ bytes_up_to_tail_buffer \in 0..total_bytes
        /\ count_lines =>
             /\ total_lines = NewlinesIn(newlines, f, received)
             /\ lines_up_to_tail_buffer = NewlinesIn(newlines, f, t)
    BY <1>2 DEF CountersMatchList
  <2>3. count_lines => chunk[tail_buffer].nlines = NewlinesIn(newlines, t, t + b)
    BY <1>2, <1>3 DEF ListInv
  <2> HIDE DEF f, t, b
  <2>4. f <= t
    BY <1>5, <1>6, <2>1, <2>2
  <2>5. NewlinesIn(newlines, f, t + b) =
          NewlinesIn(newlines, f, t) + NewlinesIn(newlines, t, t + b)
    BY <1>4, <1>6, <2>1, <2>4, NewlinesInAdd
  <2>6. /\ bytes_up_to_tail_buffer' = (t + b) - f
        /\ bytes_up_to_tail_buffer' \in 0..total_bytes
    BY <1>1, <1>5, <1>6, <2>1, <2>2, <2>4 DEF b
  <2>7. count_lines => lines_up_to_tail_buffer' = NewlinesIn(newlines, f, t + b)
    BY <1>1, <2>2, <2>3, <2>5
  <2> QED BY <1>1, <1>9, <2>2, <2>6, <2>7 DEF CountersMatchList, f
<1>14. TailInv'
  <2>1. TailNotBefore(count_lines, n_units, newlines, received, t + b)
    BY <1>7 DEF TailNotBefore, U
  <2>2. ~Readable'
    BY <1>1, <1>2 DEF Readable
  <2> QED BY <1>1, <1>9, <2>1, <2>2 DEF TailInv
<1> QED BY <1>10, <1>11, <1>12, <1>13, <1>14

\* Placing the tail: it starts at the offset found, seen from this chunk or, when
\* that is its end, from the next.
LEMMA PlaceTailKeepsInv ==
  ASSUME Inv, PlaceTail
  PROVE  Inv'
<1> USE DEF Inv
<1> DEFINE t == chunk[tail_buffer].from
           b == chunk[tail_buffer].nbytes
<1>1. PICK o \in 0..b :
        /\ IsTailOffset(o)
        /\ \/ /\ o = b /\ tail_buffer # last
              /\ bytes_up_to_tail_buffer' = bytes_up_to_tail_buffer + b
              /\ lines_up_to_tail_buffer' =
                   lines_up_to_tail_buffer + chunk[tail_buffer].nlines
              /\ tail_buffer' = tail_buffer + 1
              /\ tail_offset' = 0
           \/ /\ o # b \/ tail_buffer = last
              /\ tail_offset' = o
              /\ UNCHANGED <<bytes_up_to_tail_buffer, lines_up_to_tail_buffer,
                             tail_buffer>>
  BY DEF PlaceTail
<1>2. /\ tracking /\ ~Skippable
      /\ \/ pc = "copied" /\ pc' = "idle" /\ append' = Empty(0)
         \/ pc = "linked" /\ pc' = "placed" /\ UNCHANGED append
      /\ UNCHANGED <<count_lines, n_units, chunk, first, last, total_lines,
                     total_bytes, blocks, received, newlines>>
  BY DEF PlaceTail, ResetAppend, config, list, totals, stream
<1>3. /\ first \in Nat \ {0} /\ last \in Nat /\ tail_buffer \in first..last
      /\ first <= last
      /\ \A i \in first..last :
           /\ chunk[i].from \in Nat /\ chunk[i].nbytes \in Nat
           /\ chunk[i].nlines \in Nat
           /\ chunk[i].from + chunk[i].nbytes \in 0..received
           /\ chunk[i].from \in 0..received
  BY <1>2, ListTypes DEF tracking
<1>4. /\ newlines \in SUBSET Int /\ IsFiniteSet(newlines)
      /\ \A p \in newlines : p > 0
  BY NewlinesFinite DEF TypeOK
<1>5. received \in Nat /\ n_units \in Nat /\ count_lines \in BOOLEAN
  BY ModesAssumption, UnitsAssumption DEF TypeOK
<1>6. t \in Nat /\ b \in Nat /\ t + b \in 0..received /\ o \in 0..b
  BY <1>3
<1>7. /\ IsTailStart(count_lines, n_units, newlines, received, t + o)
      /\ t + o \in 0..received
  <2>1. UnitsFromTail = U(t, received)
    BY <1>2, UnitCounts DEF tracking
  <2>2. Excess = U(t, received) - n_units
    BY <2>1 DEF Excess
  <2>3. U(t, received) \in Nat
    BY <1>3, <1>4, <1>5, <1>6, UnitsInType DEF U
  <2>4. TailNotBefore(count_lines, n_units, newlines, received, t)
    BY <1>2 DEF TailInv
  <2>5. IF Excess <= 0 THEN o = 0
        ELSE IF count_lines
        THEN t + o \in newlines /\ NewlinesIn(newlines, t, t + o) = Excess
        ELSE o = Excess
    BY <1>1 DEF IsTailOffset
  <2> HIDE DEF t, b
  <2>6. t + o \in 0..received /\ t \in 0..(t + o) /\ t \in 0..received
    BY <1>5, <1>6
  <2>7. CASE Excess <= 0
    <3>1. U(t, received) <= n_units /\ t + o = t
      BY <1>5, <1>6, <2>2, <2>3, <2>5, <2>7
    <3> QED BY <1>4, <1>5, <2>4, <2>6, <3>1, TailStartsHere DEF U
  <2>8. CASE ~ (Excess <= 0)
    <3>1. U(t, received) > n_units
      BY <1>5, <2>2, <2>3, <2>8
    <3>2. U(t, t + o) = U(t, received) - n_units
      <4>1. CASE count_lines
        BY <2>2, <2>5, <2>8, <4>1 DEF U, UnitsIn
      <4>2. CASE ~count_lines
        <5>1. U(t, t + o) = (t + o) - t
          BY <4>2 DEF U, UnitsIn
        <5> QED BY <1>6, <2>2, <2>5, <2>8, <4>2, <5>1
      <4> QED BY <4>1, <4>2
    <3>3. count_lines => t + o \in newlines
      BY <2>5, <2>8
    <3> QED BY <1>4, <1>5, <2>6, <3>1, <3>2, <3>3, TailStartsAfterExcess DEF U
  <2> QED BY <2>6, <2>7, <2>8
<1>8. append' \in [allocated : BOOLEAN, nbytes : {0}, nlines : Nat] /\ AppendInv'
  <2>1. CASE pc = "copied"
    <3>1. append' = [allocated |-> TRUE, nbytes |-> 0, nlines |-> 0] /\ pc' = "idle"
      BY <1>2, <2>1 DEF Empty
    <3> QED BY <3>1 DEF AppendInv
  <2>2. CASE pc = "linked"
    BY <1>2, <2>2 DEF AppendInv, TypeOK
  <2> QED BY <1>2, <2>1, <2>2
<1>9. pc' \in {"idle", "placed"}
  BY <1>2
<1>10. StartInv'
  BY <1>9 DEF StartInv
<1> DEFINE f == chunk[first].from
<1>11. /\ f \in Nat /\ received \in Nat
       /\ total_bytes = received - f
       /\ bytes_up_to_tail_buffer = t - f
       /\ bytes_up_to_tail_buffer \in 0..total_bytes
       /\ count_lines =>
            /\ total_lines = NewlinesIn(newlines, f, received)
            /\ lines_up_to_tail_buffer = NewlinesIn(newlines, f, t)
  <2>1. f \in Nat
    BY <1>3
  <2> QED BY <1>2, <1>5, <2>1 DEF CountersMatchList, tracking
<1>12. CASE tail_buffer' = tail_buffer
  <2>1. /\ tail_offset' = o
        /\ UNCHANGED <<bytes_up_to_tail_buffer, lines_up_to_tail_buffer, tail_buffer>>
        /\ o # b \/ tail_buffer = last
    BY <1>1, <1>3, <1>12
  <2>2. TypeOK'
    <3>1. tail_offset' \in Nat
      BY <1>6, <2>1
    <3> QED BY <1>2, <1>8, <1>9, <2>1, <3>1 DEF TypeOK, PCs
  <2>3. ListInv'
    BY <1>2, <2>1 DEF ListInv, tracking
  <2>4. CountersMatchList'
    BY <1>2, <2>1, <1>11 DEF CountersMatchList
  <2>5. TailInv'
    <3>1. TailCut' = t + o
      BY <1>2, <2>1 DEF TailCut
    <3>2. o <= b /\ (b > 0 \/ tail_buffer = last)
      <4> HIDE DEF b
      <4> QED BY <1>6, <2>1
    <3>3. ~tracking'
      BY <1>9 DEF tracking
    <3> QED BY <1>2, <1>7, <2>1, <3>1, <3>2, <3>3 DEF TailInv
  <2> QED BY <1>8, <1>10, <2>2, <2>3, <2>4, <2>5
<1>13. CASE tail_buffer' # tail_buffer
  <2>1. /\ o = b /\ tail_buffer # last
        /\ bytes_up_to_tail_buffer' = bytes_up_to_tail_buffer + b
        /\ lines_up_to_tail_buffer' = lines_up_to_tail_buffer + chunk[tail_buffer].nlines
        /\ tail_buffer' = tail_buffer + 1
        /\ tail_offset' = 0
    BY <1>1, <1>13
  <2>2. /\ tail_buffer + 1 \in first..last /\ tail_buffer + 1 # first
        /\ tail_buffer + 1 \in Nat
    BY <1>3, <2>1
  <2>3. chunk[tail_buffer + 1].from = t + b /\ chunk[tail_buffer + 1].nbytes > 0
    BY <1>2, <1>3, <2>2 DEF ListInv, tracking
  <2>4. TypeOK'
    <3>1. tail_offset' \in Nat /\ tail_buffer' \in Nat
          /\ bytes_up_to_tail_buffer' \in Int /\ lines_up_to_tail_buffer' \in Int
      <4>1. /\ chunk[tail_buffer].nlines \in Nat /\ b \in Nat
            /\ bytes_up_to_tail_buffer \in Int /\ lines_up_to_tail_buffer \in Int
        BY <1>3 DEF TypeOK
      <4> QED BY <2>1, <2>2, <4>1
    <3> QED BY <1>2, <1>8, <1>9, <3>1 DEF TypeOK, PCs
  <2>5. ListInv'
    BY <1>2, <2>1, <2>2 DEF ListInv, tracking
  <2>6. CountersMatchList'
    <3>1. count_lines => chunk[tail_buffer].nlines = NewlinesIn(newlines, t, t + b)
      BY <1>2, <1>3 DEF ListInv, tracking
    <3> HIDE DEF t, b, f
    <3>2. f <= t
      BY <1>6, <1>11
    <3>3. NewlinesIn(newlines, f, t + b)
            = NewlinesIn(newlines, f, t) + NewlinesIn(newlines, t, t + b)
      BY <1>4, <1>6, <1>11, <3>2, NewlinesInAdd
    <3>4. /\ bytes_up_to_tail_buffer' = (t + b) - f
          /\ bytes_up_to_tail_buffer' \in 0..total_bytes
      BY <1>6, <1>11, <2>1, <3>2
    <3>5. count_lines => lines_up_to_tail_buffer' = NewlinesIn(newlines, f, t + b)
      BY <1>11, <2>1, <3>1, <3>3
    <3> QED BY <1>2, <1>11, <2>1, <2>3, <3>4, <3>5 DEF CountersMatchList, f
  <2>7. TailInv'
    <3>1. TailCut' = t + o
      <4>1. TailCut' = (t + b) + 0
        BY <1>2, <2>1, <2>3 DEF TailCut
      <4> HIDE DEF t, b
      <4> QED BY <1>6, <2>1, <4>1
    <3>2. ~tracking'
      BY <1>9 DEF tracking
    <3>3. 0 <= chunk[tail_buffer + 1].nbytes
      BY <1>3, <2>2
    <3> QED BY <1>2, <1>7, <2>1, <2>3, <3>1, <3>2, <3>3 DEF TailInv
  <2> QED BY <1>8, <1>10, <2>4, <2>5, <2>6, <2>7
<1> QED BY <1>12, <1>13

\* The chunk that is recycled ends before the tail starts.
LEMMA DroppableIsBeforeTail ==
  ASSUME Inv, pc = "placed", first_buffer_droppable
  PROVE  tail_buffer \in (first + 1)..last
<1> USE DEF Inv
<1>1. /\ first \in Nat \ {0} /\ last \in Nat /\ tail_buffer \in first..last
      /\ first <= last
      /\ \A i \in first..last :
           /\ chunk[i].from \in Nat /\ chunk[i].nbytes \in Nat
           /\ chunk[i].nlines \in Nat
           /\ chunk[i].from + chunk[i].nbytes \in 0..received
           /\ chunk[i].from \in 0..received
  BY ListTypes
<1>2. newlines \in SUBSET Int /\ IsFiniteSet(newlines)
  BY NewlinesFinite
<1>3. received \in Nat /\ n_units \in Nat /\ count_lines \in BOOLEAN
  BY ModesAssumption, UnitsAssumption DEF TypeOK
<1>4. SUFFICES ASSUME tail_buffer = first PROVE FALSE
  BY <1>1
<1> DEFINE f == chunk[first].from
           b == chunk[first].nbytes
<1>5. f \in Nat /\ b \in Nat /\ f + b \in 0..received
  BY <1>1
<1>6. U(f + b, received) > n_units
  BY UnitCounts
<1>7. /\ IsTailStart(count_lines, n_units, newlines, received, f + tail_offset)
      /\ tail_offset \in Nat /\ tail_offset <= b
  BY <1>4 DEF TailInv, Readable, TailCut, TypeOK
<1> HIDE DEF f, b
<1>8. f + tail_offset \in 0..received /\ f + tail_offset <= f + b
  BY <1>3, <1>5, <1>7
<1>9. f + b < f + tail_offset
  BY <1>2, <1>3, <1>5, <1>6, <1>7, <1>8, TailStartsLater DEF U
<1> QED BY <1>5, <1>7, <1>9

LEMMA RecycleFirstKeepsInv ==
  ASSUME Inv, RecycleFirst
  PROVE  Inv'
<1> USE DEF Inv
<1>1. /\ pc = "placed" /\ pc' = "idle" /\ append' = Empty(0)
      /\ total_bytes' = total_bytes - chunk[first].nbytes
      /\ total_lines' = total_lines - chunk[first].nlines
      /\ bytes_up_to_tail_buffer' = bytes_up_to_tail_buffer - chunk[first].nbytes
      /\ lines_up_to_tail_buffer' = lines_up_to_tail_buffer - chunk[first].nlines
      /\ chunk' = [i \in (first + 1)..last |-> chunk[i]]
      /\ first' = first + 1
      /\ UNCHANGED <<count_lines, n_units, last, tail_buffer, tail_offset, blocks,
                     received, newlines>>
  BY DEF RecycleFirst, ResetAppend, config, stream
<1>2. tail_buffer \in (first + 1)..last
  BY DroppableIsBeforeTail DEF RecycleFirst
<1>3. /\ first \in Nat \ {0} /\ last \in Nat /\ first <= last
      /\ \A i \in first..last :
           /\ chunk[i].from \in Nat /\ chunk[i].nbytes \in Nat
           /\ chunk[i].nlines \in Nat
           /\ chunk[i].from + chunk[i].nbytes \in 0..received
           /\ chunk[i].from \in 0..received
  BY <1>1, ListTypes
<1>4. /\ first \in first..last /\ first + 1 \in first..last
      /\ tail_buffer \in first..last /\ first < tail_buffer
      /\ \A i \in (first + 1)..last :
           i \in first..last /\ i # first /\ chunk'[i] = chunk[i]
  BY <1>1, <1>2, <1>3
<1>5. newlines \in SUBSET Int /\ IsFiniteSet(newlines)
  BY NewlinesFinite
<1> DEFINE f == chunk[first].from
           b == chunk[first].nbytes
           t == chunk[tail_buffer].from
<1>6. /\ f \in Nat /\ b \in Nat /\ chunk[first].nlines \in Nat
      /\ f + b \in 0..received /\ t \in 0..received /\ received \in Nat
  BY <1>3, <1>4 DEF TypeOK
<1>7. chunk[first + 1].from = f + b /\ f + b <= t
  BY <1>1, <1>4 DEF ListInv
<1> DEFINE l == chunk[first].nlines
<1>r. /\ total_bytes' = total_bytes - b /\ total_lines' = total_lines - l
      /\ bytes_up_to_tail_buffer' = bytes_up_to_tail_buffer - b
      /\ lines_up_to_tail_buffer' = lines_up_to_tail_buffer - l
      /\ b \in Nat /\ l \in Nat
  BY <1>1, <1>6
<1>8. TypeOK'
  <2>1. chunk' \in [first'..last' -> [from : Nat, nbytes : Nat, nlines : Nat]]
    <3>1. \A i \in (first + 1)..last :
            chunk[i] \in [from : Nat, nbytes : Nat, nlines : Nat]
      BY <1>4 DEF TypeOK
    <3> QED BY <1>1, <3>1
  <2>2. append' \in [allocated : BOOLEAN, nbytes : {0}, nlines : Nat]
    <3>1. append' = [allocated |-> TRUE, nbytes |-> 0, nlines |-> 0]
      BY <1>1 DEF Empty
    <3> QED BY <3>1
  <2>3. /\ total_bytes' \in Int /\ total_lines' \in Int
        /\ bytes_up_to_tail_buffer' \in Int /\ lines_up_to_tail_buffer' \in Int
    <3>1. /\ total_bytes \in Int /\ total_lines \in Int
          /\ bytes_up_to_tail_buffer \in Int /\ lines_up_to_tail_buffer \in Int
      BY DEF TypeOK
    <3> HIDE DEF b, l
    <3> QED BY <1>r, <3>1
  <2>4. first' \in Nat \ {0}
    BY <1>1, <1>3
  <2> QED BY <1>1, <2>1, <2>2, <2>3, <2>4 DEF TypeOK, PCs
<1>9. StartInv' /\ AppendInv'
  <2>1. append' = [allocated |-> TRUE, nbytes |-> 0, nlines |-> 0]
    BY <1>1 DEF Empty
  <2> QED BY <1>1, <2>1 DEF StartInv, AppendInv
<1>10. ListInv'
  <2>1. chunk'[last].from + chunk'[last].nbytes = received
    BY <1>1, <1>2, <1>3, <1>4 DEF ListInv
  <2>2. ASSUME NEW i \in (first + 1)..last
        PROVE  /\ chunk'[i].from + chunk'[i].nbytes <= received
               /\ chunk'[i].nbytes > 0
               /\ count_lines => chunk'[i].nlines =
                    NewlinesIn(newlines, chunk'[i].from,
                               chunk'[i].from + chunk'[i].nbytes)
    BY <1>1, <1>4 DEF ListInv
  <2>3. ASSUME NEW i \in (first + 1)..last, NEW j \in (first + 1)..last
        PROVE  /\ j = i + 1 => chunk'[j].from = chunk'[i].from + chunk'[i].nbytes
               /\ i < j => chunk'[i].from + chunk'[i].nbytes <= chunk'[j].from
    BY <1>1, <1>4 DEF ListInv
  <2> QED BY <1>1, <1>2, <2>1, <2>2, <2>3 DEF ListInv
<1>11. CountersMatchList'
  <2>1. /\ total_bytes = received - f
        /\ bytes_up_to_tail_buffer = t - f
        /\ count_lines =>
             /\ total_lines = NewlinesIn(newlines, f, received)
             /\ lines_up_to_tail_buffer = NewlinesIn(newlines, f, t)
             /\ l = NewlinesIn(newlines, f, f + b)
    BY <1>1, <1>4 DEF CountersMatchList, ListInv
  <2>2. chunk'[first'].from = f + b /\ chunk'[tail_buffer'].from = t
    <3>1. first + 1 \in (first + 1)..last
      BY <1>2, <1>3
    <3> QED BY <1>1, <1>2, <1>4, <1>7, <3>1
  <2> HIDE DEF t, f, b, l
  <2>3. /\ total_bytes' = received - (f + b)
        /\ bytes_up_to_tail_buffer' = t - (f + b)
        /\ bytes_up_to_tail_buffer' \in 0..total_bytes'
    BY <1>r, <1>6, <1>7, <2>1
  <2>4. /\ NewlinesIn(newlines, f, received) =
             NewlinesIn(newlines, f, f + b) + NewlinesIn(newlines, f + b, received)
        /\ NewlinesIn(newlines, f, t) =
             NewlinesIn(newlines, f, f + b) + NewlinesIn(newlines, f + b, t)
    <3>1. /\ f \in Int /\ f + b \in Int /\ received \in Int /\ t \in Int
          /\ f <= f + b /\ f + b <= received /\ f + b <= t
      BY <1>6, <1>7
    <3> QED BY <1>5, <3>1, NewlinesInAdd
  <2>5. /\ NewlinesIn(newlines, f + b, received) \in Nat
        /\ NewlinesIn(newlines, f + b, t) \in Nat
        /\ NewlinesIn(newlines, f, f + b) \in Nat
    BY <1>5, NewlinesInType
  <2>6. count_lines =>
          /\ total_lines' = NewlinesIn(newlines, f + b, received)
          /\ lines_up_to_tail_buffer' = NewlinesIn(newlines, f + b, t)
    BY <1>r, <2>1, <2>4, <2>5
  <2> QED BY <1>1, <2>2, <2>3, <2>6 DEF CountersMatchList
<1>12. TailInv'
  <2>1. chunk'[tail_buffer] = chunk[tail_buffer]
    BY <1>2, <1>4
  <2>2. TailCut' = TailCut
    BY <1>1, <2>1 DEF TailCut
  <2> QED BY <1>1, <2>1, <2>2 DEF TailInv, Readable, tracking
<1> QED BY <1>8, <1>9, <1>10, <1>11, <1>12

\* A malloc that succeeds or fails, and the end of it all, touch nothing else.
LEMMA OthersKeepInv ==
  ASSUME Inv, Allocate \/ OutOfMemory \/ buffer_final
  PROVE  Inv'
<1> USE DEF Inv
<1>1. UNCHANGED <<count_lines, n_units, chunk, first, last, total_lines, total_bytes,
                  tail_buffer, tail_offset, lines_up_to_tail_buffer,
                  bytes_up_to_tail_buffer, received, newlines>>
  BY DEF Allocate, OutOfMemory, buffer_final, config, list, totals, tailpos, stream
<1>2. /\ pc \in {"idle", "placed", "oom"} /\ pc' \in {"idle", "oom", "final"}
      /\ \/ append' = Empty(0) /\ pc' = "idle"
         \/ UNCHANGED append /\ pc = "placed" /\ pc' = "oom"
         \/ UNCHANGED append /\ pc' = "final"
      /\ blocks' \in Int
  <2>1. CASE Allocate
    BY <2>1 DEF Allocate, ResetAppend, TypeOK
  <2>2. CASE OutOfMemory
    BY <2>2 DEF OutOfMemory, TypeOK
  <2>3. CASE buffer_final
    <3>1. pc \in {"idle", "oom"} /\ pc' = "final" /\ UNCHANGED append
      BY <2>3 DEF buffer_final
    <3>2. blocks \in Int /\ last \in Int /\ first \in Int
      BY DEF TypeOK
    <3>3. blocks' \in Int
      BY <2>3, <3>2 DEF buffer_final
    <3> QED BY <3>1, <3>3
  <2> QED BY <2>1, <2>2, <2>3
<1>3. /\ append' \in [allocated : BOOLEAN, nbytes : {0}, nlines : Nat]
      /\ AppendInv'
  <2>1. CASE append' = Empty(0) /\ pc' = "idle"
    <3>1. append' = [allocated |-> TRUE, nbytes |-> 0, nlines |-> 0]
      BY <2>1 DEF Empty
    <3> QED BY <1>2, <3>1 DEF AppendInv
  <2>2. CASE UNCHANGED append /\ pc = "placed" /\ pc' = "oom"
    BY <1>1, <2>2 DEF AppendInv, TypeOK
  <2>3. CASE UNCHANGED append /\ pc' = "final"
    BY <1>1, <2>3 DEF AppendInv, TypeOK
  <2> QED BY <1>2, <2>1, <2>2, <2>3
<1>4. TypeOK'
  BY <1>1, <1>2, <1>3 DEF TypeOK, PCs
<1>5. StartInv' /\ ListInv' /\ CountersMatchList'
  BY <1>1, <1>2 DEF StartInv, ListInv, CountersMatchList
<1>6. TailInv'
  BY <1>1, <1>2 DEF TailInv, Readable, tracking, TailCut
<1> QED BY <1>3, <1>4, <1>5, <1>6

LEMMA StutterKeepsInv ==
  ASSUME Inv, UNCHANGED vars
  PROVE  Inv'
BY ZenonT(60)
DEF Inv, vars, config, list, totals, tailpos, stream, TypeOK, StartInv, ListInv,
       CountersMatchList, AppendInv, TailInv, Readable, tracking, TailCut

LEMMA NextKeepsInv ==
  ASSUME CleanAppend, Inv, [Next]_vars
  PROVE  Inv'
<1>1. CASE buffer_init
  BY <1>1, buffer_initKeepsInv
<1>2. CASE Append
  BY <1>2, AppendKeepsInv
<1>3. CASE SkipBuffer
  BY <1>3, SkipBufferKeepsInv
<1>4. CASE PlaceTail
  BY <1>4, PlaceTailKeepsInv
<1>5. CASE RecycleFirst
  BY <1>5, RecycleFirstKeepsInv
<1>6. CASE Allocate \/ OutOfMemory \/ buffer_final
  BY <1>6, OthersKeepInv
<1>7. CASE UNCHANGED vars
  BY <1>7, StutterKeepsInv
<1> QED BY <1>1, <1>2, <1>3, <1>4, <1>5, <1>6, <1>7 DEF Next, buffer_set_appended

\* The list, its counters, the spare chunk and the tail position are consistent in
\* every reachable state of buffer.c.
THEOREM Invariance ==
  ASSUME CleanAppend
  PROVE  Spec => []Inv
<1>1. Init => Inv
  BY InitInv
<1>2. Inv /\ [Next]_vars => Inv'
  BY NextKeepsInv
<1> QED BY <1>1, <1>2, PTL DEF Spec
---------------------------------------------------------------------------------
(***************************************************************************)
(* What follows from the invariant.                                        *)
(***************************************************************************)
\* After every append the tail is the last n_units units of the stream.
THEOREM TailCorrect ==
  ASSUME CleanAppend
  PROVE  Spec => []TailIsLastUnits
<1>1. Inv => TailIsLastUnits
  BY DEF Inv, TailInv, TailIsLastUnits
<1> QED BY <1>1, Invariance, PTL

\* The totals always match the list.
THEOREM CountersCorrect ==
  ASSUME CleanAppend
  PROVE  Spec => []CountersMatchList
<1>1. Inv => CountersMatchList
  BY DEF Inv
<1> QED BY <1>1, Invariance, PTL

\* assert(beg) never fails: the newline that memchr looks for is in the chunk.
THEOREM NewlineIsFound ==
  ASSUME CleanAppend
  PROVE  Spec => []AssertBeg
<1>1. Inv => AssertBeg
  <2> SUFFICES ASSUME Inv, tracking, ~Skippable
               PROVE  \E o \in 0..chunk[tail_buffer].nbytes : IsTailOffset(o)
    BY DEF AssertBeg
  <2> USE DEF Inv
  <2> DEFINE t == chunk[tail_buffer].from
             b == chunk[tail_buffer].nbytes
  <2>1. t \in Nat /\ b \in Nat /\ t + b \in 0..received
    BY ListTypes DEF tracking
  <2>2. newlines \in SUBSET Int /\ IsFiniteSet(newlines)
    BY NewlinesFinite
  <2>3. received \in Nat /\ n_units \in Nat /\ count_lines \in BOOLEAN
    BY ModesAssumption, UnitsAssumption DEF TypeOK
  <2>4. /\ Excess = U(t, received) - n_units
        /\ TailBufferUnits = U(t, t + b)
        /\ U(t, received) - U(t, t + b) <= n_units
    <3>1. UnitsFromTail = U(t, received) /\ TailBufferUnits = U(t, t + b)
      BY UnitCounts DEF tracking
    <3>2. U(t, received) \in Nat /\ U(t, t + b) \in Nat
      BY <2>1, <2>2, <2>3, UnitsInType DEF U
    <3>3. ~ (U(t, received) - U(t, t + b) > n_units)
      BY <3>1 DEF Skippable
    <3> HIDE DEF t, b
    <3>4. U(t, received) - U(t, t + b) <= n_units
      BY <2>3, <3>2, <3>3
    <3> QED BY <3>1, <3>4 DEF Excess
  <2>5. U(t, received) \in Nat /\ U(t, t + b) \in Nat
    BY <2>1, <2>2, <2>3, UnitsInType DEF U
  <2>6. CASE Excess <= 0
    <3>1. 0 \in 0..b /\ IsTailOffset(0)
      BY <2>1, <2>6 DEF IsTailOffset
    <3> QED BY <3>1
  <2>7. CASE ~ (Excess <= 0) /\ count_lines
    <3>1. Excess \in Nat \ {0} /\ Excess <= NewlinesIn(newlines, t, t + b)
      <4>1. U(t, t + b) = NewlinesIn(newlines, t, t + b)
        BY <2>7 DEF U, UnitsIn
      <4> HIDE DEF t, b
      <4> QED BY <2>3, <2>4, <2>5, <2>7, <4>1
    <3>2. t \in Int /\ t + b \in Int /\ t <= t + b
      BY <2>1
    <3>3. PICK p \in newlines :
            t < p /\ p <= t + b /\ NewlinesIn(newlines, t, p) = Excess
      BY <2>2, <3>1, <3>2, KthNewline
    <3>4. p - t \in 0..b /\ t + (p - t) = p
      <4>1. p \in Int
        BY <2>2
      <4> QED BY <2>1, <3>3, <4>1
    <3>5. IsTailOffset(p - t)
      BY <2>7, <3>3, <3>4 DEF IsTailOffset
    <3> QED BY <3>4, <3>5
  <2>8. CASE ~ (Excess <= 0) /\ ~count_lines
    <3>1. Excess \in 0..b
      <4>1. U(t, t + b) = (t + b) - t
        BY <2>8 DEF U, UnitsIn
      <4> HIDE DEF t, b
      <4> QED BY <2>1, <2>3, <2>4, <2>5, <2>8, <4>1
    <3>2. IsTailOffset(Excess)
      BY <2>8, <3>1 DEF IsTailOffset
    <3> QED BY <3>1, <3>2
  <2> QED BY <2>6, <2>7, <2>8
<1> QED BY <1>1, Invariance, PTL

\* assert(first != tail_buffer) never fails and the walk stays in the list.
THEOREM TailIsNotRecycled ==
  ASSUME CleanAppend
  PROVE  Spec => []TailStaysInList
<1>1. Inv => TailStaysInList
  <2> SUFFICES ASSUME Inv PROVE TailStaysInList
    OBVIOUS
  <2>1. pc # "start" => tail_buffer \in first..last
    BY DEF Inv, ListInv
  <2>2. ASSUME pc = "placed", first_buffer_droppable PROVE first # tail_buffer
    <3>1. tail_buffer \in (first + 1)..last /\ first \in Nat /\ last \in Nat
      BY <2>2, DroppableIsBeforeTail DEF Inv, TypeOK
    <3> QED BY <3>1
  <2> QED BY <2>1, <2>2 DEF TailStaysInList
<1> QED BY <1>1, Invariance, PTL

\* The walk of tailer_send_buffered_tail and output_buffered_tail over the chunks
\* reads the tail, the whole tail and nothing but the tail.
THEOREM WalkIsComplete ==
  ASSUME CleanAppend
  PROVE  Spec => []WalkReadsTail
<1>1. Inv => WalkReadsTail
  <2> SUFFICES ASSUME Inv, Readable PROVE WalkReadsTail
    BY DEF WalkReadsTail
  <2> USE DEF Inv
  <2>1. /\ first \in Nat \ {0} /\ last \in Nat /\ tail_buffer \in first..last
        /\ first <= last
        /\ \A i \in first..last :
             /\ chunk[i].from \in Nat /\ chunk[i].nbytes \in Nat
             /\ chunk[i].nlines \in Nat
             /\ chunk[i].from + chunk[i].nbytes \in 0..received
             /\ chunk[i].from \in 0..received
    BY ListTypes DEF Readable
  <2> DEFINE t == chunk[tail_buffer].from
             b == chunk[tail_buffer].nbytes
  <2>2. /\ received \in Nat /\ tail_offset \in Nat /\ t \in Nat /\ b \in Nat
        /\ TailCut = t + tail_offset /\ tail_offset <= b
        /\ t + b \in 0..received
        /\ b > 0 \/ tail_buffer = last
    BY <2>1 DEF TypeOK, TailInv, TailCut
  <2>3. buffer_tail_size = received - TailCut
    <3>1. /\ total_bytes = received - chunk[first].from
          /\ bytes_up_to_tail_buffer = t - chunk[first].from
          /\ chunk[first].from \in Nat
      BY <2>1 DEF CountersMatchList, Readable
    <3> HIDE DEF t, b
    <3> QED BY <2>2, <3>1 DEF buffer_tail_size
  <2>4. CASE b = 0
    <3>1. ReadChunks = {}
      BY <2>1, <2>4 DEF ReadChunks
    <3>2. t + b = received
      BY <2>2, <2>4 DEF ListInv, Readable
    <3>3. TailCut = received
      <4> HIDE DEF t, b
      <4> QED BY <2>2, <2>4, <3>2
    <3>4. (TailCut + 1)..received = {}
      BY <2>2, <3>3
    <3> QED BY <2>3, <3>1, <3>4 DEF WalkReadsTail
  <2>5. CASE b # 0
    <3>1. /\ ReadChunks = tail_buffer..last
          /\ \A i \in tail_buffer..last :
               i \in first..last /\ (i # tail_buffer => i # first)
      <4>1. ASSUME NEW i \in tail_buffer..last
            PROVE  /\ i \in first..last /\ (i # tail_buffer => i # first)
                   /\ chunk[i].nbytes > 0
        <5>1. i \in first..last /\ (i # tail_buffer => i # first)
          BY <2>1
        <5>2. chunk[i].nbytes > 0
          BY <2>1, <2>2, <2>5, <5>1 DEF ListInv, Readable
        <5> QED BY <5>1, <5>2
      <4>2. ASSUME NEW i \in tail_buffer..last, NEW j \in tail_buffer..i
            PROVE  j \in tail_buffer..last
        BY <2>1
      <4> QED BY <4>1, <4>2 DEF ReadChunks
    <3>2. ASSUME NEW i \in tail_buffer..last
          PROVE  /\ ReadFrom(i) \in TailCut..received /\ ReadTo(i) \in 0..received
                 /\ i # tail_buffer => ReadFrom(i) = chunk[i].from
      <4>1. CASE i = tail_buffer
        <5>1. ReadFrom(i) = TailCut /\ ReadTo(i) = t + b
          BY <2>2, <4>1 DEF ReadFrom, ReadTo
        <5> HIDE DEF t, b
        <5> QED BY <2>2, <4>1, <5>1
      <4>2. CASE i # tail_buffer
        <5>1. /\ ReadFrom(i) = chunk[i].from + 0
              /\ ReadTo(i) = chunk[i].from + chunk[i].nbytes
              /\ chunk[i].from \in 0..received
              /\ chunk[i].from + chunk[i].nbytes \in 0..received
          BY <2>1, <3>1, <4>2 DEF ReadFrom, ReadTo
        <5>2. t + b <= chunk[i].from
          <6>1. tail_buffer < i /\ i \in first..last
            BY <2>1, <3>1, <4>2
          <6> QED BY <2>1, <6>1 DEF ListInv, Readable
        <5> HIDE DEF t, b
        <5> QED BY <2>2, <5>1, <5>2
      <4> QED BY <4>1, <4>2
    <3>3. ASSUME NEW i \in tail_buffer..last, NEW j \in tail_buffer..last, i < j
          PROVE  ReadTo(i) <= ReadFrom(j) /\ (j = i + 1 => ReadTo(i) = ReadFrom(j))
      <4>1. j # tail_buffer /\ i \in first..last /\ j \in first..last
        BY <2>1, <3>1, <3>3
      <4>2. /\ j = i + 1 => chunk[j].from = chunk[i].from + chunk[i].nbytes
            /\ chunk[i].from + chunk[i].nbytes <= chunk[j].from
        BY <3>3, <4>1 DEF ListInv, Readable
      <4> QED BY <3>2, <4>1, <4>2 DEF ReadTo
    <3>4. ASSUME NEW p \in (TailCut + 1)..received
          PROVE  \E i \in tail_buffer..last : p \in (ReadFrom(i) + 1)..ReadTo(i)
      <4> DEFINE T == {i \in tail_buffer..last : p <= ReadTo(i)}
      <4>1. T \subseteq Nat /\ last \in T
        <5>1. ReadTo(last) = received /\ last \in tail_buffer..last
          BY <2>1 DEF ReadTo, ListInv, Readable
        <5>2. p <= received
          BY <2>2
        <5> QED BY <2>1, <5>1, <5>2
      <4>2. PICK m \in T : \A k \in T : m <= k
        <5> HIDE DEF T
        <5> QED BY <4>1, LeastNat
      <4>3. p \in Int /\ ReadTo(m) \in Int /\ ReadFrom(m) \in Int
        BY <2>2, <3>2, <4>2
      <4>4. ReadFrom(m) < p
        <5>1. CASE m = tail_buffer
          <6>1. ReadFrom(m) = TailCut
            BY <2>2, <5>1 DEF ReadFrom
          <6> QED BY <2>2, <4>3, <6>1
        <5>2. CASE m # tail_buffer
          <6>1. m - 1 \in tail_buffer..last /\ m - 1 < m /\ m = (m - 1) + 1
            BY <2>1, <4>2, <5>2
          <6>2. m - 1 \notin T
            BY <2>1, <4>2, <6>1
          <6>3. ReadTo(m - 1) < p
            BY <3>2, <4>3, <6>1, <6>2
          <6>4. ReadTo(m - 1) = ReadFrom(m)
            BY <3>3, <4>2, <6>1
          <6> QED BY <6>3, <6>4
        <5> QED BY <5>1, <5>2
      <4>5. p \in (ReadFrom(m) + 1)..ReadTo(m)
        BY <4>2, <4>3, <4>4
      <4> QED BY <4>2, <4>5
    <3>5. ASSUME NEW i \in tail_buffer..last, NEW p \in (ReadFrom(i) + 1)..ReadTo(i)
          PROVE  p \in (TailCut + 1)..received
      <4>1. ReadFrom(i) \in TailCut..received /\ ReadTo(i) \in 0..received
        BY <3>2
      <4>2. TailCut \in Int
        BY <2>2
      <4> QED BY <2>2, <4>1, <4>2
    <3>6. UNION {(ReadFrom(i) + 1)..ReadTo(i) : i \in ReadChunks}
            = (TailCut + 1)..received
      BY <3>1, <3>4, <3>5
    <3> QED BY <2>3, <3>1, <3>3, <3>6 DEF WalkReadsTail
  <2> QED BY <2>4, <2>5
<1> QED BY <1>1, Invariance, PTL

\* No chunk is leaked or freed twice, and none overflows its array.
THEOREM NoLeak ==
  ASSUME CleanAppend
  PROVE  Spec => []BlocksAccounted
<1> DEFINE Room == pc # "start" => \A i \in first..last : chunk[i].nbytes <= BufSize
           Blocks == pc \notin {"start", "final"} =>
                       blocks = last - first + 1 + IF append.allocated THEN 1 ELSE 0
           Done == pc = "final" => blocks = 0
<1>1. Init => BlocksAccounted
  BY DEF Init, BlocksAccounted
<1>2. ASSUME CleanAppend, Inv, BlocksAccounted, [Next]_vars
      PROVE  BlocksAccounted'
  <2>0. BufSize \in Nat /\ first \in Nat /\ last \in Nat /\ blocks \in Int
    BY <1>2, BufSizeAssumption DEF Inv, TypeOK
  <2>1. CASE buffer_init
    <3>1. PICK g \in UninitLines : append' = Empty(g)
      BY <2>1 DEF buffer_init
    <3>2. append'.allocated
      BY <3>1 DEF Empty
    <3>3. /\ pc' = "idle" /\ first' = 1 /\ last' = 1 /\ blocks' = 2
          /\ chunk'[1].nbytes = 0
      BY <1>2, <2>1 DEF buffer_init, FirstChunk, Inv, StartInv
    <3> QED BY <2>0, <3>2, <3>3 DEF BlocksAccounted
  <2>2. CASE Append
    <3>1. /\ pc = "idle" /\ append.allocated /\ UNCHANGED <<first, blocks>>
      BY <1>2, <2>2 DEF Append, Inv, AppendInv
    <3>2. /\ chunk \in [first..last -> [from : Nat, nbytes : Nat, nlines : Nat]]
          /\ first <= last
      BY <1>2, <3>1, ListTypes DEF Inv, TypeOK
    <3> DEFINE Step(size, l) ==
            \/ /\ size + chunk[last].nbytes < BufSize
               /\ chunk' = [chunk EXCEPT ![last] =
                              [from |-> @.from, nbytes |-> @.nbytes + size,
                               nlines |-> @.nlines + l]]
               /\ pc' = "copied"
               /\ UNCHANGED <<last, append>>
            \/ /\ chunk' = [i \in first..(last + 1) |->
                              IF i <= last THEN chunk[i]
                              ELSE [from |-> received, nbytes |-> size, nlines |-> l]]
               /\ last' = last + 1
               /\ append' = NULL
               /\ pc' = "linked"
    <3>n. PICK size \in 1..Min2(BufSize, MaxBytes - received) :
            \E new \in NewlineSets(received, received + size) :
              Step(size, append.nlines + Cardinality(new))
      BY <2>2 DEF Append
    <3>m. PICK new \in NewlineSets(received, received + size) :
            Step(size, append.nlines + Cardinality(new))
      BY <3>n
    <3> DEFINE l == append.nlines + Cardinality(new)
    <3>3. Step(size, l)
      BY <3>m
    <3> HIDE DEF l
    <3>4. size \in Nat /\ size <= BufSize
      BY BufSizeAssumption, MaxBytesAssumption, <1>2 DEF Min2, Inv, TypeOK
    <3>5. CASE pc' = "copied"
      <4>1. /\ size + chunk[last].nbytes < BufSize
            /\ chunk' = [chunk EXCEPT ![last] =
                           [from |-> @.from, nbytes |-> @.nbytes + size, nlines |-> @.nlines + l]]
            /\ UNCHANGED <<last, append>>
        BY <3>3, <3>5
      <4>2. ASSUME NEW i \in first..last PROVE chunk'[i].nbytes <= BufSize
        <5>1. CASE i = last
          <6>1. chunk'[i].nbytes = chunk[last].nbytes + size /\ chunk[last].nbytes \in Nat
            BY <3>2, <4>1, <5>1
          <6> QED BY <2>0, <3>4, <4>1, <6>1
        <5>2. CASE i # last
          BY <1>2, <3>1, <3>2, <4>1, <5>2 DEF BlocksAccounted
        <5> QED BY <5>1, <5>2
      <4> QED BY <1>2, <3>1, <3>5, <4>1, <4>2 DEF BlocksAccounted
    <3>6. CASE pc' = "linked"
      <4>1. /\ chunk' = [i \in first..(last + 1) |->
                           IF i <= last THEN chunk[i]
                           ELSE [from |-> received, nbytes |-> size, nlines |-> l]]
            /\ last' = last + 1
            /\ append' = NULL
        BY <3>3, <3>6
      <4>2. ASSUME NEW i \in first..(last + 1) PROVE chunk'[i].nbytes <= BufSize
        <5>1. CASE i = last + 1
          <6>1. ~ (i <= last)
            BY <2>0, <5>1
          <6> QED BY <3>4, <4>1, <6>1
        <5>2. CASE i # last + 1
          <6>1. i \in first..last /\ i <= last
            BY <2>0, <5>2
          <6> QED BY <1>2, <3>1, <4>1, <6>1 DEF BlocksAccounted
        <5> QED BY <5>1, <5>2
      <4>3. ~append'.allocated
        BY <4>1 DEF NULL
      <4>4. blocks = last - first + 1 + 1
        BY <1>2, <3>1 DEF BlocksAccounted
      <4>5. blocks' = last' - first' + 1 + 0
        BY <2>0, <3>1, <4>1, <4>4
      <4> QED BY <3>1, <3>6, <4>1, <4>2, <4>3, <4>5 DEF BlocksAccounted
    <3> QED BY <3>3, <3>5, <3>6
  <2>3. CASE SkipBuffer
    BY <1>2, <2>3 DEF SkipBuffer, BlocksAccounted, list
  <2>4. CASE PlaceTail
    <3>1. /\ UNCHANGED <<chunk, first, last, blocks>>
          /\ pc \in {"copied", "linked"} /\ pc' \in {"idle", "placed"}
      BY <2>4 DEF PlaceTail, list
    <3>2. append'.allocated = append.allocated
      <4>1. CASE pc = "copied"
        <5>1. append' = [allocated |-> TRUE, nbytes |-> 0, nlines |-> 0]
          BY <2>4, <4>1 DEF PlaceTail, ResetAppend, Empty
        <5>2. append.allocated = TRUE
          BY <1>2, <4>1 DEF Inv, TypeOK, AppendInv
        <5> QED BY <5>1, <5>2
      <4>2. CASE pc = "linked"
        BY <2>4, <4>2 DEF PlaceTail
      <4> QED BY <3>1, <4>1, <4>2
    <3> QED BY <1>2, <3>1, <3>2 DEF BlocksAccounted
  <2>5. CASE RecycleFirst
    <3>1. /\ pc = "placed" /\ pc' = "idle" /\ first' = first + 1
          /\ UNCHANGED <<last, blocks>>
          /\ chunk' = [i \in (first + 1)..last |-> chunk[i]]
          /\ append' = [allocated |-> TRUE, nbytes |-> 0, nlines |-> 0]
      BY <2>5 DEF RecycleFirst, ResetAppend, Empty
    <3>2. blocks = last - first + 1 + 0
      BY <1>2, <3>1 DEF BlocksAccounted, Inv, AppendInv
    <3>3. blocks' = last' - first' + 1 + 1
      BY <2>0, <3>1, <3>2
    <3>4. ASSUME NEW i \in (first + 1)..last PROVE chunk'[i].nbytes <= BufSize
      <4>1. i \in first..last
        BY <2>0
      <4> QED BY <1>2, <3>1, <4>1 DEF BlocksAccounted
    <3> QED BY <3>1, <3>3, <3>4 DEF BlocksAccounted
  <2>6. CASE Allocate
    <3>1. /\ pc = "placed" /\ pc' = "idle" /\ blocks' = blocks + 1
          /\ UNCHANGED <<chunk, first, last>>
          /\ append' = [allocated |-> TRUE, nbytes |-> 0, nlines |-> 0]
      BY <2>6 DEF Allocate, ResetAppend, Empty, list
    <3>2. blocks = last - first + 1 + 0
      BY <1>2, <3>1 DEF BlocksAccounted, Inv, AppendInv
    <3>3. blocks' = last' - first' + 1 + 1
      BY <2>0, <3>1, <3>2
    <3> QED BY <1>2, <3>1, <3>3 DEF BlocksAccounted
  <2>7. CASE OutOfMemory
    BY <1>2, <2>7 DEF OutOfMemory, BlocksAccounted, list
  <2>8. CASE buffer_final
    <3>1. /\ pc \in {"idle", "oom"} /\ pc' = "final"
          /\ blocks' = blocks - (last - first + 1) - (IF append.allocated THEN 1 ELSE 0)
          /\ UNCHANGED <<chunk, first, last>>
      BY <2>8 DEF buffer_final, list
    <3>2. blocks = last - first + 1 + IF append.allocated THEN 1 ELSE 0
      BY <1>2, <3>1 DEF BlocksAccounted
    <3>3. blocks' = 0
      BY <2>0, <3>1, <3>2
    <3> QED BY <1>2, <3>1, <3>3 DEF BlocksAccounted
  <2>9. CASE UNCHANGED vars
    BY <1>2, <2>9 DEF vars, list, BlocksAccounted
  <2> QED BY <1>2, <2>1, <2>2, <2>3, <2>4, <2>5, <2>6, <2>7, <2>8, <2>9
          DEF Next, buffer_set_appended
<1> QED BY <1>1, <1>2, Invariance, PTL DEF Spec
---------------------------------------------------------------------------------
\* LastUnits.tla means by the tail what Buffer.tla means.
LEMMA SameTailStart ==
  ASSUME NEW lines, NEW nl, NEW n, NEW len, NEW s, IsTailStart(lines, n, nl, len, s)
  PROVE  Promise!IsTailStart(lines, n, nl, len, s)
<1>1. \A lo, hi : Promise!UnitsIn(lines, nl, lo, hi) = UnitsIn(lines, nl, lo, hi)
  <2>1. \A S : Promise!Cardinality(S) = Cardinality(S)
    BY DEF Promise!Cardinality, Cardinality
  <2> QED BY <2>1 DEF UnitsIn, NewlinesIn, Promise!UnitsIn, Promise!NewlinesIn
<1>2. CASE UnitsIn(lines, nl, 0, len) <= n
  BY <1>1, <1>2 DEF IsTailStart, Promise!IsTailStart
<1>3. CASE ~(UnitsIn(lines, nl, 0, len) <= n)
  BY <1>1, <1>3 DEF IsTailStart, Promise!IsTailStart
<1> QED BY <1>2, <1>3

\* buffer.c implements LastUnits.tla: every call is a Feed followed by a Settle, and
\* what it does with its chunks cannot be seen.
THEOREM Implementation ==
  ASSUME CleanAppend
  PROVE  Spec => TailSpec
<1> DEFINE tail == IF Readable THEN TailCut ELSE -1
<1>1. Init => Promise!Init
  BY ModesAssumption, UnitsAssumption DEF Init, Promise!Init, Promise!NoTail, Readable
<1>2. ASSUME Inv, Inv', [Next]_vars
      PROVE  [Promise!Next]_(Promise!vars)
  <2> USE <1>2 DEF Inv
  <2>0. Readable => TailCut \in Nat
    <3>1. SUFFICES ASSUME Readable PROVE TailCut \in Nat
      OBVIOUS
    <3>2. tail_offset \in Nat /\ chunk[tail_buffer].from \in Nat
      BY <3>1, ListTypes DEF TypeOK, Readable
    <3> QED BY <3>2 DEF TailCut
  <2>1. CASE buffer_init \/ PlaceTail
    <3>1. /\ ~Readable /\ Readable'
          /\ UNCHANGED <<count_lines, n_units, received, newlines>>
      <4>1. CASE buffer_init
        BY <4>1 DEF buffer_init, Readable, config, stream
      <4>2. CASE PlaceTail
        BY <4>2 DEF PlaceTail, Readable, tracking, config, stream
      <4> QED BY <2>1, <4>1, <4>2
    <3>2. IsTailStart(count_lines, n_units, newlines, received, TailCut')
      BY <3>1 DEF TailInv
    <3>3. Promise!IsTailStart(count_lines, n_units, newlines, received, TailCut')
      BY <3>2, SameTailStart
    <3>4. tail = -1 /\ tail' = TailCut'
      BY <3>1
    <3> HIDE DEF tail
    <3>5. Promise!Settle
      BY <3>1, <3>3, <3>4 DEF Promise!Settle, Promise!NoTail, tail
    <3> QED BY <3>5 DEF Promise!Next
  <2>2. CASE Append
    <3>1. /\ pc = "idle" /\ Readable /\ ~Readable'
          /\ UNCHANGED <<count_lines, n_units>>
      BY <2>2 DEF Append, Readable, config
    <3>2. PICK size \in 1..Min2(BufSize, MaxBytes - received) :
            \E new \in NewlineSets(received, received + size) :
              received' = received + size /\ newlines' = newlines \cup new
      BY <2>2 DEF Append
    <3>3. PICK new \in NewlineSets(received, received + size) :
              received' = received + size /\ newlines' = newlines \cup new
      BY <3>2
    <3>4. /\ received \in Nat /\ size \in Nat \ {0}
          /\ new \subseteq (received + 1)..(received + size)
      <4>1. received \in Nat /\ size \in Nat \ {0}
        BY BufSizeAssumption, MaxBytesAssumption DEF TypeOK, Min2
      <4>2. new \subseteq (received + 1)..(received + size)
        BY DEF NewlineSets
      <4> QED BY <4>1, <4>2
    <3>5. received' \in Nat /\ received' > received
      BY <3>3, <3>4
    <3>6. newlines \subseteq newlines' /\ newlines' \ newlines \subseteq (received + 1)..received'
      BY <3>3, <3>4
    <3>7. Promise!Feed
      BY <2>0, <3>1, <3>5, <3>6 DEF Promise!Feed, Promise!NoTail
    <3> QED BY <3>7 DEF Promise!Next
  <2>3. CASE SkipBuffer
    BY <2>3 DEF SkipBuffer, tracking, Readable, config, stream, Promise!vars
  <2>4. CASE RecycleFirst
    <3>1. /\ Readable /\ Readable'
          /\ UNCHANGED <<count_lines, n_units, received, newlines, tail_buffer,
                         tail_offset>>
          /\ chunk' = [i \in (first + 1)..last |-> chunk[i]]
      BY <2>4 DEF RecycleFirst, Readable, config, stream
    <3>2. tail_buffer \in (first + 1)..last
      BY <2>4, DroppableIsBeforeTail DEF RecycleFirst
    <3>3. TailCut' = TailCut
      BY <3>1, <3>2 DEF TailCut
    <3> QED BY <3>1, <3>3 DEF Promise!vars
  <2>5. CASE Allocate \/ OutOfMemory
    <3>1. /\ Readable /\ Readable'
          /\ UNCHANGED <<count_lines, n_units, received, newlines, tail_buffer,
                         tail_offset, chunk>>
      BY <2>5 DEF Allocate, OutOfMemory, Readable, config, stream, list, tailpos
    <3>2. TailCut' = TailCut
      BY <3>1 DEF TailCut
    <3> QED BY <3>1, <3>2 DEF Promise!vars
  <2>6. CASE buffer_final
    <3>1. /\ Readable /\ ~Readable'
          /\ UNCHANGED <<count_lines, n_units, received, newlines>>
      BY <2>6 DEF buffer_final, Readable, config, stream
    <3>2. Promise!Close
      BY <2>0, <3>1 DEF Promise!Close, Promise!NoTail
    <3> QED BY <3>2 DEF Promise!Next
  <2>7. CASE UNCHANGED vars
    BY <2>7 DEF vars, config, list, tailpos, stream, Readable, TailCut, Promise!vars
  <2> QED BY <2>1, <2>2, <2>3, <2>4, <2>5, <2>6, <2>7 DEF Next, buffer_set_appended
<1> QED BY <1>1, <1>2, Invariance, PTL DEF Spec, TailSpec, Promise!Spec
---------------------------------------------------------------------------------
(***************************************************************************)
(* The memory in use when bytes are counted.                               *)
(***************************************************************************)
\* A chunk is only linked if its bytes do not fit the one before it: 2 * h chunks in a row
\* hold h * BufSize bytes. (That each two neighbours hold BufSize does not say so for all
\* chunks of the list without an induction; said of every stretch, each append keeps it.)
WellFilled ==
  pc # "start" =>
    \A i \in first..last, h \in Nat \ {0} :
      i + 2 * h - 1 <= last => ReadTo(i + 2 * h - 1) - chunk[i].from >= h * BufSize

LEMMA AppendFills ==
  ASSUME Inv, WellFilled, Append
  PROVE  WellFilled'
<1> USE DEF Inv
<1> DEFINE Grown(size, l) ==
             /\ chunk' = [chunk EXCEPT ![last] =
                            [from |-> @.from, nbytes |-> @.nbytes + size,
                             nlines |-> @.nlines + l]]
             /\ UNCHANGED last
           Linked(size, l) ==
             /\ size + chunk[last].nbytes >= BufSize
             /\ chunk' = [i \in first..(last + 1) |->
                            IF i <= last THEN chunk[i]
                            ELSE [from |-> received, nbytes |-> size, nlines |-> l]]
             /\ last' = last + 1
<1>1. pc # "start" /\ first' = first
  BY DEF Append
<1>2. /\ first \in Nat \ {0} /\ last \in Nat /\ first <= last
      /\ \A i \in first..last : chunk[i].from \in Nat /\ chunk[i].nbytes \in Nat
      /\ chunk \in [first..last -> [from : Nat, nbytes : Nat, nlines : Nat]]
      /\ BufSize \in Nat /\ received \in Nat
  BY <1>1, ListTypes, BufSizeAssumption DEF TypeOK
<1>3. PICK size \in 1..Min2(BufSize, MaxBytes - received) :
        \E new \in NewlineSets(received, received + size) :
          LET l == append.nlines + Cardinality(new) IN Grown(size, l) \/ Linked(size, l)
  BY DEF Append
<1>4. PICK l : Grown(size, l) \/ Linked(size, l)
  BY <1>3
<1>5. size \in Nat
  BY <1>2, MaxBytesAssumption DEF Min2
<1>6. ASSUME NEW i \in first'..last', NEW h \in Nat \ {0}, i + 2 * h - 1 <= last'
      PROVE  ReadTo(i + 2 * h - 1)' - chunk'[i].from >= h * BufSize
  <2> SUFFICES ASSUME NEW j, j = i + 2 * h - 1
               PROVE  ReadTo(j)' - chunk'[i].from >= h * BufSize
    OBVIOUS
  <2>1. /\ i \in Nat /\ j \in Nat /\ first <= i /\ i < j /\ j <= last'
        /\ h * BufSize \in Nat
    BY <1>1, <1>2, <1>4, <1>6
  <2>f. \A k \in first..last : k > i /\ k = j => ReadTo(k) - chunk[i].from >= h * BufSize
    <3> SUFFICES ASSUME j \in first..last
                 PROVE  ReadTo(j) - chunk[i].from >= h * BufSize
      OBVIOUS
    <3>1. i \in first..last /\ i + 2 * h - 1 <= last
      BY <1>2, <2>1
    <3> QED BY <1>1, <3>1 DEF WellFilled
  <2>2. CASE Grown(size, l)
    <3>1. i \in first..last /\ j \in first..last /\ i # last
      BY <1>2, <2>1, <2>2
    <3>2. chunk'[i].from = chunk[i].from
      BY <1>2, <2>2, <3>1
    <3>3. ReadTo(j)' = ReadTo(j) \/ ReadTo(j)' = ReadTo(j) + size
      <4>1. CASE j = last
        <5>1. chunk'[last] = [from |-> chunk[last].from, nbytes |-> chunk[last].nbytes + size,
                              nlines |-> chunk[last].nlines + l]
          BY <1>2, <2>2, <3>1, <4>1
        <5>2. /\ chunk'[last].from = chunk[last].from
              /\ chunk'[last].nbytes = chunk[last].nbytes + size
          BY <5>1
        <5>3. chunk[last].from \in Nat /\ chunk[last].nbytes \in Nat
          BY <1>2, <3>1, <4>1
        <5> QED BY <1>5, <4>1, <5>2, <5>3 DEF ReadTo
      <4>2. CASE j # last
        BY <1>2, <2>2, <3>1, <4>2 DEF ReadTo
      <4> QED BY <4>1, <4>2
    <3>4. ReadTo(j) - chunk[i].from >= h * BufSize
      BY <2>1, <2>f, <3>1
    <3>5. ReadTo(j) \in Nat /\ chunk[i].from \in Nat
      <4>1. \A k \in first..last : chunk[k].from \in Nat /\ chunk[k].nbytes \in Nat
        BY <1>2
      <4>2. i \in first..last
        BY <1>2, <2>1, <2>2
      <4> QED BY <3>1, <4>1, <4>2 DEF ReadTo
    <3> HIDE DEF Grown, Linked
    <3> QED BY <1>5, <2>1, <3>2, <3>3, <3>4, <3>5
  <2>3. CASE Linked(size, l)
    <3>1. /\ last' = last + 1
          /\ \A k \in first..last : chunk'[k] = chunk[k]
          /\ chunk'[last + 1].from = received /\ chunk'[last + 1].nbytes = size
          /\ size + chunk[last].nbytes >= BufSize
      BY <1>2, <2>3
    <3> HIDE DEF Grown, Linked
    <3>2. CASE j <= last
      <4>1. i \in first..last /\ j \in first..last
        BY <1>2, <2>1, <3>2
      <4>2. chunk'[i] = chunk[i] /\ chunk'[j] = chunk[j]
        BY <3>1, <4>1
      <4>3. ReadTo(j) - chunk[i].from >= h * BufSize
        BY <2>1, <2>f, <4>1
      <4> QED BY <4>2, <4>3 DEF ReadTo
    <3>3. CASE j = last + 1
      <4>1. i \in first..last
        BY <1>2, <2>1, <3>3
      <4>2. /\ chunk'[i].from = chunk[i].from /\ chunk[i].from \in Nat
            /\ ReadTo(j)' = received + size
        BY <1>2, <3>1, <3>3, <4>1 DEF ReadTo
      <4>3. /\ chunk[last].from + chunk[last].nbytes = received
            /\ chunk[last].nbytes \in Nat /\ chunk[last].from \in Nat
        BY <1>1, <1>2 DEF ListInv
      <4>4. chunk[last].from - chunk[i].from >= (h - 1) * BufSize
        <5>1. CASE h = 1
          <6>1. i = last
            BY <1>2, <2>1, <3>3, <5>1
          <6> QED BY <1>2, <4>3, <5>1, <6>1
        <5>2. CASE h # 1
          <6>1. h - 1 \in Nat \ {0} /\ i + 2 * (h - 1) - 1 = last - 1
            BY <1>2, <2>1, <3>3, <5>2
          <6>2. last - 1 \in first..last /\ (last - 1) + 1 = last /\ last - 1 <= last
            BY <1>2, <2>1, <4>1, <6>1
          <6>3. \A g \in Nat \ {0} :
                  i + 2 * g - 1 <= last => ReadTo(i + 2 * g - 1) - chunk[i].from >= g * BufSize
            BY <1>1, <4>1 DEF WellFilled
          <6>4. ReadTo(last - 1) - chunk[i].from >= (h - 1) * BufSize
            <7>1. ASSUME NEW g \in Nat \ {0}, NEW k, k = i + 2 * g - 1, k <= last
                  PROVE  ReadTo(k) - chunk[i].from >= g * BufSize
              BY <6>3, <7>1
            <7> QED BY <6>1, <6>2, <7>1
          <6>5. ReadTo(last - 1) = chunk[last].from
            <7>1. \A x, y \in first..last :
                    y = x + 1 => chunk[y].from = chunk[x].from + chunk[x].nbytes
              BY <1>1 DEF ListInv
            <7>2. last \in first..last
              BY <1>2
            <7> QED BY <6>2, <7>1, <7>2 DEF ReadTo
          <6> QED BY <6>4, <6>5
        <5> QED BY <5>1, <5>2
      <4>5. \A g, n, f, c, b, r, x \in Nat :
              c - f >= g /\ c + n = r /\ x + n >= b => r + x - f >= g + b
        OBVIOUS
      <4>6. (h - 1) * BufSize + BufSize = h * BufSize /\ (h - 1) * BufSize \in Nat
        BY <1>2
      <4>7. received + size - chunk[i].from >= (h - 1) * BufSize + BufSize
        BY <1>2, <1>5, <3>1, <4>2, <4>3, <4>4, <4>5, <4>6
      <4>8. received + size - chunk[i].from >= h * BufSize
        BY <4>6, <4>7, Zenon
      <4>9. ReadTo(j)' - chunk'[i].from = received + size - chunk[i].from
        BY <1>2, <1>5, <3>1, <3>3, <4>1, <4>2, SMTT(40) DEF ReadTo
      <4> QED BY <4>8, <4>9, Zenon
    <3>4. j <= last \/ j = last + 1
      BY <1>2, <2>1, <3>1
    <3> QED BY <3>2, <3>3, <3>4
  <2> QED BY <1>4, <2>2, <2>3
<1> QED BY <1>6 DEF WellFilled

LEMMA StepFills ==
  ASSUME Inv, WellFilled, [Next]_vars
  PROVE  WellFilled'
<1> USE DEF Inv
<1>1. CASE buffer_init
  <2>1. first' = 1 /\ last' = 1
    BY <1>1 DEF buffer_init, StartInv
  <2> QED BY <2>1 DEF WellFilled
<1>2. CASE Append
  BY <1>2, AppendFills
<1>3. CASE RecycleFirst
  <2>1. /\ first' = first + 1 /\ last' = last /\ pc # "start"
        /\ chunk' = [i \in (first + 1)..last |-> chunk[i]]
    BY <1>3 DEF RecycleFirst
  <2>2. first \in Nat /\ last \in Nat
    BY DEF TypeOK
  <2> SUFFICES ASSUME NEW i \in (first + 1)..last, NEW h \in Nat \ {0},
                      i + 2 * h - 1 <= last
               PROVE  ReadTo(i + 2 * h - 1)' - chunk'[i].from >= h * BufSize
    BY <2>1 DEF WellFilled
  <2>3. i \in first..last /\ i + 2 * h - 1 \in (first + 1)..last
    BY <2>2
  <2>4. chunk'[i] = chunk[i] /\ chunk'[i + 2 * h - 1] = chunk[i + 2 * h - 1]
    BY <2>1, <2>3
  <2> QED BY <2>1, <2>3, <2>4 DEF WellFilled, ReadTo
<1>4. CASE SkipBuffer \/ PlaceTail \/ Allocate \/ OutOfMemory \/ buffer_final
           \/ UNCHANGED vars
  <2>1. UNCHANGED <<chunk, first, last>> /\ (pc' # "start" => pc # "start")
    BY <1>4 DEF SkipBuffer, PlaceTail, Allocate, OutOfMemory, buffer_final, tracking, list,
                vars
  <2> QED BY <2>1 DEF WellFilled, ReadTo
<1> QED BY <1>1, <1>2, <1>3, <1>4 DEF Next, buffer_set_appended

\* If no chunk can be recycled the list has no more than the tail needs.
LEMMA NotDroppableIsShort ==
  ASSUME Inv, WellFilled, pc = "placed", ~first_buffer_droppable, ~count_lines
  PROVE  last - first <= 2 * (n_units \div BufSize) + 1
<1> USE DEF Inv
<1> DEFINE q == n_units \div BufSize
<1>1. /\ first \in Nat /\ last \in Nat /\ first <= last /\ received \in Nat
      /\ \A i \in first..last :
           /\ chunk[i].from \in Nat /\ chunk[i].nbytes \in Nat
           /\ chunk[i].from + chunk[i].nbytes <= received
      /\ BufSize \in Nat \ {0} /\ n_units \in Nat
  BY ListTypes, BufSizeAssumption, UnitsAssumption, SMTT(40) DEF TypeOK
<1>2. q \in Nat /\ n_units < BufSize * q + BufSize
  BY <1>1, Z3
<1> HIDE DEF q
<1> SUFFICES ASSUME last - first > 2 * q + 1
             PROVE  FALSE
  BY <1>1, <1>2 DEF q
<1> DEFINE i == first + 1
           j == i + 2 * (q + 1) - 1
<1>3. i \in first..last /\ j \in first..last /\ j <= last /\ q + 1 \in Nat \ {0}
  BY <1>1, <1>2
<1>4. ReadTo(j) - chunk[i].from >= (q + 1) * BufSize
  BY <1>3 DEF WellFilled
<1>5. ReadTo(j) <= received /\ ReadTo(j) \in Nat
  BY <1>1, <1>3 DEF ReadTo
<1>6. chunk[i].from = chunk[first].from + chunk[first].nbytes
  BY <1>1, <1>3 DEF ListInv
<1>7. received - chunk[first].from - chunk[first].nbytes <= n_units
  <2>1. total_bytes = received - chunk[first].from
    BY DEF CountersMatchList
  <2>2. first \in first..last
    BY <1>1
  <2> QED BY <1>1, <2>1, <2>2 DEF first_buffer_droppable
<1>8. (q + 1) * BufSize = BufSize * q + BufSize
  BY <1>1, <1>2
<1>9. first \in first..last
  BY <1>1
<1> HIDE DEF i, j
<1> QED BY <1>1, <1>2, <1>3, <1>4, <1>5, <1>6, <1>7, <1>8, <1>9

\* With -c, the memory of tailserver and tailclient is bounded by twice the tail and three
\* chunks, whatever the lengths of the reads, and however long the stream.
THEOREM MemoryIsBounded ==
  ASSUME CleanAppend
  PROVE  Spec => []BytesTailBounded
<1>1. Init => WellFilled /\ BytesTailBounded
  BY DEF Init, WellFilled, BytesTailBounded
<1>2. ASSUME Inv, BlocksAccounted, WellFilled, BytesTailBounded, [Next]_vars
      PROVE  WellFilled' /\ BytesTailBounded'
  <2> DEFINE q == n_units \div BufSize
  <2>1. /\ UNCHANGED n_units /\ UNCHANGED count_lines /\ q \in Nat /\ blocks \in Int
        /\ first \in Nat /\ last \in Nat
    <3>1. UNCHANGED config
      BY <1>2 DEF Next, buffer_set_appended, buffer_init, Append, SkipBuffer, PlaceTail,
                  RecycleFirst, Allocate, OutOfMemory, buffer_final, vars
    <3>2. n_units \in Nat /\ BufSize \in Nat \ {0} /\ blocks \in Int
          /\ first \in Nat /\ last \in Nat
      BY <1>2, BufSizeAssumption, UnitsAssumption DEF Inv, TypeOK
    <3>3. q \in Nat
      BY <3>2, Z3
    <3> QED BY <3>1, <3>2, <3>3 DEF config
  <2> HIDE DEF q
  <2>2. BytesTailBounded'
    <3> SUFFICES ASSUME ~count_lines, pc' # "start"
                 PROVE  blocks' <= 2 * q + 3
      BY <2>1 DEF BytesTailBounded, q
    <3>1. pc # "start" => blocks <= 2 * q + 3
      BY <1>2 DEF BytesTailBounded, q
    <3>2. CASE buffer_init
      BY <2>1, <3>2 DEF buffer_init
    <3>3. CASE Allocate
      <4>1. blocks = last - first + 1 + 0 /\ blocks' = blocks + 1
        BY <1>2, <3>3 DEF Allocate, BlocksAccounted, Inv, AppendInv
      <4>2. last - first <= 2 * q + 1
        BY <1>2, <3>3, NotDroppableIsShort DEF Allocate, q
      <4> QED BY <2>1, <4>1, <4>2
    <3>4. CASE buffer_final
      <4>1. /\ pc # "start"
            /\ blocks' = blocks - (last - first + 1) - (IF append.allocated THEN 1 ELSE 0)
        BY <3>4 DEF buffer_final
      <4>2. first <= last
        BY <1>2, <4>1, ListTypes DEF Inv
      <4> QED BY <2>1, <3>1, <4>1, <4>2
    <3>5. CASE Append \/ SkipBuffer \/ PlaceTail \/ RecycleFirst \/ OutOfMemory
               \/ UNCHANGED vars
      <4>1. UNCHANGED blocks /\ pc # "start"
        BY <3>5 DEF Append, SkipBuffer, PlaceTail, RecycleFirst, OutOfMemory, tracking, vars
      <4> QED BY <3>1, <4>1
    <3> QED BY <1>2, <3>2, <3>3, <3>4, <3>5 DEF Next, buffer_set_appended
  <2> QED BY <1>2, <2>2, StepFills
<1> QED BY <1>1, <1>2, Invariance, NoLeak, PTL DEF Spec
=================================================================================
