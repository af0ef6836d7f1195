------------------------------ MODULE OptionsProofs ------------------------------
(***************************************************************************)
(* That a program is launched with exactly the number it was given, for    *)
(* every width of uintmax_t and all factors of the suffixes; and that the  *)
(* exit status of a program that is not launched, or has ended, tells      *)
(* whether what it printed with stdio has arrived.                         *)
(***************************************************************************)
EXTENDS Options, TLAPS

\* Until close_stdout is called the error flags of the streams are all that went wrong;
\* stdout has had none when stderr is closed.
StatusInv ==
  /\ failed \subseteq trouble /\ trouble \subseteq Streams
  /\ pc # "exited" => trouble = failed
  /\ pc = "close_stderr" => stdout \notin failed
  /\ StatusTellsLoss

LEMMA StatusInit == Init => StatusInv
  BY DEF Init, StdioInit, StatusInv, StatusTellsLoss, Streams

\* Most steps only go on, before the end.
LEMMA GoesOn ==
  ASSUME StatusInv, pc' \notin {"close_stderr", "exited"}, UNCHANGED <<failed, trouble>>,
         pc # "exited"
  PROVE  StatusInv'
  BY DEF StatusInv, StatusTellsLoss

\* Writing sets the error flag if it fails.
LEMMA WritesKeeps ==
  ASSUME StatusInv, NEW s \in Streams, Writes(s) \/ WriteFails(s),
         pc' \notin {"close_stderr", "exited"}, pc # "exited"
  PROVE  StatusInv'
  BY DEF StatusInv, StatusTellsLoss, Writes, WriteFails

\* close_stream finds whatever has gone wrong with s, and nothing else.
LEMMA CloseStream ==
  ASSUME StatusInv, pc # "exited", NEW s \in Streams, NEW res \in BOOLEAN,
         close_stream(s, res)
  PROVE  /\ res => s \in trouble'
         /\ ~res => trouble' = trouble /\ s \notin failed
         /\ trouble \subseteq trouble' /\ trouble' \subseteq Streams
  <1>1. PICK fclose_fail \in BOOLEAN :
          LET some_pending == s = stdout /\ pending > 0 IN
          /\ res = CloseError(s, fclose_fail, some_pending)
          /\ trouble' = IF fclose_fail /\ (some_pending \/ s \in opened)
                        THEN trouble \cup {s} ELSE trouble
    BY DEF close_stream
  <1> QED BY <1>1 DEF CloseError, StatusInv

LEMMA StatusStep ==
  ASSUME StatusInv, [Next]_vars
  PROVE  StatusInv'
  <1>1. CASE ReadUnits \/ bkm_scale_by_power \/ Store \/ ServerFlag \/ ClientFlag
             \/ ReadSeconds \/ usage \/ version_etc
    <2>1. pc # "exited" /\ UNCHANGED <<failed, trouble>>
      BY <1>1 DEF ReadUnits, bkm_scale_by_power, Store, ServerFlag, ClientFlag,
                  ReadSeconds, usage, version_etc, Say, Getopt, stdio, streams
    <2>2. pc' \notin {"close_stderr", "exited"}
      BY <1>1 DEF ReadUnits, bkm_scale_by_power, Store, ServerFlag, ClientFlag,
                  ReadSeconds, xstrtod, usage, version_etc, Say, Getopt
    <2> QED BY <2>1, <2>2, GoesOn
  <1>2. CASE emit_try_help \/ Launch \/ RunAndEnd
    <2>1. pc \in {"options", "launched"}
      BY <1>2 DEF emit_try_help, Getopt, Launch, RunAndEnd
    <2>2. pc' \in {"atexit", "launched", "refused_path"}
      BY <1>2 DEF emit_try_help, Launch, RunAndEnd, exit
    <2>3. Writes(stderr) \/ UNCHANGED <<failed, trouble>>
      BY <1>2 DEF emit_try_help, Launch, RunAndEnd, streams
    <2> QED BY <2>1, <2>2, <2>3, GoesOn, WritesKeeps DEF Streams
  <1>3. CASE error
    <2>1. /\ pc \in {"refused", "refused_seconds", "refused_path"} /\ pc' = "atexit"
          /\ Writes(stderr)
      BY <1>3 DEF error, exit
    <2> QED BY <2>1, WritesKeeps DEF Streams
  <1>4. CASE PrintText
    <2>1. pc = "print" /\ pc' \in {"print", "atexit"}
      BY <1>4 DEF PrintText, exit
    <2>2. WriteFails(stdout) \/ UNCHANGED <<failed, trouble>>
      BY <1>4 DEF PrintText, fputs, streams
    <2> QED BY <2>1, <2>2, GoesOn, WritesKeeps DEF Streams
  <1>5. CASE close_stdout
    <2>1. pc = "atexit" /\ UNCHANGED failed
      BY <1>5 DEF close_stdout
    <2>2. CASE close_stream(stdout, FALSE) /\ pc' = "close_stderr"
      BY <2>1, <2>2, CloseStream DEF StatusInv, StatusTellsLoss, Streams, stdout, stderr
    <2>3. CASE close_stream(stdout, TRUE) /\ pc' = "exited" /\ status' = 1
      <3>1. stdout \in trouble' /\ trouble \subseteq trouble' /\ trouble' \subseteq Streams
        BY <2>1, <2>3, CloseStream DEF Streams
      <3> QED BY <2>1, <2>3, <3>1 DEF StatusInv, StatusTellsLoss
    <2> QED BY <1>5, <2>2, <2>3 DEF close_stdout
  <1>6. CASE close_stderr
    <2>1. pc = "close_stderr" /\ pc' = "exited" /\ UNCHANGED <<failed, wanted>>
      BY <1>6 DEF close_stderr
    <2>2. CASE close_stream(stderr, FALSE) /\ status' = wanted
      <3>1. trouble = {}
        BY <2>1, <2>2, CloseStream DEF StatusInv, Streams
      <3> QED BY <2>1, <2>2, <3>1, CloseStream DEF StatusInv, StatusTellsLoss, Streams
    <2>3. CASE close_stream(stderr, TRUE) /\ status' = 1
      <3>1. stderr \in trouble' /\ trouble \subseteq trouble' /\ trouble' \subseteq Streams
        BY <2>1, <2>3, CloseStream DEF Streams
      <3> QED BY <2>1, <2>3, <3>1 DEF StatusInv, StatusTellsLoss
    <2> QED BY <1>6, <2>2, <2>3 DEF close_stderr
  <1>7. CASE UNCHANGED vars
    BY <1>7 DEF vars, stdio, streams, exits, StatusInv, StatusTellsLoss
  <1> QED BY <1>1, <1>2, <1>3, <1>4, <1>5, <1>6, <1>7 DEF Next, StdioStep

\* A program exits with 0 only if nothing of what it printed was lost, and turns success
\* into failure only if something was: whatever the lengths of its texts and of the
\* buffer, and whenever writing or closing fails.
THEOREM StatusIsRight == Spec => []StatusTellsLoss
  <1>1. StatusInv => StatusTellsLoss
    BY DEF StatusInv
  <1> QED BY <1>1, StatusInit, StatusStep, PTL DEF Spec
---------------------------------------------------------------------------------
(***************************************************************************)
(* Arithmetic of the multiplications.                                      *)
(***************************************************************************)
LEMMA Quotient ==
  ASSUME NEW m \in Nat, NEW b \in Nat, b > 0
  PROVE  m \div b \in Nat /\ b * (m \div b) <= m /\ m < b * (m \div b) + b
  BY Z3

\* The test of bkm_scale before it multiplies is exact.
LEMMA QuotientTells ==
  ASSUME NEW m \in Nat, NEW b \in Nat, b > 0, NEW t \in Nat
  PROVE  IF m \div b < t THEN t * b > m ELSE t * b <= m
<1> DEFINE q == m \div b
<1>1. q \in Nat /\ b * q <= m /\ m < b * q + b
  BY Quotient
<1> HIDE DEF q
<1>2. ASSUME q < t
      PROVE  t * b > m
  <2>1. t * b >= (q + 1) * b
    BY <1>1, <1>2
  <2> QED BY <1>1, <2>1
<1>3. ASSUME ~(q < t)
      PROVE  t * b <= m
  <2>1. t * b <= q * b
    BY <1>1, <1>3
  <2> QED BY <1>1, <2>1
<1> QED BY <1>2, <1>3 DEF q

\* What PowersOf computes: its recursion has a solution, which is written out.
LEMMA PowersAre ==
  ASSUME NEW b \in Nat
  PROVE  PowersOf(b)[0] = 1 /\ \A n \in 1..8 : PowersOf(b)[n] = b * PowersOf(b)[n - 1]
<1> DEFINE
  Step(f) == [n \in 0..8 |-> IF n = 0 THEN 1 ELSE b * f[n - 1]]
  solution ==
    [n \in 0..8 |->
       IF n = 0 THEN 1
       ELSE IF n = 1 THEN b * 1
       ELSE IF n = 2 THEN b * (b * 1)
       ELSE IF n = 3 THEN b * (b * (b * 1))
       ELSE IF n = 4 THEN b * (b * (b * (b * 1)))
       ELSE IF n = 5 THEN b * (b * (b * (b * (b * 1))))
       ELSE IF n = 6 THEN b * (b * (b * (b * (b * (b * 1)))))
       ELSE IF n = 7 THEN b * (b * (b * (b * (b * (b * (b * 1))))))
       ELSE b * (b * (b * (b * (b * (b * (b * (b * 1)))))))]
<1>1. \A n \in 0..8 : solution[n] = Step(solution)[n]
  OBVIOUS
<1>2. solution = Step(solution)
  <2> HIDE DEF solution
  <2>1. solution = [n \in 0..8 |-> solution[n]]
    BY DEF solution
  <2> QED BY <1>1, <2>1
<1>3. \E f : f = Step(f)
  BY <1>2
<1>4. PowersOf(b) = CHOOSE f : f = Step(f)
  BY DEF PowersOf
<1>5. PowersOf(b) = Step(PowersOf(b))
  <2> HIDE DEF Step
  <2> QED BY <1>3, <1>4
<1> QED BY <1>5

Positive == Nat \ {0}

LEMMA ProductIsPositive ==
  ASSUME NEW x \in Positive, NEW y \in Positive
  PROVE  x * y \in Positive /\ x <= x * y
<1>1. x * y >= x * 1
  BY DEF Positive
<1> QED BY <1>1 DEF Positive

LEMMA PowersArePositive ==
  ASSUME NEW b \in Positive
  PROVE  \A n \in 0..8 : PowersOf(b)[n] \in Positive
<1> DEFINE p == PowersOf(b)
<1>1. p[0] = 1 /\ \A n \in 1..8 : p[n] = b * p[n - 1]
  BY PowersAre DEF Positive
<1> HIDE DEF p
<1>2. \A n \in 1..8 : p[n - 1] \in Positive => p[n] \in Positive
  BY <1>1, ProductIsPositive
<1>3. p[0] \in Positive /\ p[1] \in Positive /\ p[2] \in Positive /\ p[3] \in Positive
  BY <1>1, <1>2 DEF Positive
<1>4. p[4] \in Positive /\ p[5] \in Positive /\ p[6] \in Positive
  BY <1>2, <1>3
<1>5. p[7] \in Positive /\ p[8] \in Positive
  BY <1>2, <1>4
<1> QED BY <1>3, <1>4, <1>5 DEF p
---------------------------------------------------------------------------------
(***************************************************************************)
(* Type correctness.                                                       *)
(***************************************************************************)
\* The arguments that -n and -c can have.
Arguments ==
  [opt : {"n", "c"}, minus : BOOLEAN, number : Numbers \cup {NoDigits}, suffix : Suffixes]

ArgumentType == meant = NotGiven \/ meant \in Arguments

LEMMA OptionTypesInit == Init => TypeOK /\ ArgumentType
  BY NumbersAssumption, FactorsAssumption, TextAssumption
  DEF Init, TypeOK, ArgumentType, StdioInit, StdioTypeOK, Streams

\* Most steps leave stdio alone ...
LEMMA StdioTypesStay == ASSUME StdioTypeOK, UNCHANGED stdio PROVE StdioTypeOK'
  BY DEF StdioTypeOK, stdio, streams, exits

\* ... and its own steps leave the rest alone.
LEMMA StdioTypesKept ==
  ASSUME StdioTypeOK, StdioStep
  PROVE  StdioTypeOK'
<1> USE TextAssumption DEF StdioTypeOK, Streams
<1>1. CASE error
  BY <1>1 DEF error, Writes, WriteFails, exit
<1>2. CASE PrintText
  BY <1>2 DEF PrintText, fputs, WriteFails, exit, exits, streams
<1>3. CASE close_stdout
  BY <1>3 DEF close_stdout, close_stream
<1>4. CASE close_stderr
  BY <1>4 DEF close_stderr, close_stream
<1> QED BY <1>1, <1>2, <1>3, <1>4 DEF StdioStep

LEMMA BaseTypes ==
  ASSUME NEW s \in Suffixes
  PROVE  /\ Base(s) \in 1..UINTMAX_MAX
         /\ ValidSuffix(s) /\ s[1] # "b" => s[1] \in DOMAIN Power /\ Power[s[1]] \in 1..8
  BY FactorsAssumption DEF Base, ValidSuffix, Power

\* UINTMAX_MAX is not exceeded.
LEMMA ScaleType ==
  ASSUME bkm_scale, tmp \in 0..UINTMAX_MAX, scale_factor \in 1..UINTMAX_MAX
  PROVE  tmp' \in 0..UINTMAX_MAX /\ err' \in {err, err \cup {OVERFLOW}}
<1> USE FactorsAssumption
<1>1. CASE UINTMAX_MAX \div scale_factor < tmp
  BY <1>1 DEF bkm_scale
<1>2. CASE ~(UINTMAX_MAX \div scale_factor < tmp)
  <2>1. tmp' = tmp * scale_factor /\ err' = err
    BY <1>2 DEF bkm_scale
  <2>2. tmp * scale_factor <= UINTMAX_MAX
    BY <1>2, QuotientTells
  <2>3. tmp * scale_factor \in Nat
    OBVIOUS
  <2> QED BY <2>1, <2>2, <2>3
<1> QED BY <1>1, <1>2

LEMMA OptionTypesStep ==
  ASSUME TypeOK, ArgumentType, [Next]_vars
  PROVE  TypeOK' /\ ArgumentType'
<1> USE FactorsAssumption
<1>1. CASE ReadUnits
  <2>1. PICK o \in {"n", "c"}, minus \in BOOLEAN, n \in Numbers \cup {NoDigits},
             s \in Suffixes :
          LET a == [opt |-> o, minus |-> minus, number |-> n, suffix |-> s] IN
          /\ meant' = a
          /\ count_lines' = (o = "n")
          /\ \/ Invalid(a) /\ pc' = "refused" /\ UNCHANGED scaling
             \/ ~Invalid(a) /\ pc' = "scale" /\ Convert(a)
    BY <1>1 DEF ReadUnits
  <2> DEFINE a == [opt |-> o, minus |-> minus, number |-> n, suffix |-> s]
  <2>2. a \in Arguments /\ a.suffix = s /\ a.number = n
    BY DEF Arguments
  <2>3. CASE Invalid(a) /\ pc' = "refused" /\ UNCHANGED scaling
    BY <1>1, <2>1, <2>2, <2>3, StdioTypesStay
    DEF ReadUnits, Getopt, TypeOK, ArgumentType, scaling
  <2>4. CASE ~Invalid(a) /\ pc' = "scale" /\ Convert(a)
    <3> HIDE DEF a
    <3>1. tmp' \in 0..UINTMAX_MAX /\ err' \subseteq {OVERFLOW, INVALID_SUFFIX_CHAR}
      BY <2>2, <2>4, NumbersAssumption DEF Convert, NoDigits
    <3>2. scale_factor' \in 1..UINTMAX_MAX /\ power' \in 0..8
      BY <2>2, <2>4, BaseTypes DEF Convert
    <3>3. meant' = a /\ count_lines' \in BOOLEAN
      BY <2>1 DEF a
    <3> QED BY <1>1, <2>2, <2>4, <3>1, <3>2, <3>3, StdioTypesStay
        DEF ReadUnits, Getopt, TypeOK, ArgumentType
  <2> QED BY <2>1, <2>3, <2>4
<1>2. CASE bkm_scale_by_power
  <2>1. tmp' \in 0..UINTMAX_MAX /\ err' \in {err, err \cup {OVERFLOW}}
    BY <1>2, ScaleType DEF bkm_scale_by_power, TypeOK
  <2> QED BY <1>2, <2>1, StdioTypesStay DEF bkm_scale_by_power, TypeOK, ArgumentType, config
<1>3. CASE Store
  BY <1>3, StdioTypesStay DEF Store, TypeOK, ArgumentType, scaling
<1>4. CASE ServerFlag \/ ClientFlag \/ ReadSeconds
  BY <1>4, StdioTypesStay
  DEF ServerFlag, ClientFlag, ReadSeconds, xstrtod, Getopt, TypeOK, ArgumentType, scaling
<1>5. CASE usage \/ version_etc
  BY <1>5, TextAssumption
  DEF usage, version_etc, Say, Getopt, TypeOK, ArgumentType, StdioTypeOK, config, scaling,
      streams, exits
<1>6. CASE emit_try_help \/ Launch \/ RunAndEnd
  BY <1>6
  DEF emit_try_help, Launch, RunAndEnd, Writes, WriteFails, exit, Getopt, TypeOK,
      ArgumentType, StdioTypeOK, Streams, config, scaling, parsing, streams, exits
<1>7. CASE StdioStep /\ UNCHANGED parsing
  <2>1. pc' \in {"atexit", "print", "close_stderr", "exited"}
    BY <1>7 DEF StdioStep, error, PrintText, close_stdout, close_stderr, exit
  <2>2. StdioTypeOK'
    BY <1>7, StdioTypesKept DEF TypeOK
  <2> QED BY <1>7, <2>1, <2>2 DEF TypeOK, ArgumentType, parsing, config, scaling
<1>8. CASE UNCHANGED vars
  BY <1>8, StdioTypesStay DEF TypeOK, ArgumentType, vars, parsing, config, scaling
<1> QED BY <1>1, <1>2, <1>3, <1>4, <1>5, <1>6, <1>7, <1>8 DEF Next

LEMMA OptionTypesAlways == Spec => [](TypeOK /\ ArgumentType)
  BY OptionTypesInit, OptionTypesStep, PTL DEF Spec

\* In particular no number leaves uintmax_t, whatever its width and the factors.
THEOREM OptionsAreTyped == Spec => []TypeOK
  BY OptionTypesAlways, PTL
---------------------------------------------------------------------------------
(***************************************************************************)
(* What a number means, and what the program makes of it.                  *)
(***************************************************************************)
\* The suffixes of which nothing is left over.
Accepted(s) == s = <<>> \/ (ValidSuffix(s) /\ Len(s) = SuffixLength(s))

\* The last -n or -c has been obeyed.
Obeyed ==
  IF meant = NotGiven THEN count_lines /\ n_units = DEFAULT_N_LINES
                      ELSE count_lines = (meant.opt = "n") /\ n_units = Meaning(meant)

\* While the number is multiplied, what is left to do makes it its meaning; and once it has
\* saturated its meaning is too large, whatever is left to do.
Scaling ==
  /\ meant # NotGiven /\ ~Invalid(meant)
  /\ count_lines = (meant.opt = "n")
  /\ INVALID_SUFFIX_CHAR \in err <=> ~Accepted(meant.suffix)
  /\ Accepted(meant.suffix) =>
       IF OVERFLOW \in err
       THEN Meaning(meant) > UINTMAX_MAX
       ELSE tmp * PowersOf(scale_factor)[power] = Meaning(meant)

UnitsInv ==
  /\ pc = "scale" => Scaling
  /\ pc \in {"options", "launched"} => Obeyed
  /\ RefusedForAReason

LEMMA DocumentedIsAccepted ==
  ASSUME NEW s, Documented(s)
  PROVE  Accepted(s)
<1>1. CASE s \in {<<>>, <<"b">>, <<"k", "B">>, <<"K">>}
  BY <1>1 DEF Accepted, ValidSuffix, SuffixLength, Power
<1>2. ASSUME NEW l \in {"M", "G", "T", "P", "E", "Z", "Y"}, s \in {<<l>>, <<l, "B">>}
      PROVE  Accepted(s)
  BY <1>2 DEF Accepted, ValidSuffix, SuffixLength, Power
<1> QED BY <1>1, <1>2 DEF Documented

\* The code finds the factor and the power that the suffix means.
LEMMA MultiplierIs ==
  ASSUME NEW s \in Suffixes, Accepted(s), s # <<>>
  PROVE  Multiplier(s) = IF s[1] = "b" THEN Block ELSE PowersOf(Base(s))[Power[s[1]]]
<1>1. s \in Seq(STRING) /\ ValidSuffix(s) /\ Len(s) = SuffixLength(s)
  BY SuffixesAssumption DEF Accepted
<1>2. CASE s[1] = "b"
  BY <1>2 DEF Multiplier
<1>3. CASE s[1] # "b"
  <2>1. s[1] \in DOMAIN Power /\ s[1] \notin {"B", "D", "i"}
    BY <1>1, <1>3 DEF ValidSuffix, Power
  <2>2. Base(s) = IF s[Len(s)] \in {"B", "D"} /\ s[Len(s) - 1] # "i" THEN Kilo ELSE Kibi
    BY <1>1, <2>1 DEF SuffixLength, Base
  <2> QED BY <1>3, <2>2 DEF Multiplier
<1> QED BY <1>2, <1>3

LEMMA MultiplierIsPositive ==
  ASSUME NEW s \in Suffixes, Accepted(s)
  PROVE  Multiplier(s) \in Positive
<1>1. CASE s = <<>>
  BY <1>1 DEF Multiplier, Positive
<1>2. CASE s # <<>> /\ s[1] = "b"
  BY <1>2, FactorsAssumption DEF Multiplier, Positive
<1>3. CASE s # <<>> /\ s[1] # "b"
  <2>1. Base(s) \in Positive /\ Power[s[1]] \in 0..8
    BY <1>3, BaseTypes, FactorsAssumption DEF Accepted, Positive
  <2> QED BY <1>3, <2>1, MultiplierIs, PowersArePositive
<1> QED BY <1>1, <1>2, <1>3

\* strtoumax and the suffix set the multiplications up.
LEMMA ConvertSetsUp ==
  ASSUME NEW a \in Arguments, ~Invalid(a), Convert(a)
  PROVE  /\ INVALID_SUFFIX_CHAR \in err' <=> ~Accepted(a.suffix)
         /\ Accepted(a.suffix) =>
              IF OVERFLOW \in err'
              THEN Meaning(a) > UINTMAX_MAX
              ELSE tmp' * PowersOf(scale_factor')[power'] = Meaning(a)
<1> DEFINE s == a.suffix
           n == IF a.number = NoDigits THEN 1 ELSE a.number
<1>1. s \in Suffixes /\ n \in Nat /\ Meaning(a) = n * Multiplier(s)
  BY NumbersAssumption DEF Arguments, Meaning
<1>2. INVALID_SUFFIX_CHAR \in err' <=> ~Accepted(s)
  BY DEF Convert, Accepted, OVERFLOW, INVALID_SUFFIX_CHAR
<1>3. OVERFLOW \in err' <=> n > UINTMAX_MAX
  BY FactorsAssumption, <1>1 DEF Convert, OVERFLOW, INVALID_SUFFIX_CHAR, NoDigits, Arguments
<1>4. ~(OVERFLOW \in err') => tmp' = n
  BY <1>1, <1>3, NumbersAssumption, FactorsAssumption DEF Convert, Arguments, NoDigits
<1>5. ASSUME Accepted(s)
      PROVE  IF OVERFLOW \in err'
             THEN Meaning(a) > UINTMAX_MAX
             ELSE tmp' * PowersOf(scale_factor')[power'] = Meaning(a)
  <2>1. Multiplier(s) \in Positive
    BY <1>1, <1>5, MultiplierIsPositive
  <2>2. CASE OVERFLOW \in err'
    <3>1. n \in Positive
      BY <1>1, <1>3, <2>2, FactorsAssumption DEF Positive
    <3>2. n <= n * Multiplier(s) /\ n * Multiplier(s) \in Nat
      BY <2>1, <3>1, ProductIsPositive DEF Positive
    <3> HIDE DEF n, s
    <3> QED BY <1>1, <1>3, <2>2, <3>2, FactorsAssumption
  <2>3. PowersOf(scale_factor')[power'] = Multiplier(s)
    <3>1. CASE s = <<>>
      <4>1. scale_factor' = 1 /\ power' = 0
        BY <3>1 DEF Convert, ValidSuffix
      <4> QED BY <3>1, <4>1, PowersAre DEF Multiplier
    <3>2. CASE s # <<>> /\ s[1] = "b"
      <4>1. scale_factor' = Block /\ power' = 1 /\ Block \in Nat
        BY <1>5, <3>2, FactorsAssumption DEF Convert, Accepted
      <4>2. PowersOf(Block)[1] = Block * PowersOf(Block)[1 - 1] /\ PowersOf(Block)[0] = 1
        BY <4>1, PowersAre
      <4> QED BY <1>1, <1>5, <3>2, <4>1, <4>2, MultiplierIs
    <3>3. CASE s # <<>> /\ s[1] # "b"
      <4>1. scale_factor' = Base(s) /\ power' = Power[s[1]]
        BY <1>5, <3>3 DEF Convert, Accepted
      <4> QED BY <1>1, <1>5, <3>3, <4>1, MultiplierIs
    <3> QED BY <3>1, <3>2, <3>3
  <2> QED BY <1>1, <1>4, <2>2, <2>3
<1> QED BY <1>2, <1>5

\* One multiplication keeps the meaning of the number, or finds that it is too large.
LEMMA ScalingGoesOn ==
  ASSUME TypeOK, ArgumentType, Scaling, bkm_scale_by_power
  PROVE  Scaling'
<1> USE FactorsAssumption
<1>1. UNCHANGED <<meant, count_lines, scale_factor>> /\ power > 0 /\ power' = power - 1
  BY DEF bkm_scale_by_power, config
<1>2. err' \in {err, err \cup {OVERFLOW}} /\ INVALID_SUFFIX_CHAR # OVERFLOW
  BY DEF bkm_scale_by_power, bkm_scale, OVERFLOW, INVALID_SUFFIX_CHAR
<1>3. ASSUME Accepted(meant.suffix)
      PROVE  IF OVERFLOW \in err'
             THEN Meaning(meant) > UINTMAX_MAX
             ELSE tmp' * PowersOf(scale_factor)[power - 1] = Meaning(meant)
  <2>1. CASE OVERFLOW \in err
    BY <1>2, <1>3, <2>1 DEF Scaling
  <2>2. CASE OVERFLOW \notin err
    <3> DEFINE b == scale_factor
               rest == PowersOf(b)[power - 1]
    <3>1. b \in Positive /\ tmp \in Nat /\ power - 1 \in 0..8 /\ power \in 1..8
      BY <1>1 DEF TypeOK, Positive
    <3>2. rest \in Positive /\ b \in Nat
      BY <3>1, PowersArePositive DEF Positive
    <3>3. PowersOf(b)[power] = b * rest
      BY <3>1, <3>2, PowersAre
    <3>4. tmp * (b * rest) = Meaning(meant)
      BY <1>3, <2>2, <3>3 DEF Scaling
    <3> HIDE DEF rest
    <3>5. (tmp * b) * rest = Meaning(meant)
      BY <3>1, <3>2, <3>4 DEF Positive
    <3>6. CASE UINTMAX_MAX \div b < tmp
      <4>1. OVERFLOW \in err'
        BY <3>6 DEF bkm_scale_by_power, bkm_scale
      <4>2. tmp * b > UINTMAX_MAX /\ tmp * b \in Nat
        BY <3>1, <3>6, QuotientTells DEF Positive
      <4>3. tmp * b <= (tmp * b) * rest /\ (tmp * b) * rest \in Nat
        <5>1. tmp * b \in Positive
          BY <4>2 DEF Positive
        <5> QED BY <3>2, <5>1, ProductIsPositive DEF Positive
      <4>4. \A x, y \in Nat : x > UINTMAX_MAX /\ x <= y => y > UINTMAX_MAX
        OBVIOUS
      <4> QED BY <3>5, <4>1, <4>2, <4>3, <4>4
    <3>7. CASE ~(UINTMAX_MAX \div b < tmp)
      <4>1. tmp' = tmp * b /\ OVERFLOW \notin err'
        BY <2>2, <3>7 DEF bkm_scale_by_power, bkm_scale
      <4> QED BY <3>5, <4>1 DEF rest
    <3> QED BY <3>6, <3>7
  <2> QED BY <2>1, <2>2
<1>4. INVALID_SUFFIX_CHAR \in err' <=> INVALID_SUFFIX_CHAR \in err
  BY <1>2
<1> QED BY <1>1, <1>3, <1>4 DEF Scaling

LEMMA UnitsInit == Init => UnitsInv
  BY DEF Init, UnitsInv, Obeyed, RefusedForAReason

LEMMA UnitsStep ==
  ASSUME TypeOK, ArgumentType, UnitsInv, [Next]_vars
  PROVE  UnitsInv'
<1>1. CASE ReadUnits
  <2>1. PICK a \in Arguments :
          /\ meant' = a /\ count_lines' = (a.opt = "n")
          /\ \/ Invalid(a) /\ pc' = "refused"
             \/ ~Invalid(a) /\ pc' = "scale" /\ Convert(a)
    <3>1. PICK o \in {"n", "c"}, minus \in BOOLEAN, n \in Numbers \cup {NoDigits},
               s \in Suffixes :
            LET a == [opt |-> o, minus |-> minus, number |-> n, suffix |-> s] IN
            /\ meant' = a
            /\ count_lines' = (o = "n")
            /\ \/ Invalid(a) /\ pc' = "refused"
               \/ ~Invalid(a) /\ pc' = "scale" /\ Convert(a)
      BY <1>1 DEF ReadUnits
    <3>2. [opt |-> o, minus |-> minus, number |-> n, suffix |-> s] \in Arguments
      BY DEF Arguments
    <3> QED BY <3>1, <3>2
  <2>2. CASE Invalid(a) /\ pc' = "refused"
    <3>1. RefusedForAReason'
      <4> SUFFICES ASSUME ~a.minus, Documented(a.suffix)
                   PROVE  a.number = NoDigits /\ a.suffix = <<>>
        BY <2>1 DEF RefusedForAReason
      <4> QED BY <2>2, DocumentedIsAccepted DEF Invalid, Accepted
    <3> QED BY <2>2, <3>1 DEF UnitsInv
  <2>3. CASE ~Invalid(a) /\ pc' = "scale" /\ Convert(a)
    <3>1. a # NotGiven
      <4>1. a.opt \in {"n", "c"} /\ NotGiven.opt = ""
        BY DEF Arguments, NotGiven
      <4> QED BY <4>1
    <3>2. Scaling'
      <4>1. meant' = a /\ count_lines' = (a.opt = "n")
        BY <2>1
      <4>2. /\ INVALID_SUFFIX_CHAR \in err' <=> ~Accepted(a.suffix)
            /\ Accepted(a.suffix) =>
                 IF OVERFLOW \in err'
                 THEN Meaning(a) > UINTMAX_MAX
                 ELSE tmp' * PowersOf(scale_factor')[power'] = Meaning(a)
        BY <2>3, ConvertSetsUp
      <4> QED BY <2>3, <3>1, <4>1, <4>2 DEF Scaling
    <3> QED BY <2>3, <3>2 DEF UnitsInv, RefusedForAReason
  <2> QED BY <2>1, <2>2, <2>3
<1>2. CASE bkm_scale_by_power
  <2>1. pc = "scale" /\ pc' = "scale"
    BY <1>2 DEF bkm_scale_by_power
  <2>2. Scaling'
    BY <1>2, <2>1, ScalingGoesOn DEF UnitsInv
  <2> QED BY <2>1, <2>2 DEF UnitsInv, RefusedForAReason
<1>3. CASE Store
  <2>1. /\ pc = "scale" /\ power = 0 /\ n_units' = tmp
        /\ pc' = (IF err = {} THEN "options" ELSE "refused")
        /\ UNCHANGED <<count_lines, err, meant>> /\ Scaling
    BY <1>3 DEF Store, scaling, UnitsInv
  <2>2. CASE err = {}
    <3>1. tmp * PowersOf(scale_factor)[0] = Meaning(meant)
      BY <2>1, <2>2 DEF Scaling
    <3>2. PowersOf(scale_factor)[0] = 1
      BY PowersAre, FactorsAssumption DEF TypeOK
    <3>3. tmp = Meaning(meant)
      BY <3>1, <3>2, FactorsAssumption DEF TypeOK
    <3>4. Obeyed'
      BY <2>1, <3>3 DEF Scaling, Obeyed
    <3> QED BY <2>1, <2>2, <3>4 DEF UnitsInv, RefusedForAReason
  <2>3. CASE err # {}
    <3>1. RefusedForAReason'
      <4> SUFFICES ASSUME Documented(meant.suffix)
                   PROVE  Meaning(meant) > UINTMAX_MAX
        BY <2>1 DEF RefusedForAReason
      <4>1. OVERFLOW \in err
        BY <2>1, <2>3, DocumentedIsAccepted DEF Scaling, TypeOK
      <4> QED BY <2>1, <4>1, DocumentedIsAccepted DEF Scaling
    <3> QED BY <2>1, <2>3, <3>1 DEF UnitsInv
  <2> QED BY <2>2, <2>3
\* The other steps leave the number alone, and do not refuse one.
<1>4. ASSUME UNCHANGED <<count_lines, n_units, meant>>, pc' # "scale", pc' # "refused",
             pc' \in {"options", "launched"} => pc \in {"options", "launched"}
      PROVE  UnitsInv'
  BY <1>4 DEF UnitsInv, Obeyed, RefusedForAReason
<1>5. CASE ServerFlag \/ ClientFlag \/ ReadSeconds \/ usage \/ version_etc
  BY <1>4, <1>5
  DEF ServerFlag, ClientFlag, ReadSeconds, xstrtod, usage, version_etc, Say, Getopt, config
<1>6. CASE emit_try_help \/ Launch \/ RunAndEnd
  BY <1>4, <1>6 DEF emit_try_help, Launch, RunAndEnd, Getopt, exit, parsing, config
<1>7. CASE StdioStep /\ UNCHANGED parsing
  <2>1. pc' \in {"atexit", "print", "close_stderr", "exited"}
    BY <1>7 DEF StdioStep, error, PrintText, close_stdout, close_stderr, exit
  <2> QED BY <1>4, <1>7, <2>1 DEF parsing, config
<1>8. CASE UNCHANGED vars
  BY <1>8 DEF UnitsInv, Scaling, Obeyed, RefusedForAReason, vars, parsing, config, scaling
<1> QED BY <1>1, <1>2, <1>3, <1>5, <1>6, <1>7, <1>8 DEF Next

LEMMA UnitsInvAlways == Spec => []UnitsInv
  BY OptionTypesAlways, UnitsInit, UnitsStep, PTL DEF Spec

\* A program that is launched shows as many lines or bytes as its last -n or -c means:
\* whatever numbers and suffixes are given, and however wide uintmax_t is.
THEOREM LaunchedWithWhatWasMeant == Spec => []UnitsAreMeant
<1>1. UnitsInv => UnitsAreMeant
  BY DEF UnitsInv, Obeyed, UnitsAreMeant
<1> QED BY <1>1, UnitsInvAlways, PTL

\* And a documented number is refused only if it does not fit uintmax_t.
THEOREM RefusalsHaveAReason == Spec => []RefusedForAReason
<1>1. UnitsInv => RefusedForAReason
  BY DEF UnitsInv
<1> QED BY <1>1, UnitsInvAlways, PTL
=================================================================================
