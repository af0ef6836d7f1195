--------------------------------- MODULE Options ---------------------------------
(***************************************************************************)
(* The command lines of tailserver and tailclient (main in                 *)
(* src/tailserver.c and src/tailclient.c), with the numbers of -n and -c   *)
(* read by xstrtoumax (src/coreutils/xstrtol.c) and the seconds of -s by   *)
(* xstrtod (src/coreutils/xstrtod.c).                                      *)
(*                                                                         *)
(* getopt hands out one option after the other.  A number is digits and    *)
(* then letters; it is converted, multiplied step by step in uintmax_t,    *)
(* and stored in n_units before its errors are looked at.  Stdio.tla says  *)
(* how the programs exit that are not launched.                            *)
(***************************************************************************)
EXTENDS Stdio, Integers, Sequences

CONSTANTS
  Programs,          \* "tailserver", "tailclient"
  Numbers,           \* what digits may say; NoDigits is always considered
  Suffixes,          \* what letters may follow
  UINTMAX_MAX,
  Kibi, Kilo, Block, \* 1024, 1000, 512
  DEFAULT_N_LINES,
  MaxOptions         \* bound: options of a command line

ASSUME ProgramsAssumption == Programs \subseteq {"tailserver", "tailclient"}
ASSUME SuffixesAssumption == Suffixes \subseteq Seq(STRING)
ASSUME NumbersAssumption == Numbers \subseteq Nat /\ DEFAULT_N_LINES \in 0..UINTMAX_MAX
ASSUME FactorsAssumption ==
  UINTMAX_MAX \in Nat /\ {Kibi, Kilo, Block} \subseteq 1..UINTMAX_MAX /\ MaxOptions \in Nat

VARIABLES
  program,
  count_lines, n_units, flags, sleep_seconds,  \* the configuration
  tmp, err, scale_factor, power,               \* of xstrtol
  given,   \* options so far
  meant    \* history: the last of -n and -c, and its argument

config  == <<count_lines, n_units, flags, sleep_seconds>>
scaling == <<tmp, err, scale_factor, power>>
parsing == <<program, config, scaling, given, meant>>
stdio   == <<opened, to_print, streams, exits>>
vars    == <<pc, parsing, stdio>>

NoDigits == -1
NotGiven == [opt |-> "", minus |-> FALSE, number |-> 0, suffix |-> <<>>]

OVERFLOW == "LONGINT_OVERFLOW"
INVALID_SUFFIX_CHAR == "LONGINT_INVALID_SUFFIX_CHAR"

Init ==
  /\ program \in Programs /\ pc = "options"
  /\ count_lines = TRUE /\ n_units = DEFAULT_N_LINES
  /\ flags = {} /\ sleep_seconds = "default"
  /\ tmp = 0 /\ err = {} /\ scale_factor = 1 /\ power = 0
  /\ given = 0 /\ meant = NotGiven
  /\ StdioInit

Getopt == pc = "options" /\ given < MaxOptions /\ given' = given + 1
---------------------------------------------------------------------------------
(***************************************************************************)
(* xstrtoumax(optarg, NULL, 10, &n_units, "bkKmMGTPEZY0")                  *)
(***************************************************************************)
\* How often the letter multiplies by the base.
Power == [k |-> 1, K |-> 1, m |-> 2, M |-> 2, G |-> 3, T |-> 4, P |-> 5, E |-> 6,
          Z |-> 7, Y |-> 8]

ValidSuffix(s) == s # <<>> /\ s[1] \in DOMAIN Power \cup {"b"}

\* A second suffix may change the base.
SuffixLength(s) ==
  IF Len(s) > 1 /\ s[2] \in {"B", "D"} THEN 2
  ELSE IF Len(s) > 2 /\ s[2] = "i" /\ s[3] = "B" THEN 3 ELSE 1

Base(s) == IF Len(s) > 1 /\ s[2] \in {"B", "D"} THEN Kilo ELSE Kibi

\* LONGINT_INVALID: a sign, or neither digits nor a letter that stands for 1 of them.
Invalid(a) == a.minus \/ (a.number = NoDigits /\ ~ValidSuffix(a.suffix))

\* strtoumax, and what the suffix asks for.
Convert(a) ==
  /\ tmp' = IF a.number = NoDigits THEN 1
            ELSE IF a.number > UINTMAX_MAX THEN UINTMAX_MAX ELSE a.number
  /\ err' = (IF a.number > UINTMAX_MAX THEN {OVERFLOW} ELSE {}) \cup
            (IF a.suffix = <<>> THEN {}
             ELSE IF ValidSuffix(a.suffix) /\ Len(a.suffix) = SuffixLength(a.suffix)
                  THEN {} ELSE {INVALID_SUFFIX_CHAR})
  /\ \/ /\ ~ValidSuffix(a.suffix)
        /\ scale_factor' = 1 /\ power' = 0
     \/ /\ ValidSuffix(a.suffix) /\ a.suffix[1] = "b"
        /\ scale_factor' = Block /\ power' = 1
     \/ /\ ValidSuffix(a.suffix) /\ a.suffix[1] # "b"
        /\ scale_factor' = Base(a.suffix) /\ power' = Power[a.suffix[1]]

\* -n or -c
ReadUnits ==
  /\ Getopt
  /\ \E o \in {"n", "c"}, minus \in BOOLEAN, n \in Numbers \cup {NoDigits}, s \in Suffixes :
       LET a == [opt |-> o, minus |-> minus, number |-> n, suffix |-> s] IN
       /\ meant' = a
       /\ count_lines' = (o = "n")
       /\ \/ Invalid(a) /\ pc' = "refused" /\ UNCHANGED scaling
          \/ ~Invalid(a) /\ pc' = "scale" /\ Convert(a)
  /\ UNCHANGED <<program, n_units, flags, sleep_seconds, stdio>>

\* Mutants: no check, a product modulo the width, and a check that is off by one.
bkm_scale_Unchecked == tmp' = tmp * scale_factor /\ UNCHANGED err
bkm_scale_Wraps ==
  tmp' = (tmp * scale_factor) % (UINTMAX_MAX + 1) /\ UNCHANGED err
bkm_scale_RefusesMax ==
  IF UINTMAX_MAX \div scale_factor <= tmp
  THEN tmp' = UINTMAX_MAX /\ err' = err \cup {OVERFLOW}
  ELSE tmp' = tmp * scale_factor /\ UNCHANGED err

\* One multiplication, which stays at the maximum once that is exceeded.
bkm_scale ==
  IF UINTMAX_MAX \div scale_factor < tmp
  THEN tmp' = UINTMAX_MAX /\ err' = err \cup {OVERFLOW}
  ELSE tmp' = tmp * scale_factor /\ UNCHANGED err

bkm_scale_by_power ==
  /\ pc = "scale" /\ power > 0
  /\ bkm_scale
  /\ power' = power - 1
  /\ UNCHANGED <<program, pc, config, scale_factor, given, meant, stdio>>

\* n_units is set, right or wrong; main exits if it is wrong.
Store ==
  /\ pc = "scale" /\ power = 0
  /\ n_units' = tmp
  /\ pc' = IF err = {} THEN "options" ELSE "refused"
  /\ UNCHANGED <<program, count_lines, flags, sleep_seconds, scaling, given, meant, stdio>>
---------------------------------------------------------------------------------
(***************************************************************************)
(* The other options.                                                      *)
(***************************************************************************)
ServerFlag ==
  /\ program = "tailserver" /\ Getopt
  /\ \E f \in {"wait_for_client", "ditch", "ignore_interrupts"} : flags' = flags \cup {f}
  /\ UNCHANGED <<program, pc, count_lines, n_units, sleep_seconds, scaling, meant, stdio>>

ClientFlag ==
  /\ program = "tailclient" /\ Getopt
  /\ \E f \in {{"follow"}, {"follow", "reopen_file"}, {"wait_file_at_startup"}} :
       flags' = flags \cup f
  /\ UNCHANGED <<program, pc, count_lines, n_units, sleep_seconds, scaling, meant, stdio>>

\* xstrtod accepts a value that is too large and refuses one that is too small, in spite
\* of the comment before the test; main refuses what is negative or not a number.
xstrtod ==
  \/ \E s \in {"finite", "infinite"} : sleep_seconds' = s /\ UNCHANGED pc
  \/ pc' = "refused_seconds" /\ UNCHANGED sleep_seconds

ReadSeconds ==
  /\ program = "tailclient" /\ Getopt
  /\ xstrtod
  /\ UNCHANGED <<program, count_lines, n_units, flags, scaling, meant, stdio>>

\* --help and --version: a text to be printed.
Say(length) ==
  /\ Getopt
  /\ pc' = "print" /\ to_print' = length
  /\ UNCHANGED <<program, config, scaling, meant, opened, streams, exits>>

usage       == Say(HelpLength)
version_etc == Say(VersionLength)

\* An option that there is not: usage(EXIT_FAILURE).
emit_try_help ==
  /\ Getopt
  /\ Writes(stderr) /\ exit(1)
  /\ UNCHANGED <<program, config, scaling, meant, opened, to_print, pending>>

\* The options are read, and some file paths are left. Without one tailserver says that it
\* will act like cat.
Launch ==
  /\ pc = "options"
  /\ \/ pc' = "launched" /\ UNCHANGED streams
     \/ pc' = "launched" /\ program = "tailserver" /\ Writes(stderr) /\ UNCHANGED pending
     \/ pc' = "refused_path" /\ UNCHANGED streams
  /\ UNCHANGED <<parsing, opened, to_print, exits>>

\* The program runs (see Server.tla and Client.tla): it writes to stdout with write(), and
\* its messages to stderr.
RunAndEnd ==
  /\ pc = "launched"
  /\ \E s \in {0, 1} : exit(s)
  /\ UNCHANGED <<failed, trouble>> \/ Writes(stderr)
  /\ UNCHANGED <<parsing, opened, to_print, pending>>

Next ==
  \/ ReadUnits \/ bkm_scale_by_power \/ Store
  \/ ServerFlag \/ ClientFlag \/ ReadSeconds \/ usage \/ version_etc
  \/ emit_try_help \/ Launch \/ RunAndEnd
  \/ StdioStep /\ UNCHANGED parsing

Spec == Init /\ [][Next]_vars
---------------------------------------------------------------------------------
\* Type invariant.
TypeOK ==
  /\ program \in Programs
  /\ pc \in {"options", "scale", "refused", "refused_seconds", "refused_path", "print",
             "launched", "atexit", "close_stderr", "exited"}
  /\ count_lines \in BOOLEAN
  /\ n_units \in 0..UINTMAX_MAX /\ tmp \in 0..UINTMAX_MAX
  /\ err \subseteq {OVERFLOW, INVALID_SUFFIX_CHAR}
  /\ scale_factor \in 1..UINTMAX_MAX /\ power \in 0..8
  /\ given \in 0..MaxOptions
  /\ StdioTypeOK

(***************************************************************************)
(* What a number means, in unbounded integers: "b 512, kB 1000, K 1024, MB *)
(* 1000*1000, M 1024*1024, GB 1000*1000*1000, G 1024*1024*1024, and so on  *)
(* for T, P, E, Z, Y" (usage in tailserver.c and tailclient.c).            *)
(***************************************************************************)
Documented(s) ==
  \/ s \in {<<>>, <<"b">>, <<"k", "B">>, <<"K">>}
  \/ \E l \in {"M", "G", "T", "P", "E", "Z", "Y"} : s \in {<<l>>, <<l, "B">>}

\* The powers of a base that the letters ask for.
PowersOf(base) ==
  LET p[n \in 0..8] == IF n = 0 THEN 1 ELSE base * p[n - 1] IN p

Multiplier(s) ==
  IF s = <<>> THEN 1
  ELSE IF s[1] = "b" THEN Block
  ELSE IF s[Len(s)] \in {"B", "D"} /\ s[Len(s) - 1] # "i" THEN PowersOf(Kilo)[Power[s[1]]]
  ELSE PowersOf(Kibi)[Power[s[1]]]

Meaning(a) == (IF a.number = NoDigits THEN 1 ELSE a.number) * Multiplier(a.suffix)

\* A program that is launched has exactly the number that its last -n or -c means, and
\* counts the unit that goes with it: no product that has overflowed on the way, and
\* nothing of an earlier option.
UnitsAreMeant ==
  pc = "launched" =>
    IF meant = NotGiven THEN count_lines /\ n_units = DEFAULT_N_LINES
                        ELSE count_lines = (meant.opt = "n") /\ n_units = Meaning(meant)

\* And a number with a documented suffix is refused only if it does not fit, however
\* often it saturates on the way and whichever number preceded it.
RefusedForAReason ==
  pc = "refused" /\ ~meant.minus /\ Documented(meant.suffix) =>
    \/ meant.number = NoDigits /\ meant.suffix = <<>>
    \/ Meaning(meant) > UINTMAX_MAX
=================================================================================
