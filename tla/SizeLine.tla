-------------------------------- MODULE SizeLine --------------------------------
(***************************************************************************)
(* The first line of a connection: the size of the tail, which             *)
(* tailer_send_buffered_tail prints and parse_server_buffer_size reads,    *)
(* digit by digit.  Both use base 10; here it is a parameter, so that      *)
(* small sizes have several digits.                                        *)
(***************************************************************************)
EXTENDS Integers, Sequences

\* sprintf("%llu"), the most significant digit first.
DigitsOf(base, size) ==
  LET Digits[n \in 0..size] ==
        IF n < base THEN <<n>> ELSE Append(Digits[n \div base], n % base)
  IN Digits[size]

\* What the size is taken for after each of some digits, and value before them.
ValuesRead(base, value, digits) ==
  LET v[k \in 0..Len(digits)] == IF k = 0 THEN value ELSE v[k - 1] * base + digits[k]
  IN v

\* Reading some more digits after those that make up value.
ReadDigits(base, value, digits) == ValuesRead(base, value, digits)[Len(digits)]
=================================================================================
