-------------------------------- MODULE MCOptions --------------------------------
(***************************************************************************)
(* Instances of Options.tla for TLC, scaled down: an uintmax_t of 8 bits,  *)
(* and factors 4, 3 and 2, so that products of every power up to 8 are     *)
(* within TLC's integers.                                                  *)
(***************************************************************************)
EXTENDS Options

\* Around the largest numbers that each multiplier admits: 255 = 63*4+3 = 85*3 = 127*2+1.
SomeNumbers == {0, 1, 3, 15, 16, 28, 29, 63, 64, 85, 86, 127, 128, 255, 256}

\* Documented ones, others that the code accepts, and some that it refuses.
SomeSuffixes ==
  {<<>>, <<"b">>, <<"K">>, <<"k", "B">>, <<"M">>, <<"M", "B">>, <<"T">>, <<"E", "B">>,
   <<"Y">>, <<"k", "i", "B">>, <<"m", "D">>, <<"b", "B">>, <<"K", "i">>,
   <<"k", "B", "x">>, <<"k", "i", "B", "x">>, <<"B">>, <<"x">>}
=================================================================================
