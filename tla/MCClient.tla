-------------------------------- MODULE MCClient --------------------------------
(***************************************************************************)
(* Instances of Client.tla for TLC.  With Base = 2 the tails of 2 and more *)
(* bytes have sizes of several digits.                                     *)
(***************************************************************************)
EXTENDS Client
=================================================================================
