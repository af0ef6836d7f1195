-------------------------------- MODULE MCSystem --------------------------------
(***************************************************************************)
(* Instances of System.tla for TLC.                                        *)
(***************************************************************************)
EXTENDS System
=================================================================================
