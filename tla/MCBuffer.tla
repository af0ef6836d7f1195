-------------------------------- MODULE MCBuffer --------------------------------
(***************************************************************************)
(* Instances of Buffer.tla for TLC: small chunks, so that a few bytes      *)
(* fill, link and recycle them.                                            *)
(***************************************************************************)
EXTENDS Buffer

\* Tails from nothing to three full chunks.
BytesUnits == 0..9
=================================================================================
