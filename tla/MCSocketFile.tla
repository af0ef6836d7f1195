------------------------------ MODULE MCSocketFile ------------------------------
(***************************************************************************)
(* Instances of SocketFile.tla for TLC: three servers, so that one ends,   *)
(* one serves and one starts at the same time.                             *)
(***************************************************************************)
EXTENDS SocketFile
=================================================================================
