-------------------------------- MODULE MCServer --------------------------------
(***************************************************************************)
(* Instances of Server.tla for TLC.                                        *)
(***************************************************************************)
EXTENDS Server

\* Two ways to start it stand for the four that -w and -d make: with -d and no -w, and
\* with -w and no -d.
LaunchInit == Init /\ wait_for_client = tailer_block_forever
LaunchSpec == LaunchInit /\ [][Next]_vars
LiveSpec == LaunchSpec /\ Fairness

\* Clients are interchangeable in the runs that check safety only.
ClientSymmetry == Permutations(Clients)
=================================================================================
