------------------------------ MODULE MCStartup ------------------------------
(***************************************************************************)
(* Three processes that start and stop as often as they like.              *)
(***************************************************************************)
EXTENDS Startup, TLC

Symmetric == Permutations(Processes)
=============================================================================
