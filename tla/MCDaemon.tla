------------------------------ MODULE MCDaemon ------------------------------
(***************************************************************************)
(* Two processes, each of which was given any command.                     *)
(***************************************************************************)
EXTENDS Daemon, TLC

Interchangeable == Permutations(Processes)
==============================================================================
