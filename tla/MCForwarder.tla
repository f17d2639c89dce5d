---------------------------- MODULE MCForwarder ----------------------------
(***************************************************************************)
(* Small instances of Forwarder.  The intervals keep the code's shape: the *)
(* back-off grows once and then stays at its maximum.                      *)
(***************************************************************************)
EXTENDS Forwarder, TLC

\* The Workers, and the submitters, differ in nothing but their names.
Interchangeable == Permutations(Workers) \cup Permutations(Submitters)
============================================================================
