------------------------------- MODULE Common -------------------------------
(***************************************************************************)
(* Python's None, and sum, for the modules that EXTEND this one.           *)
(***************************************************************************)
EXTENDS Integers, Sequences

CONSTANT None

\* The sum of a sequence of numbers.
Total(ns) ==
    LET total[i \in 0 .. Len(ns)] == IF i = 0 THEN 0 ELSE total[i - 1] + ns[i]
    IN  total[Len(ns)]
=============================================================================
