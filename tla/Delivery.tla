------------------------------ MODULE Delivery ------------------------------
(***************************************************************************)
(* What the forwarder promises about each payload, with its queues,        *)
(* threads and back-offs left out.  Payloads are submitted one after the   *)
(* other, and each then ends once: by an answer, or by a drop that is      *)
(* logged.  Only while a payload is live may the intake receive it, and a  *)
(* second copy can come only from a POST whose answer did not arrive: an   *)
(* accepted payload is never sent again.  Nothing is promised about order. *)
(***************************************************************************)
EXTENDS Naturals

CONSTANTS
    Transactions,  \* the payloads, numbered in the order of submission
    Final,         \* the ways to end
    MaxCopies      \* bound: copies are not counted beyond it

VARIABLES
    fate,   \* "none", "live" or how the payload ended
    copies  \* how many copies the intake took

Taken(n) == IF n + 1 <= MaxCopies THEN n + 1 ELSE MaxCopies

Init ==
    /\ fate = [t \in Transactions |-> "none"]
    /\ copies = [t \in Transactions |-> 0]

Submit(t) ==
    /\ fate[t] = "none"
    /\ \A u \in Transactions : u < t => fate[u] # "none"
    /\ fate' = [fate EXCEPT ![t] = "live"]
    /\ UNCHANGED copies

\* An attempt: the intake takes a copy or does not, and the payload is tried
\* again, or ends by the answer or an error.  Accepted means a copy was taken.
Attempt(t, taken, end) ==
    /\ fate[t] = "live"
    /\ end = "accepted" => taken
    /\ end = "rejected" => ~taken
    /\ fate' = [fate EXCEPT ![t] = end]
    /\ copies' = IF taken THEN [copies EXCEPT ![t] = Taken(@)] ELSE copies

\* Payloads for which there is no room end together.
Drop(S, why) ==
    /\ \A t \in S : fate[t] = "live"
    /\ fate' = [t \in Transactions |-> IF t \in S THEN why ELSE fate[t]]
    /\ UNCHANGED copies

Next ==
    \/ \E t \in Transactions : Submit(t)
    \/ \E t \in Transactions, taken \in BOOLEAN,
          end \in {"live", "accepted", "rejected", "error"} : Attempt(t, taken, end)
    \/ \E S \in SUBSET Transactions, why \in Final \ {"accepted", "rejected"} :
          Drop(S, why)

Spec == Init /\ [][Next]_<<fate, copies>>
=============================================================================
