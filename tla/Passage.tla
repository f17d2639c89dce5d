------------------------------ MODULE Passage ------------------------------
(***************************************************************************)
(* What becomes of a metric, a service check or an event that a check      *)
(* submits, seen from outside the agent.  It waits until a turn of the     *)
(* collection sends it, together with all that waits of its kind, in one   *)
(* payload, which ends once.  A turn sends all kinds, one after the other, *)
(* or none; one that sends none may lose what it took, but only when a     *)
(* value among it has no encoding.                                         *)
(***************************************************************************)
EXTENDS Naturals

CONSTANTS
    Items,
    KindOf,  \* item -> its kind
    Order    \* the kinds, in the order in which they are sent

VARIABLES
    place,   \* where each item is
    spoiled, \* the waiting items that may have no encoding
    left     \* how many kinds this turn has sent

Waiting == {i \in Items : place[i] = "waiting"}
Moved(S, where) == [i \in Items |-> IF i \in S THEN where ELSE place[i]]

Init ==
    /\ place = [i \in Items |-> "outside"]
    /\ spoiled = {}
    /\ left = 0

Submit(i) ==
    /\ left = 0
    /\ place[i] = "outside"
    /\ place' = Moved({i}, "waiting")
    /\ spoiled' \in {spoiled, spoiled \cup {i}}
    /\ UNCHANGED left

Send ==
    /\ left < 3
    /\ left' = left + 1
    /\ LET S == {i \in Waiting : KindOf[i] = Order[left']}
       IN  place' = Moved(S, "travelling") /\ spoiled' = spoiled \ S

Lose(S) ==
    /\ left = 0
    /\ S \cap spoiled # {}
    /\ place' = Moved(S, "lost")
    /\ spoiled' = spoiled \ S
    /\ UNCHANGED left

EndTurn == left = 3 /\ left' = 0 /\ UNCHANGED <<place, spoiled>>

End(S) ==
    /\ \A i \in S : place[i] = "travelling"
    /\ place' = Moved(S, "ended")
    /\ UNCHANGED <<spoiled, left>>

Next ==
    \/ \E i \in Items : Submit(i)
    \/ Send \/ EndTurn
    \/ \E S \in SUBSET Items : End(S) \/ (S \subseteq Waiting /\ Lose(S))

Spec == Init /\ [][Next]_<<place, spoiled, left>>
=============================================================================
