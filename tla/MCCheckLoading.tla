--------------------------- MODULE MCCheckLoading ---------------------------
(***************************************************************************)
(* For the loaders: two checks with every content of the disk, and two     *)
(* instances with equal, and two with different configurations of one      *)
(* hash (Python hashes -1 and -2 alike).  For the intervals: one instance  *)
(* with every setting below, at, above and between the limits.             *)
(***************************************************************************)
EXTENDS CheckLoading, TLC

CONSTANTS cpu, disk1, disk2, disk3, disk4

DiskCheck == "disk"
TwoChecks == {"cpu", DiskCheck}
TheirInstances == <<cpu, disk1, disk2, disk3, disk4>>
TheirChecks == [i \in {cpu, disk1, disk2, disk3, disk4} |-> IF i = cpu THEN "cpu" ELSE DiskCheck]
\* disk2 is disk1 again, disk3 and disk4 differ in a -1 and a -2.
TheirConfigs == cpu :> 0 @@ disk1 :> 1 @@ disk2 :> 1 @@ disk3 :> 2 @@ disk4 :> 3
TheirHashes == cpu :> 10 @@ disk1 :> 11 @@ disk2 :> 11 @@ disk3 :> 12 @@ disk4 :> 12

Silent == [p \in Places |-> Absent]
OnlyCore == [l \in {"core", "checks.d", "wheel"} |-> IF l = "core" THEN "class" ELSE "absent"]
Nowhere == [l \in {"core", "checks.d", "wheel"} |-> "absent"]

\* Whatever the loaders find, and no interval is set.
AnyOutcome ==
    [available : [TwoChecks -> [{"core", "checks.d", "wheel"} -> Outcomes]],
     setting : {[i \in {cpu, disk1, disk2, disk3, disk4} |-> Silent]}]

\* Whatever is set, an infinite interval too, for the one check that is found.
SomeSettings == [Places -> {Absent, Bad, 0, 1, 10, 11, 12, 30}] \cup [Places -> {Absent, Infinite, 20}]

AnySetting ==
    [available : {"cpu" :> OnlyCore @@ "disk" :> Nowhere},
     setting : {cpu :> s @@ disk1 :> Silent @@ disk2 :> Silent @@ disk3 :> Silent @@ disk4 :> Silent :
                    s \in SomeSettings}]

OutcomesAndSettings == AnyOutcome \cup AnySetting
=============================================================================
