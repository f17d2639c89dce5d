------------------------ MODULE MCMetricsAggregator -------------------------
(***************************************************************************)
(* One context that is given samples of any type, or two contexts, with    *)
(* points that are too old, of two check instances.                        *)
(***************************************************************************)
EXTENDS MetricsAggregator

CONSTANTS c1, c2, s1, s2

AnyType ==
    [sources |-> {s1}, contexts |-> {c1}, mtypes |-> DOMAIN MetricResolver, values |-> {0, 2},
     weights |-> {1, 2}, ages |-> {None}, max_time |-> 3, max_submits |-> 4]
OldPoints ==
    [sources |-> {s1, s2}, contexts |-> {c1, c2}, mtypes |-> {"g", "ct"}, values |-> {-1},
     weights |-> {1}, ages |-> {None, 2}, max_time |-> 4, max_submits |-> 3]

TheWorkloads == {AnyType, OldPoints}
==============================================================================
