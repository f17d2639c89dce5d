--------------------------- MODULE MCProcessCheck ---------------------------
(***************************************************************************)
(* Three processes on two pids, and five instances.  Two search by name    *)
(* for processes one of which may deny access, which an instance ignores   *)
(* or not.  One counts children too, with thresholds.  One has a pid file  *)
(* and a user, and one a pid beside the name.                              *)
(*                                                                         *)
(* Beside them two checks which share nothing with it.  The hmc check: a   *)
(* console that lists up to two servers, with a partition, and three runs, *)
(* so that one can fail after each of its commands and the next finds what *)
(* it left.  The ibm_was check: documents with statistics at every depth   *)
(* down to three, a category inside another, values that are no numbers    *)
(* and two servers, under queries that add to the categories or replace    *)
(* them.  A behaviour is of one of the three, chosen by part.              *)
(***************************************************************************)
EXTENDS ProcessCheck, Hmc, IbmWas

TwoPids == {1, 2}

Kind(m, d, u) == [match |-> m, denied |-> d, mine |-> u]
MatchOrDeny == {Kind(TRUE, FALSE, TRUE), Kind(TRUE, TRUE, TRUE)}
WithOthers == {Kind(TRUE, FALSE, TRUE), Kind(FALSE, FALSE, TRUE), Kind(FALSE, FALSE, FALSE)}
Everyone == {Kind(TRUE, FALSE, TRUE), Kind(TRUE, TRUE, TRUE), Kind(TRUE, FALSE, FALSE)}

BySearch ==
    [given |-> {"search_string"}, kinds |-> MatchOrDeny, bounds |-> None, children |-> FALSE,
     user |-> FALSE, ignore_denied |-> TRUE, pid_cache_duration |-> 2,
     access_denied_cache_duration |-> 2, max_time |-> 5]
Short == [BySearch EXCEPT !.pid_cache_duration = 1, !.access_denied_cache_duration = 1, !.max_time = 3]
Strict == [Short EXCEPT !.ignore_denied = FALSE]
WithChildren ==
    [Short EXCEPT !.kinds = WithOthers, !.children = TRUE,
                  !.bounds = [warning |-> <<2, 3>>, critical |-> <<1, 4>>]]
ByFile ==
    [Short EXCEPT !.given = {"pid_file"}, !.kinds = Everyone, !.children = TRUE, !.user = TRUE]
ByPid ==
    [Short EXCEPT !.given = {"search_string", "pid"}]

TheSetups == {BySearch, Strict, WithChildren, ByFile, ByPid}

Leaf(tag, n, v) == [tag |-> tag, name |-> n, unit |-> "kb", value |-> v, children |-> <<>>]
Tree(tag, n, cs) == [tag |-> tag, name |-> n, unit |-> "none", value |-> "none", children |-> cs]

Number == Leaf("CountStatistic", "n", "number")
Leaves == {Number, Leaf("TimeStatistic", "t", "none"), Leaf("DoubleStatistic", "d", "text"),
           Leaf("other", "o", "number")}
Pool(l) == Tree("Stat", "JDBC Connection Pools",
                <<Tree("Stat", "p1", <<Tree("Stat", "ds", <<Number, l>>), l>>), Tree("other", "x", <<Number>>),
                  Tree("Stat", "p2", <<Tree("Stat", "ds", <<Tree("Stat", "more", <<Number>>)>>)>>)>>)
Jvm(l) == Tree("Stat", "JVM Runtime", <<l, Number>>)
Own == Tree("Stat", "Own", <<Tree("Stat", "o1", <<Number>>), Jvm(Number)>>)

Servers(l) ==
    {<<Tree("Server", "s1", <<Pool(l), Jvm(l)>>), Tree("Server", "s2", <<Own>>)>>, <<Tree("Server", "s1", <<Own, Jvm(l)>>)>>}
TheDocuments == {<<[name |-> "n1", servers |-> s]>> : s \in UNION {Servers(l) : l \in Leaves}} \cup {<<>>}

Query(s, p, k) == [stat |-> s, prefix |-> p, tag_keys |-> k]
Was(o, q, g) == [url |-> TRUE, off |-> o, custom_queries |-> q, units_gauge |-> g]
NoUrl == [Was({}, <<>>, {}) EXCEPT !.url = FALSE]
TheConfigs ==
    {NoUrl, Was({}, <<>>, {}), Was({"jdbc"}, <<Query("Own", "own", <<"k">>)>>, {"kb"}),
     Was({"jvm"}, <<Query("Own", "jdbc", <<"k">>), Query("Own", "own", <<>>)>>, {"kb"}),
     Was({"jvm", "jdbc"}, <<Query("JDBC Connection Pools", "own", <<"k", "l", "m">>)>>, {})}

VARIABLE part

checksVars == <<part, vars, hmcVars, wasVars>>

ProcessRests == setup = BySearch /\ Init
HmcRests == custom = FALSE /\ HmcInit

WasRests == conf = NoUrl /\ WasInit

ChecksInit ==
    \/ part = "process" /\ Init /\ HmcRests /\ WasRests
    \/ part = "hmc" /\ HmcInit /\ ProcessRests /\ WasRests
    \/ part = "was" /\ WasInit /\ ProcessRests /\ HmcRests

ProcessProceeds == part = "process" /\ Next /\ UNCHANGED <<part, hmcVars, wasVars>>
HmcProceeds == part = "hmc" /\ HmcNext /\ UNCHANGED <<part, vars, wasVars>>
WasProceeds == part = "was" /\ WasNext /\ UNCHANGED <<part, vars, hmcVars>>

ChecksSpec == ChecksInit /\ [][ProcessProceeds \/ HmcProceeds \/ WasProceeds]_checksVars
===============================================================================
