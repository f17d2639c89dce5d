------------------------------- MODULE IbmWas -------------------------------
(***************************************************************************)
(* The ibm_was check (checks/bundled/ibm_was): a run asks the PerfServlet  *)
(* for a document of nodes, their servers and a tree of statistics for     *)
(* each, and submits those of the configured categories, tagged with the   *)
(* names of the Stat elements on the way to them.                          *)
(*                                                                         *)
(* An element is a record with its tag, name, unit, children and value:    *)
(* a "number", a "text" that float() does not take, or "none".  Names are  *)
(* those that normalize leaves as they are.  Of can_connect the gauge goes *)
(* with the service check.  The request has no timeout, so Answer may      *)
(* never come, and the collector's thread then stays here.                 *)
(***************************************************************************)
EXTENDS Naturals, Sequences, FiniteSets, SequencesExt, TLC

CONSTANTS
    Documents,   \* bound: what the servlet may send, sequences of nodes
    Configs,     \* bound: the instances, with url, off (the prefixes that are not to be
                 \* collected), custom_queries and units_gauge
    Depth, Width,\* bound: Documents have no element deeper, and none with more children
    MaxWasRuns   \* bound: runs of the check

VARIABLES
    was_pc,     \* "idle", "request" or "servers"
    conf,       \* the instance
    document,   \* of this run, <<>> before it has come
    todo,       \* the servers and categories that are left
    submitted,  \* history: what this run has submitted
    can_connect,\* the service check that this run has sent last, or "none"
    result,     \* "none", or what AgentCheck.run returned: "ok" or "raised"
    was_runs    \* history

wasVars == <<was_pc, conf, document, todo, submitted, can_connect, result, was_runs>>

(***************************************************************************)
(* metrics.py: two of its four categories.                                 *)
(***************************************************************************)
METRIC_CATEGORIES == <<[stat |-> "JVM Runtime", prefix |-> "jvm"],
                       [stat |-> "JDBC Connection Pools", prefix |-> "jdbc"]>>
NESTED_TAGS == "jdbc" :> <<"provider", "dataSource">>

\* metric_type_mapping
TypeOf(tag) ==
    CASE tag \in {"AverageStatistic", "BoundedRangeStatistic", "RangeStatistic", "TimeStatistic"} -> "gauge"
      [] tag = "CountStatistic" -> "monotonic_count"
      [] tag = "DoubleStatistic" -> "rate"

IsMetricTag(tag) == tag \notin {"Stat", "other"}

(***************************************************************************)
(* append_custom_queries, setup_configured_stats: a stat has the prefix of *)
(* its last query, a prefix the tags of its last query.                    *)
(***************************************************************************)
Queries == conf.custom_queries

LastQuery(field, value) == SelectLastInSeq(Queries, LAMBDA q : q[field] = value)

Prefix(stat) ==
    LET k == LastQuery("stat", stat) IN
    IF k > 0 THEN Queries[k].prefix
    ELSE METRIC_CATEGORIES[SelectInSeq(METRIC_CATEGORIES, LAMBDA c : c.stat = stat)].prefix

NestedTags(prefix) ==
    LET k == LastQuery("prefix", prefix) IN
    IF k > 0 THEN Queries[k].tag_keys
    ELSE IF prefix \in DOMAIN NESTED_TAGS THEN NESTED_TAGS[prefix] ELSE <<>>

custom_stats == DOMAIN NESTED_TAGS \cup {q.prefix : q \in ToSet(Queries)}

\* The keys of metric_categories that are collected, in the order of the dictionary.
Collected ==
    LET asked == {q.stat : q \in ToSet(Queries)}
        off == {c.stat : c \in {d \in ToSet(METRIC_CATEGORIES) : d.prefix \in conf.off}}
        keys == FoldLeft(LAMBDA ks, c : IF c.stat \in ToSet(ks) THEN ks ELSE Append(ks, c.stat),
                         <<>>, METRIC_CATEGORIES \o Queries)
    IN SelectSeq(keys, LAMBDA s : s \notin off \ asked)

(***************************************************************************)
(* process_stats and submit_metrics                                        *)
(***************************************************************************)
RECURSIVE Descendants(_)
Descendants(e) ==
    FlattenSeq([i \in DOMAIN e.children |-> <<e.children[i]>> \o Descendants(e.children[i])])

\* get_node_from_name: the first Stat of that name, however deep; or none, and a warning.
Named(server, stat) ==
    SelectSeq(Descendants(server), LAMBDA e : e.tag = "Stat" /\ e.name = stat)

AsGauge(e, prefix) ==
    e.tag = "CountStatistic" /\ e.unit \in conf.units_gauge /\ prefix \in custom_stats

Metric(type, name, tags, value) == [type |-> type, name |-> name, tags |-> tags, value |-> value]

Submissions(e, prefix, tags) ==
    <<Metric(IF AsGauge(e, prefix) THEN "gauge" ELSE TypeOf(e.tag), <<prefix, e.name>>, tags, e.value)>>
    \o IF prefix = "jvm" THEN <<Metric("gauge", <<prefix, e.name, "gauge">>, tags, e.value)>> ELSE <<>>

\* Mutant: the recursion is called with its own level.
SameLevel(level) == level

\* recursion_level counts every Stat.
Deeper(level) == level + 1

RECURSIVE Process(_, _, _, _)
Process(e, prefix, tags, level) ==
    LET keys == NestedTags(prefix)
        below(child) == IF Len(keys) > level THEN tags \cup {<<keys[level + 1], child.name>>} ELSE tags
        part(child) ==
            CASE IsMetricTag(child.tag) -> Submissions(child, prefix, tags)
              [] child.tag = "Stat" -> Process(child, prefix, below(child), Deeper(level))
              [] OTHER -> <<>>
    IN FlattenSeq([i \in DOMAIN e.children |-> part(e.children[i])])

-----------------------------------------------------------------------------
WasInit ==
    /\ was_pc = "idle" /\ conf \in Configs
    /\ document = <<>> /\ todo = <<>> /\ submitted = <<>>
    /\ can_connect = "none" /\ result = "none" /\ was_runs = 0

Request ==
    /\ was_pc = "idle" /\ was_runs < MaxWasRuns
    /\ was_runs' = was_runs + 1
    /\ document' = <<>> /\ submitted' = <<>> /\ can_connect' = "none"
    /\ IF conf.url THEN was_pc' = "request" /\ result' = "none"
                   ELSE was_pc' = "idle" /\ result' = "raised"
    /\ UNCHANGED <<conf, todo>>

RunRaises ==
    /\ was_pc' = "idle" /\ result' = "raised"
    /\ UNCHANGED <<conf, document, was_runs>>

\* make_request: an HTTPError or a ConnectionError is reported and raised again, other
\* exceptions, a read that times out among them, are only raised.
NoAnswer ==
    /\ was_pc = "request"
    /\ can_connect' \in {"CRITICAL", "none"}
    /\ RunRaises
    /\ UNCHANGED <<todo, submitted>>

\* An answer that is no XML raises lxml's error, which is not the one that is caught.
BadAnswer ==
    /\ was_pc = "request"
    /\ can_connect' = "OK"
    /\ RunRaises
    /\ UNCHANGED <<todo, submitted>>

Work(d) ==
    FlattenSeq([n \in DOMAIN d |->
        FlattenSeq([s \in DOMAIN d[n].servers |->
            [k \in DOMAIN Collected |->
                [server |-> d[n].servers[s], stat |-> Collected[k],
                 tags |-> {<<"node", d[n].name>>, <<"server", d[n].servers[s].name>>}]]])])

Answer(d) ==
    /\ was_pc = "request"
    /\ can_connect' = "OK"
    /\ document' = d
    /\ todo' = Work(d)
    /\ was_pc' = "servers"
    /\ UNCHANGED <<conf, submitted, result, was_runs>>

\* One category of one server.  A value that is missing is passed over, one that is no
\* number raises and takes what comes after it along.
Collect ==
    LET work == Head(todo)
        found == Named(work.server, work.stat)
        all == IF found = <<>> THEN <<>> ELSE Process(Head(found), Prefix(work.stat), work.tags, 0)
        bad == SelectInSeq(all, LAMBDA m : m.value = "text")
        numbers(ms) == SelectSeq(ms, LAMBDA m : m.value = "number")
    IN
    /\ was_pc = "servers" /\ todo # <<>>
    /\ IF bad > 0
       THEN /\ submitted' = submitted \o numbers(SubSeq(all, 1, bad - 1))
            /\ todo' = <<>>
            /\ RunRaises
       ELSE /\ submitted' = submitted \o numbers(all)
            /\ todo' = Tail(todo)
            /\ UNCHANGED <<was_pc, conf, document, result, was_runs>>
    /\ UNCHANGED can_connect

Done ==
    /\ was_pc = "servers" /\ todo = <<>>
    /\ was_pc' = "idle" /\ result' = "ok"
    /\ UNCHANGED <<conf, document, todo, submitted, can_connect, was_runs>>

WasNext == Request \/ NoAnswer \/ BadAnswer \/ (\E d \in Documents : Answer(d)) \/ Collect \/ Done

WasSpec == WasInit /\ [][WasNext]_wasVars

-----------------------------------------------------------------------------
WasTypeOK ==
    /\ was_pc \in {"idle", "request", "servers"}
    /\ conf \in Configs
    /\ document = <<>> \/ document \in Documents
    /\ can_connect \in {"none", "OK", "CRITICAL"}
    /\ result \in {"none", "ok", "raised"}
    /\ was_runs \in 0 .. MaxWasRuns

(***************************************************************************)
(* What a document asks for, by the ways that lead to its statistics.      *)
(***************************************************************************)
Ways == UNION {[1 .. n -> 1 .. Width] : n \in 1 .. Depth}

\* The elements on way w from e on, or none when it leads nowhere.
Along(e, w) ==
    FoldLeft(LAMBDA path, i : IF path # <<>> /\ i \in DOMAIN Last(path).children
                              THEN Append(path, Last(path).children[i]) ELSE <<>>,
             <<e>>, w)

\* The ways through Stat elements to a statistic with a number.
Leading(e) ==
    {w \in Ways :
        LET path == Along(e, w) IN
        /\ path # <<>>
        /\ \A k \in 2 .. Len(w) : path[k].tag = "Stat"
        /\ IsMetricTag(Last(path).tag) /\ Last(path).value = "number"}

\* The name and the tags of the statistic at the end of way w: one tag for each element
\* it passes, as far as the prefix has keys.
Statistic(work, e, w) ==
    LET path == Along(e, w)
        prefix == Prefix(work.stat)
        keys == NestedTags(prefix)
    IN [name |-> <<prefix, Last(path).name>>,
        tags |-> work.tags \cup {<<keys[k], path[k + 1].name>> : k \in 1 .. Min({Len(keys), Len(w) - 1})}]

Statistics(work) ==
    LET found == Named(work.server, work.stat) IN
    IF found = <<>> THEN {} ELSE {Statistic(work, found[1], w) : w \in Leading(found[1])}

\* Whatever the tree and the queries, a run that returns has submitted every statistic of
\* the collected categories under its name and tags and nothing else, one that raises a
\* part of them, and either only after it has reported the servlet as reachable.
WasInv ==
    LET named == {[name |-> SubSeq(m.name, 1, 2), tags |-> m.tags] : m \in ToSet(submitted)}
        all == UNION {Statistics(work) : work \in ToSet(Work(document))}
    IN /\ WasTypeOK
       /\ result # "none" => named \subseteq all
       /\ result = "ok" => named = all
       /\ submitted # <<>> => can_connect = "OK"
=============================================================================
