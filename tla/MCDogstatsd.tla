----------------------------- MODULE MCDogstatsd -----------------------------
(***************************************************************************)
(* Small sets of messages.  For the grammar each has every option the      *)
(* schema knows, and texts that look like another part of a packet; for    *)
(* datagrams of several lines a few of them, with lines that are bad.      *)
(***************************************************************************)
EXTENDS Dogstatsd

SomeFloats == [w \in {"0", "1", "2", "3", "4", "0.5"} |->
    CASE w = "0" -> 0 [] w = "1" -> 100 [] w = "2" -> 200 [] w = "3" -> 300 [] w = "4" -> 400 [] w = "0.5" -> 50]
SomeInts == {"0", "1", "2", "3", "4"}
SomeDWords == {"d", "dk"}

SomeHostTags == <<<<"host", ":", "h">>, <<"host", ":", "i">>>>
SomeTags == {<<>>, <<<<"k", ":", "2">>>>,
             <<<<"host", ":", "i">>, <<"t">>, <<"host", ":", "h">>, <<"k", ":", "a", ":", "b">>>>}

SomeSamples ==
    {[value |-> v, mtype |-> t, rate |-> r, tags |-> g] : v \in {"1", "0.5"}, t \in {"g", "d"}, r \in {None, "0.5"}, g \in SomeTags}

Metrics == {[kind |-> "metric", name |-> <<"m">>, samples |-> s] : s \in SeqOf(SomeSamples, 2) \ {<<>>}}

SomeMeta == {<<>>, <<<<"h", <<"h">>>>>>, <<<<"#", <<<<"t">>, <<"k", ":", "d">>>>>>, <<"d", <<"1">>>>>>}

Events ==
    {[kind |-> "event", title |-> i, text |-> x, meta |-> m] :
        i \in {<<>>, <<"a">>, <<"a", "|", "b">>, <<"a", ":", "d">>}, x \in {<<>>, <<"b">>, <<"b", "|", "#">>, <<"b", "\n", ":">>}, m \in SomeMeta}

Checks ==
    {[kind |-> "sc", name |-> <<"c">>, status |-> <<s>>, meta |-> m, message |-> x] :
        s \in {"0", "2"}, m \in SomeMeta, x \in {None, <<>>, <<"a">>, <<"m:", "a", "|", "d">>, <<"|", "m:", "\n">>}}

Grammar == {<<m>> : m \in Metrics \cup Events \cup Checks}

One(t, v, r, g) == [value |-> v, mtype |-> t, rate |-> r, tags |-> g]
Metric(n, s) == [kind |-> "metric", name |-> <<n>>, samples |-> s]
Raw(s) == [kind |-> "raw", text |-> s]
AnEvent == [kind |-> "event", title |-> <<"a">>, text |-> <<"b">>, meta |-> <<>>]

Good == {Metric("m", <<One("g", "1", None, <<>>), One("g", "2", None, <<<<"t">>>>)>>),
         AnEvent,
         [kind |-> "sc", name |-> <<"c">>, status |-> <<"0">>, meta |-> <<>>, message |-> None],
         Raw(<<>>)}

\* No type, no number, a byte that is no UTF-8, a bad rate behind a good sample, an unknown
\* type, a rate of zero, bad headers, a bad part, a bad status.
Bad == {Raw(<<"m", ":", "1">>), Raw(<<"m", ":", "x", "|", "c">>), Raw(<<"m", ":", "1", "|", "g", "|", "#", "\\xff">>),
        Raw(<<"m", ":", "1", "|", "g", ":", "2", "|", "g", "|", "@", "x">>),
        Raw(<<"z", ":", "1", "|", "z">>), Raw(<<"y", ":", "1", "|", "c", "|", "@", "0">>),
        Raw(<<"_e", ":", "a">>), Raw(<<"_e{", "1", ",", "1", "}", ":", "t", "|", "t", "|">>), Raw(<<"_sc", "|", "c", "|", "x">>)}

Lines == {<<x, y, z>> : x \in Good, y \in Good \cup Bad, z \in {AnEvent}}

\* What is not decoded.
Bytes == {<<x, y>> : x \in Good, y \in Good} \cup {<<Raw(<<>>)>>}

\* Samples that one context cannot all take: text, and what a counter adds.
Types == {<<Metric("m", <<One(t, "1", None, <<>>)>>), AnEvent>> : t \in {"c", "h", "s"}}

\* A histogram, and what else may come to the same metric.
Mixed == {<<Metric("m", <<One(t, "1", None, <<>>)>>)>> : t \in {"h", "s", "z"}}

ValidAndBad ==
    [grammar |-> [datagrams |-> Grammar, utf8 |-> TRUE, forward |-> FALSE, max |-> 1],
     lines |-> [datagrams |-> Lines, utf8 |-> TRUE, forward |-> TRUE, max |-> 2],
     types |-> [datagrams |-> Types, utf8 |-> TRUE, forward |-> FALSE, max |-> 3],
     bytes |-> [datagrams |-> Bytes, utf8 |-> FALSE, forward |-> TRUE, max |-> 2]]

SameName == [mixed |-> [datagrams |-> Mixed, utf8 |-> TRUE, forward |-> FALSE, max |-> 2]]
==============================================================================
