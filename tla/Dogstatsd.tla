------------------------------- MODULE Dogstatsd -------------------------------
(***************************************************************************)
(* What becomes of a datagram: Server.start (dogstatsd/server.py), which   *)
(* catches whatever submit_packets (aggregator/aggregator.py) raises, the  *)
(* three parsers, and the part of submit_metric that may raise.  Times,    *)
(* buckets and flushes are those of BucketAggregator.                      *)
(*                                                                         *)
(* A packet is a sequence of symbols: the separators, and words.  "m:"     *)
(* begins a message, "m\\:" is the same escaped, "\\n" a newline escaped,  *)
(* "\\xff" a byte that is no UTF-8.  A sample rate is counted in           *)
(* hundredths.                                                             *)
(***************************************************************************)
EXTENDS Integers, Sequences, SequencesExt, FiniteSets, FiniteSetsExt, Functions, TLC, Common

CONSTANTS
    Floats,       \* the words that are numbers -> their hundredths
    Ints,         \* those of them that are integers
    DWords,       \* the words that begin with a d
    HostTags,     \* the tags that name a host, sorted
    Traffic       \* bound: name -> what clients send, whether it is decoded
                  \* (utf8_decoding) and forwarded (should_forward), and the
                  \* most datagrams of it

ASSUME DogstatsdAssumption ==
    /\ Ints \subseteq DOMAIN Floats
    /\ \A n \in DOMAIN Traffic :
        /\ DOMAIN Traffic[n] = {"datagrams", "utf8", "forward", "max"}
        /\ Traffic[n].utf8 \in BOOLEAN /\ Traffic[n].forward \in BOOLEAN

VARIABLES
    traffic,      \* the kind of Traffic there is
    loop,         \* "select", "lines", "send", or "ended"
    packets,      \* the lines that are left
    parsed_packets, \* the samples of the line that are left
    contexts,     \* of the current bucket: context -> the class of its metric, whether
                  \* it was given texts
    counts,       \* packet_count, metric_count, event_count, service_check_count
    received,     \* history: the datagrams
    calls,        \* history: of each, what was submitted
    forwarded     \* history: what the other server got

dogstatsdVars == <<traffic, loop, packets, parsed_packets, contexts, counts, received, calls, forwarded>>

DogstatsdInit ==
    /\ traffic \in DOMAIN Traffic
    /\ loop = "select"
    /\ packets = <<>>
    /\ parsed_packets = <<>>
    /\ contexts = <<>>
    /\ counts = [packet |-> 0, metric |-> 0, event |-> 0, sc |-> 0]
    /\ received = <<>>
    /\ calls = <<>>
    /\ forwarded = <<>>

-----------------------------------------------------------------------------
\* The number of S that k of them do not exceed.
Kth(S, k) == CHOOSE i \in S : Cardinality({j \in S : j <= i}) = k

Split(s, sep) ==
    LET ends == {0, Len(s) + 1} \cup {i \in DOMAIN s : s[i] = sep}
    IN  [k \in 1 .. (Cardinality(ends) - 1) |-> SubSeq(s, Kth(ends, k) + 1, Kth(ends, k + 1) - 1)]

Joined(parts, sep) ==
    IF parts = <<>> THEN <<>> ELSE Tail(FlattenSeq([i \in DOMAIN parts |-> <<sep>> \o parts[i]]))

After(s, i) == SubSeq(s, i + 1, Len(s))

Slice(s, i, j) == SubSeq(s, i, Min({j, Len(s)}))

IsFloat(s) == Len(s) = 1 /\ s[1] \in DOMAIN Floats

IsInt(s) == Len(s) = 1 /\ s[1] \in Ints

IntOf(s) == Floats[s[1]] \div 100

Tags(s) == ToSet(Split(s, ","))

\* The last part with each of the letters, without the letter and its colon.
Fields(parts, letters) ==
    [l \in letters \cap {Head(m) : m \in ToSet(parts)} |->
        LET m == Last(SelectSeq(parts, LAMBDA x : Head(x) = l))
        IN  IF l = "#" THEN Tags(Tail(m)) ELSE After(m, 2)]

-----------------------------------------------------------------------------
(***************************************************************************)
(* parse_metric_packet                                                     *)
(***************************************************************************)
\* Mutant: what a colon within a tag broke stays broken.
Broken(tokens) == SelectSeq(tokens, LAMBDA token : "|" \in ToSet(token))

\* "We need to fix the tag groups that got broken by the : split".
Data(tokens) ==
    LET begins == {1, Len(tokens) + 1} \cup {i \in DOMAIN tokens : "|" \in ToSet(tokens[i])}
    IN  [k \in 1 .. (Cardinality(begins) - 1) |->
            Joined(SubSeq(tokens, Kth(begins, k), Kth(begins, k + 1) - 1), ":")]

Ignored(datum) == Len(datum) > 1 /\ datum[2] # <<>> /\ Head(datum[2]) \in DWords

\* An empty part ends the loop over them.
Metadata(datum) ==
    LET parts == After(datum, 2)
        empty == SelectInSeq(parts, LAMBDA m : m = <<>>)
    IN  IF empty = 0 THEN parts ELSE SubSeq(parts, 1, empty - 1)

Rates(datum) == SelectSeq(Metadata(datum), LAMBDA m : Head(m) = "@")

BadDatum(datum) ==
    \/ Len(datum) < 2
    \/ /\ ~Ignored(datum)
       /\ \/ datum[2] # <<"s">> /\ ~IsFloat(datum[1])
          \/ \E m \in ToSet(Rates(datum)) : ~IsFloat(Tail(m))

\* "in case it's in a bad state".
RateOf(datum) ==
    IF Rates(datum) = <<>> THEN 100
    ELSE LET r == Floats[Last(Rates(datum))[2]] IN IF r < 0 \/ r > 100 THEN 100 ELSE r

IsHost(tag) == IsPrefix(<<"host", ":">>, tag)

\* The tags are sorted, and the last one stands.
HostOf(hosts) ==
    IF hosts = {} THEN None ELSE After(Last(SelectSeq(HostTags, LAMBDA tag : tag \in hosts)), 2)

\* The sample of a datum, after _extract_magic_tags.
Sample(name, datum) ==
    LET groups == SelectSeq(Metadata(datum), LAMBDA m : Head(m) = "#")
        tags == IF groups = <<>> THEN {} ELSE Tags(Tail(Last(groups)))
        hosts == {tag \in tags : IsHost(tag)}
    IN  [call |-> "metric", name |-> name, value |-> datum[1], mtype |-> datum[2],
         tags |-> tags \ hosts, rate |-> RateOf(datum),
         host |-> HostOf(hosts)]

parse_metric_packet(packet) ==
    LET at == SelectInSeq(packet, LAMBDA x : x = ":")
        data == Data(Split(After(packet, at), ":"))
        datums == [i \in DOMAIN data |-> Split(data[i], "|")]
        name == SubSeq(packet, 1, at - 1)
    IN  IF at = 0 \/ \E i \in DOMAIN datums : BadDatum(datums[i]) THEN None
        ELSE FlattenSeq([i \in DOMAIN datums |-> IF Ignored(datums[i]) THEN <<>> ELSE <<Sample(name, datums[i])>>])

-----------------------------------------------------------------------------
(***************************************************************************)
(* parse_event_packet: "_e{5,4}:title|body|meta"                           *)
(***************************************************************************)
Newlines(s) == [i \in DOMAIN s |-> IF s[i] = "\\n" THEN "\n" ELSE s[i]]

\* The lengths, not the bars, say where title and text end.
Cut(metadata, title, text) ==
    [title |-> Slice(metadata, 1, title), text |-> Newlines(Slice(metadata, title + 2, title + text + 1)),
     parts |-> Tail(Split(After(metadata, title + text + 1), "|"))]

parse_event_packet(packet) ==
    LET at == SelectInSeq(packet, LAMBDA x : x = ":")
        lengths == Split(SubSeq(packet, 1, at - 1), ",")
        cut == Cut(After(packet, at), IntOf(Tail(lengths[1])), IntOf(Front(lengths[2])))
    IN  IF \/ at = 0 \/ Len(lengths) # 2
           \/ lengths[2] = <<>> \/ ~IsInt(Tail(lengths[1])) \/ ~IsInt(Front(lengths[2]))
           \/ \E m \in ToSet(cut.parts) : m = <<>> \/ (Head(m) = "d" /\ ~IsInt(After(m, 2)))
        THEN None
        ELSE <<[call |-> "event", title |-> cut.title, text |-> cut.text,
                fields |-> Fields(cut.parts, {"t", "k", "s", "d", "p", "h", "#"})]>>

-----------------------------------------------------------------------------
(***************************************************************************)
(* parse_sc_packet: "_sc|check_name|status|meta"                           *)
(***************************************************************************)
Unescaped(s) == [i \in DOMAIN s |-> CASE s[i] = "\\n" -> "\n" [] s[i] = "m\\:" -> "m:" [] OTHER -> s[i]]

\* Where the message begins: the last "m:" if one begins the metadata, else the last "|m:".
MessageAt(metadata) ==
    IF metadata # <<>> /\ Head(metadata) = "m:"
    THEN Max({i \in DOMAIN metadata : metadata[i] = "m:"})
    ELSE Max({0} \cup {i \in DOMAIN metadata : i > 1 /\ metadata[i] = "m:" /\ metadata[i - 1] = "|"})

parse_sc_packet(packet) ==
    LET data == Split(packet, "|")
        metadata == Joined(After(data, 3), "|")
        at == MessageAt(metadata)
        meta == CASE at = 0 -> metadata [] at = 1 -> <<>> [] OTHER ->
                    SubSeq(metadata, 1, IF Head(metadata) = "m:" THEN at - 1 ELSE at - 2)
        parts == IF meta = <<>> THEN <<>> ELSE Split(meta, "|")
        message == IF at = 0 THEN <<>> ELSE "m:" :> Unescaped(After(metadata, at))
    IN  IF \/ Len(data) < 3 \/ ~IsInt(data[3])
           \/ \E m \in ToSet(parts) : m = <<>> \/ (Head(m) = "d" /\ ~IsFloat(After(m, 2)))
        THEN None
        ELSE <<[call |-> "sc", name |-> data[2], status |-> data[3],
                fields |-> message @@ Fields(parts, {"d", "h", "#"})]>>

-----------------------------------------------------------------------------
(***************************************************************************)
(* submit_metric, as far as it may raise                                   *)
(***************************************************************************)
BucketMetricResolver == [g |-> "BucketGauge", c |-> "Counter", h |-> "Histogram", ms |-> "Histogram", s |-> "Set"]

Resolves(mtype) == Len(mtype) = 1 /\ mtype[1] \in DOMAIN BucketMetricResolver

IsText(sample) == sample.mtype = <<"s">>

\* sample(): a rate of zero divides by it, and a counter adds its values.
SampleRaises(class, sample) ==
    \/ class \in {"Counter", "Histogram"} /\ sample.rate = 0
    \/ class = "Counter" /\ IsText(sample)

ContextOf(sample) == <<sample.name, sample.tags, sample.host>>

ClassOf(sample) == BucketMetricResolver[sample.mtype[1]]

\* The contexts, with the one of the sample: its class is that of its first type in the bucket.
WithContext(sample) ==
    [c \in DOMAIN contexts \cup {ContextOf(sample)} |->
        IF c \in DOMAIN contexts THEN contexts[c] ELSE [class |-> ClassOf(sample), text |-> FALSE]]

\* A sample is the first of a later time: the bucket of that time has no metrics.
NewBucket ==
    /\ contexts # <<>>
    /\ contexts' = <<>>
    /\ UNCHANGED <<loop, packets, parsed_packets, counts, received, calls, forwarded>>

\* An exception ends submit_packets, and Server.start reads the next datagram.
Raised ==
    /\ loop' = "select"
    /\ packets' = <<>>
    /\ parsed_packets' = <<>>

Submitted(call) == calls' = [calls EXCEPT ![Len(calls)] = Append(@, call)]

submit_metric ==
    /\ parsed_packets # <<>>
    /\ LET sample == Head(parsed_packets)
           c == ContextOf(sample)
       IN  \/ /\ c \notin DOMAIN contexts /\ ~Resolves(sample.mtype)
              /\ Raised
              /\ UNCHANGED <<contexts, counts, calls>>
           \/ /\ c \in DOMAIN contexts \/ Resolves(sample.mtype)
              /\ LET with == WithContext(sample) IN
                 \/ /\ SampleRaises(with[c].class, sample)
                    /\ Raised
                    /\ contexts' = with
                    /\ UNCHANGED <<counts, calls>>
                 \/ /\ ~SampleRaises(with[c].class, sample)
                    /\ contexts' = [with EXCEPT ![c].text = @ \/ (IsText(sample) /\ with[c].class # "Set")]
                    /\ counts' = [counts EXCEPT !.metric = @ + 1]
                    /\ Submitted(sample)
                    /\ parsed_packets' = Tail(parsed_packets)
                    /\ UNCHANGED <<loop, packets>>
    /\ UNCHANGED <<received, forwarded>>

-----------------------------------------------------------------------------
(***************************************************************************)
(* submit_packets                                                          *)
(***************************************************************************)
Kind(packet) == CASE Head(packet) \in {"_e{", "_e"} -> "event" [] Head(packet) = "_sc" -> "sc" [] OTHER -> "metric"

Parsed(packet) ==
    CASE Kind(packet) = "event" -> parse_event_packet(packet)
      [] Kind(packet) = "sc" -> parse_sc_packet(packet)
      [] Kind(packet) = "metric" -> parse_metric_packet(packet)

\* Mutant: only the line is lost.
LineRaised ==
    /\ packets' = Tail(packets)
    /\ UNCHANGED <<loop, parsed_packets>>

Unparseable == Raised

\* Mutant: events are counted before they are parsed.
CountedFirst(packet) ==
    [counts EXCEPT !.packet = @ + 1, ![Kind(packet)] = IF Kind(packet) # "metric" THEN @ + 1 ELSE @]

\* What was not decoded are bytes, which raise when asked for their prefix.
Parses(packet) == Traffic[traffic].utf8 /\ Parsed(packet) # None

Counted(packet) ==
    [counts EXCEPT !.packet = @ + 1,
                   ![Kind(packet)] = IF Kind(packet) # "metric" /\ Parses(packet) THEN @ + 1 ELSE @]

\* Events and service checks are submitted at once, the samples of a metric one by one.
Line ==
    /\ loop = "lines" /\ packets # <<>> /\ parsed_packets = <<>>
    /\ LET packet == Head(packets) IN
       \/ /\ packet = <<>>
          /\ packets' = Tail(packets)
          /\ UNCHANGED <<loop, parsed_packets, counts, calls>>
       \/ /\ packet # <<>>
          /\ counts' = Counted(packet)
          /\ \/ /\ ~Parses(packet)
                /\ Unparseable
                /\ UNCHANGED calls
             \/ /\ Parses(packet)
                /\ packets' = Tail(packets)
                /\ \/ Kind(packet) = "metric" /\ parsed_packets' = Parsed(packet) /\ UNCHANGED calls
                   \/ Kind(packet) # "metric" /\ Submitted(Parsed(packet)[1]) /\ UNCHANGED parsed_packets
                /\ UNCHANGED loop
    /\ UNCHANGED <<contexts, received, forwarded>>

End ==
    /\ loop = "lines" /\ packets = <<>> /\ parsed_packets = <<>>
    /\ loop' = (IF Traffic[traffic].forward THEN "send" ELSE "select")
    /\ UNCHANGED <<packets, parsed_packets, contexts, counts, received, calls, forwarded>>

-----------------------------------------------------------------------------
(***************************************************************************)
(* What clients send, by the schemas of the parsers, or "raw" text.        *)
(***************************************************************************)
Word(n) == CHOOSE w \in Ints : Floats[w] = n * 100

Escaped(s) == [i \in DOMAIN s |-> CASE s[i] = "\n" -> "\\n" [] s[i] = "m:" -> "m\\:" [] OTHER -> s[i]]

MetaText(meta) ==
    FlattenSeq([i \in DOMAIN meta |->
        IF meta[i][1] = "#" THEN <<"|", "#">> \o Joined(meta[i][2], ",")
        ELSE <<"|", meta[i][1], ":">> \o meta[i][2]])

SampleText(s) ==
    <<s.value, "|", s.mtype>> \o (IF s.rate = None THEN <<>> ELSE <<"|", "@", s.rate>>)
        \o (IF s.tags = <<>> THEN <<>> ELSE <<"|", "#">> \o Joined(s.tags, ","))

TextOf(m) ==
    CASE m.kind = "raw" -> m.text
      [] m.kind = "metric" -> m.name \o <<":">> \o Joined([i \in DOMAIN m.samples |-> SampleText(m.samples[i])], ":")
      [] m.kind = "event" -> <<"_e{", Word(Len(m.title)), ",", Word(Len(m.text)), "}", ":">>
                                \o m.title \o <<"|">> \o Escaped(m.text) \o MetaText(m.meta)
      [] m.kind = "sc" -> <<"_sc", "|">> \o m.name \o <<"|">> \o m.status \o MetaText(m.meta)
                             \o (IF m.message = None THEN <<>> ELSE <<"|", "m:">> \o Escaped(m.message))

\* A packet is a sequence of symbols.
ASSUME TextAssumption ==
    \A n \in DOMAIN Traffic : \A d \in Traffic[n].datagrams :
        d \in Seq(Range(d)) /\ \A i \in DOMAIN d : TextOf(d[i]) \in Seq(Range(TextOf(d[i])))

\* All of a datagram is decoded before its first line is looked at.
Decodes(d) == \A i \in DOMAIN d : "\\xff" \notin ToSet(TextOf(d[i]))

\* recv: a datagram that the select loop finds.
Recv(d) ==
    /\ loop = "select"
    /\ Len(received) < Traffic[traffic].max
    /\ received' = Append(received, d)
    /\ calls' = Append(calls, <<>>)
    /\ \/ /\ Traffic[traffic].utf8 => Decodes(d)
          /\ loop' = "lines"
          /\ packets' = [i \in DOMAIN d |-> TextOf(d[i])]
          /\ UNCHANGED parsed_packets
       \/ /\ Traffic[traffic].utf8 /\ ~Decodes(d)
          /\ Raised
    /\ UNCHANGED <<contexts, counts, forwarded>>

\* What send raises is dropped, but an OSError, which is what select.error is, only for EINTR.
Send ==
    /\ loop = "send"
    /\ \/ loop' = "select" /\ forwarded' \in {forwarded, Append(forwarded, Last(received))}
       \/ loop' = "ended" /\ UNCHANGED forwarded
    /\ UNCHANGED <<packets, parsed_packets, contexts, counts, received, calls>>

\* So is what select and recv raise.
ReceiveRaises ==
    /\ loop = "select"
    /\ loop' = "ended"
    /\ UNCHANGED <<packets, parsed_packets, contexts, counts, received, calls, forwarded>>

DogstatsdNext ==
    /\ UNCHANGED traffic
    /\ \/ \E d \in Traffic[traffic].datagrams : Recv(d)
       \/ Line \/ NewBucket \/ submit_metric \/ End \/ Send \/ ReceiveRaises

DogstatsdSpec == DogstatsdInit /\ [][DogstatsdNext]_dogstatsdVars

-----------------------------------------------------------------------------
DogstatsdTypeOK ==
    /\ traffic \in DOMAIN Traffic
    /\ loop \in {"select", "lines", "send", "ended"}
    /\ loop # "lines" => packets = <<>> /\ parsed_packets = <<>>
    /\ \A c \in DOMAIN contexts : contexts[c].class \in Range(BucketMetricResolver) /\ contexts[c].text \in BOOLEAN
    /\ DOMAIN counts = {"packet", "metric", "event", "sc"}
    /\ Len(calls) = Len(received)
    /\ Len(forwarded) <= Len(received)

Meta(meta) ==
    [l \in {meta[i][1] : i \in DOMAIN meta} |->
        LET v == CHOOSE x \in {meta[i][2] : i \in {j \in DOMAIN meta : meta[j][1] = l}} : TRUE
        IN  IF l = "#" THEN ToSet(v) ELSE v]

\* The submissions that a client means by a message.
Meant(m) ==
    CASE m.kind = "raw" -> <<>>
      [] m.kind = "metric" ->
            LET kept == SelectSeq(m.samples, LAMBDA s : s.mtype \notin DWords)
            IN  [i \in DOMAIN kept |->
                    LET s == kept[i]
                        hosts == {t \in ToSet(s.tags) : t[1] = "host"}
                    IN  [call |-> "metric", name |-> m.name, value |-> <<s.value>>, mtype |-> <<s.mtype>>,
                         tags |-> ToSet(s.tags) \ hosts,
                         rate |-> IF s.rate = None THEN 100 ELSE Floats[s.rate],
                         host |-> HostOf(hosts)]]
      [] m.kind = "event" -> <<[call |-> "event", title |-> m.title, text |-> m.text, fields |-> Meta(m.meta)]>>
      [] m.kind = "sc" -> <<[call |-> "sc", name |-> m.name, status |-> m.status,
                             fields |-> Meta(m.meta) @@ (IF m.message = None THEN <<>> ELSE "m:" :> m.message)]>>

UpToFirstRaw(d) ==
    LET raw == SelectInSeq(d, LAMBDA m : m.kind = "raw" /\ m.text # <<>>) IN IF raw = 0 THEN d ELSE SubSeq(d, 1, raw - 1)

\* "Clients MUST always send UTF-8 encoded content", and utf8_decoding is to be on.
Readable(d) == Traffic[traffic].utf8 /\ Decodes(d)

MeantBy(d) ==
    IF Readable(d) THEN FlattenSeq([i \in DOMAIN UpToFirstRaw(d) |-> Meant(d[i])]) ELSE <<>>

CallsOf(c) == {p \in UNION {{n} \X DOMAIN calls[n] : n \in DOMAIN calls} : calls[p[1]][p[2]].call = c}

\* The counts that the statistics are made of are those of what was submitted, whatever
\* was raised in between.
CountsOfCalls ==
    LET Of(c) == Cardinality(CallsOf(c))
    IN  /\ counts.metric = Of("metric") /\ counts.event = Of("event") /\ counts.sc = Of("sc")
        /\ counts.event + counts.sc <= counts.packet

\* What each line of a datagram gives: nothing from the first that cannot be parsed on.
Given(d) ==
    [i \in DOMAIN d |->
        IF TextOf(d[i]) = <<>> \/ \E j \in 1 .. i : TextOf(d[j]) # <<>> /\ Parsed(TextOf(d[j])) = None
        THEN <<>> ELSE Parsed(TextOf(d[i]))]

\* What a datagram should give: one that is not readable, nothing at all.
Due(d) == IF Readable(d) THEN FlattenSeq(Given(d)) ELSE <<>>

\* submit_metric may raise for a sample of the n-th datagram: there is no such type, or a
\* sample of its context, itself or one that came no later, makes a metric that it cannot
\* be added to.  Which came first in the bucket is a matter of time.
Unsubmittable(n, call) ==
    /\ call.call = "metric"
    /\ \/ ~Resolves(call.mtype)
       \/ \E i \in 1 .. n : \E e \in ToSet(Due(received[i])) :
            /\ e.call = "metric" /\ ContextOf(e) = ContextOf(call) /\ Resolves(e.mtype)
            /\ SampleRaises(ClassOf(e), call)

\* What is submitted of a datagram in UTF-8 is what its lines give, in order.  Only a sample
\* that submit_metric refuses, or a line that cannot be parsed, keeps what follows it in the
\* same datagram from being submitted, and none does so for another datagram.  Nothing is
\* submitted of a datagram that is not in UTF-8, or that is not decoded.
InOrder ==
    \A n \in DOMAIN received :
        LET due == Due(received[n])
        IN  /\ IsPrefix(calls[n], due)
            /\ \/ calls[n] = due
               \/ n = Len(received) /\ loop = "lines"
               \/ Unsubmittable(n, due[Len(calls[n]) + 1])

\* A datagram in UTF-8 gives what its client meant, however its texts and tags look, up to
\* the first line that cannot be parsed or sample that submit_metric refuses: nothing of
\* that line, though its first samples may be good, and nothing that was not meant.  Any
\* other datagram gives nothing, not even what its lines before the bad byte mean.
Understood ==
    \A n \in DOMAIN received :
        LET meant == MeantBy(received[n])
        IN  /\ IsPrefix(calls[n], meant)
            /\ \/ calls[n] = meant
               \/ n = Len(received) /\ loop = "lines"
               \/ Unsubmittable(n, meant[Len(calls[n]) + 1])

\* "Types of metrics that allow strings" are sets only: no other metric is given texts.
TextInSetsOnly == \A c \in DOMAIN contexts : ~contexts[c].text

\* What has become of the datagrams so far.
DogstatsdInv == DogstatsdTypeOK /\ CountsOfCalls /\ InOrder
==============================================================================
