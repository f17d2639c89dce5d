----------------------------- MODULE HttpRequests -----------------------------
(***************************************************************************)
(* The HTTP side of the forwarder: get_shared_requests, which threads call *)
(* without a lock, RequestsWrapper (utils/http.py) with its compression,   *)
(* and the proxies of utils/network.py, whose no_proxy list goes through   *)
(* the environment of the process.                                         *)
(*                                                                         *)
(* A host is the sequence of its labels from the right, an address a       *)
(* single label.  A rule of no_proxy is a record: "star", "plain" and      *)
(* "dotted" with a name, "net" with its addresses, and "literal", a text   *)
(* with commas between rules.                                              *)
(***************************************************************************)
EXTENDS Integers, Sequences, SequencesExt, Common

CONSTANTS
    Threads,
    Hosts,
    HttpSettings, \* bound: what the environment and datadog.yaml say of proxies, and
                  \* the payloads there are, with their type and whether they shrink
    LocalSkip,    \* LOCAL_PROXY_SKIP, as rules
    Compression,  \* forwarder.use_compression
    MaxRequests   \* bound: the requests

Star == [form |-> "star"]

\* What a name, an address or a network may be after the commas are gone.
IsRule(r) == r = Star \/ r.form \in {"net", "plain", "dotted"}
AreRules(rules) == rules \in Seq(Range(rules)) /\ \A r \in Range(rules) : IsRule(r)

\* Only a text of datadog.yaml may have commas; those of the environment are split.
AreTexts(rules) ==
    /\ rules \in Seq(Range(rules))
    /\ \A r \in Range(rules) : IsRule(r) \/ (r.form = "literal" /\ AreRules(r.rules))

ASSUME HttpAssumption ==
    /\ Compression \in BOOLEAN /\ None # "zstd"
    /\ \A s \in HttpSettings :
        /\ s.dd_no_proxy = None \/ AreRules(s.dd_no_proxy)
        /\ s.yaml_no_proxy = None \/ AreTexts(s.yaml_no_proxy)
        /\ AreRules(s.no_proxy) /\ AreRules(s.NO_PROXY)
        /\ \A p \in s.payloads : DOMAIN p = {"type", "smaller"} /\ p.smaller \in BOOLEAN
    /\ AreRules(LocalSkip) /\ Star \notin Range(LocalSkip)
    /\ \A h \in Hosts : h \in Seq(Range(h))
    /\ MaxRequests \in Nat

VARIABLES
    settings,     \* what is set when the process starts
    no_proxy_env, \* os.environ['no_proxy'], as rules
    wrappers,     \* the proxies of every RequestsWrapper made
    shared,       \* _shared_requests, an index of wrappers or 0
    http_pc,      \* of every thread: where it is
    no_proxy,     \* of every thread: the list it made
    mine,         \* of every thread: the wrapper it made, then the one it was given
    sent          \* history: the requests, as the session got them

httpVars == <<settings, no_proxy_env, wrappers, shared, http_pc, no_proxy, mine, sent>>

HttpInit ==
    /\ settings \in HttpSettings
    /\ no_proxy_env = settings.no_proxy
    /\ wrappers = <<>>
    /\ shared = 0
    /\ http_pc = [t \in Threads |-> "idle"]
    /\ no_proxy = [t \in Threads |-> <<>>]
    /\ mine = [t \in Threads |-> 0]
    /\ sent = <<>>

-----------------------------------------------------------------------------
(***************************************************************************)
(* get_proxy                                                               *)
(***************************************************************************)
\* Each scheme for itself: DD_PROXY_*, then datadog.yaml, then the environment.
Proxy(scheme) ==
    CASE settings.dd[scheme] # None -> settings.dd[scheme]
      [] settings.dd[scheme] = None /\ settings.yaml[scheme] # None -> settings.yaml[scheme]
      [] OTHER -> settings.os[scheme]

\* no_proxy of datadog.yaml counts even if it is an empty list.
ChosenRules ==
    IF settings.dd_no_proxy # None THEN settings.dd_no_proxy
    ELSE IF settings.yaml_no_proxy # None THEN settings.yaml_no_proxy
    ELSE IF no_proxy_env # <<>> THEN no_proxy_env ELSE settings.NO_PROXY

\* Mutant: the local hosts are appended though they may be there.
AppendLocal(rules) == IF Star \in Range(rules) THEN rules ELSE rules \o LocalSkip

WithLocal(rules) ==
    IF Star \in Range(rules) THEN rules
    ELSE rules \o FlattenSeq([i \in DOMAIN LocalSkip |->
                    IF LocalSkip[i] \in Range(rules) THEN <<>> ELSE <<LocalSkip[i]>>])

\* The list becomes one text, and whoever reads it splits it at the commas.
SplitRules(rules) == FlattenSeq([i \in DOMAIN rules |->
    IF rules[i].form = "literal" THEN rules[i].rules ELSE <<rules[i]>>])

-----------------------------------------------------------------------------
(***************************************************************************)
(* get_shared_requests                                                     *)
(***************************************************************************)
\* The test for None.
IsShared == shared # 0

\* Without a wrapper get_proxy begins.
AskShared(t) ==
    /\ http_pc[t] = "idle"
    /\ Len(sent) < MaxRequests
    /\ http_pc' = [http_pc EXCEPT ![t] = IF IsShared THEN "return" ELSE "resolve"]
    /\ UNCHANGED <<settings, no_proxy_env, wrappers, shared, no_proxy, mine, sent>>

Resolve(t) ==
    /\ http_pc[t] = "resolve"
    /\ no_proxy' = [no_proxy EXCEPT ![t] = WithLocal(ChosenRules)]
    /\ http_pc' = [http_pc EXCEPT ![t] = "write"]
    /\ UNCHANGED <<settings, no_proxy_env, wrappers, shared, mine, sent>>

\* RequestsWrapper.__init__ with what get_proxy returns.
NewWrapper(t) == [http |-> Proxy("http"), https |-> Proxy("https"), no_proxy |-> SplitRules(no_proxy[t])]

\* set_no_proxy_settings writes the list to the environment, and the wrapper is made.
Write(t) ==
    /\ http_pc[t] = "write"
    /\ no_proxy_env' = SplitRules(no_proxy[t])
    /\ wrappers' = Append(wrappers, NewWrapper(t))
    /\ mine' = [mine EXCEPT ![t] = Len(wrappers')]
    /\ http_pc' = [http_pc EXCEPT ![t] = "assign"]
    /\ UNCHANGED <<settings, shared, no_proxy, sent>>

Assign(t) ==
    /\ http_pc[t] = "assign"
    /\ shared' = mine[t]
    /\ http_pc' = [http_pc EXCEPT ![t] = "return"]
    /\ UNCHANGED <<settings, no_proxy_env, wrappers, no_proxy, mine, sent>>

Return(t) ==
    /\ http_pc[t] = "return"
    /\ mine' = [mine EXCEPT ![t] = shared]
    /\ http_pc' = [http_pc EXCEPT ![t] = "request"]
    /\ UNCHANGED <<settings, no_proxy_env, wrappers, shared, no_proxy, sent>>

-----------------------------------------------------------------------------
(***************************************************************************)
(* RequestsWrapper.request                                                 *)
(***************************************************************************)
\* Mutant: a leading dot does not matter.
AnyDot(rule, host) ==
    CASE rule.form = "star" -> TRUE
      [] rule.form = "net" -> host \in rule.hosts
      [] rule.form \in {"plain", "dotted"} -> IsPrefix(rule.name, host)

\* should_bypass_proxy: a name is for the host and what is below it, with a dot only for
\* what is below it.
Matches(rule, host) ==
    CASE rule.form = "star" -> TRUE
      [] rule.form = "net" -> host \in rule.hosts
      [] rule.form = "plain" -> IsPrefix(rule.name, host)
      [] rule.form = "dotted" -> IsStrictPrefix(rule.name, host)

Bypass(rules, host) == \E i \in DOMAIN rules : Matches(rules[i], host)

Sendable == {"dict", "str", "bytes"}

\* Mutant: the encoding is set before it is known whether the result is smaller.
AlwaysEncoded(p, fails) ==
    IF Compression /\ p.type \in Sendable /\ ~fails
    THEN [encoding |-> "zstd", body |-> IF p.smaller THEN "compressed" ELSE "plain"]
    ELSE [encoding |-> None, body |-> "as given"]

\* What would not become smaller is sent as plain bytes.
Compressed(p) ==
    [encoding |-> IF p.smaller THEN "zstd" ELSE None,
     body |-> IF p.smaller THEN "compressed" ELSE "plain"]

\* What cannot be turned to bytes, or fails to compress, is sent as it was given.
Encoded(p, fails) ==
    IF Compression /\ p.type \in Sendable /\ ~fails
    THEN Compressed(p)
    ELSE [encoding |-> None, body |-> "as given"]

Post(t, host, scheme, p) ==
    /\ http_pc[t] = "request"
    /\ \E fails \in BOOLEAN :
        LET w == wrappers[mine[t]]
            e == Encoded(p, fails)
        IN  sent' = Append(sent, [host |-> host, scheme |-> scheme, payload |-> p,
                                  proxy |-> IF Bypass(w.no_proxy, host) THEN None ELSE w[scheme],
                                  encoding |-> e.encoding, body |-> e.body])
    /\ http_pc' = [http_pc EXCEPT ![t] = "idle"]
    /\ UNCHANGED <<settings, no_proxy_env, wrappers, shared, no_proxy, mine>>

HttpNext ==
    \E t \in Threads :
        \/ AskShared(t) \/ Resolve(t) \/ Write(t) \/ Assign(t) \/ Return(t)
        \/ \E h \in Hosts, s \in {"http", "https"}, p \in settings.payloads : Post(t, h, s, p)

HttpSpec == HttpInit /\ [][HttpNext]_httpVars

-----------------------------------------------------------------------------
HttpTypeOK ==
    /\ shared \in 0 .. Len(wrappers)
    /\ http_pc \in [Threads -> {"idle", "resolve", "write", "assign", "return", "request"}]
    /\ \A t \in Threads : http_pc[t] \in {"assign", "request"} => mine[t] \in 1 .. Len(wrappers)

\* The rules that are set when the process starts, with the local hosts.
Configured ==
    SplitRules(WithLocal(
        IF settings.dd_no_proxy # None THEN settings.dd_no_proxy
        ELSE IF settings.yaml_no_proxy # None THEN settings.yaml_no_proxy
        ELSE IF settings.no_proxy # <<>> THEN settings.no_proxy ELSE settings.NO_PROXY))

\* "DD_PROXY_NO_PROXY > proxy.no_proxy (yaml) > NO_PROXY / no_proxy env": so it is for
\* every wrapper, though each reads the environment that those before it, or beside it,
\* have written.
SameProxies ==
    Range(wrappers) \subseteq {[http |-> Proxy("http"), https |-> Proxy("https"), no_proxy |-> Configured]}

\* A host and those below it are reached directly if a plain rule names it, those below it
\* only if a dotted rule does, an address if it is in a network; every other host is
\* reached through the proxy of the scheme.
DirectAsConfigured ==
    \A n \in DOMAIN sent :
        LET direct == \E rule \in Range(Configured) :
                \/ rule = Star
                \/ rule.form = "net" /\ sent[n].host \in rule.hosts
                \/ rule.form = "plain" /\ rule.name = sent[n].host
                \/ rule.form \in {"plain", "dotted"} /\ IsStrictPrefix(rule.name, sent[n].host)
        IN  sent[n].proxy = IF direct THEN None ELSE Proxy(sent[n].scheme)

\* Whatever fails, the receiver is told of a compression if and only if there was one.
EncodingMatchesBody ==
    \A n \in DOMAIN sent : (sent[n].encoding # None) = (sent[n].body = "compressed")

\* The wrappers there are, the ways their requests took, and what they said of the body.
HttpInv == HttpTypeOK /\ SameProxies /\ DirectAsConfigured /\ EncodingMatchesBody
===============================================================================
