----------------------------- MODULE Inventory -----------------------------
(***************************************************************************)
(* What the agent says of its host: the name that Agent.run gives the      *)
(* aggregator (utils/hostname.py, agent.py), and the host metadata         *)
(* (metadata/metadata.py) with the inventory of the machine                *)
(* (metadata/gohai.py) that the AgentRunner collects anew each time.       *)
(*                                                                         *)
(* When metadata is due is in Collector; here one turn with metadata       *)
(* follows the other.  The system and its commands (external) may answer   *)
(* or fail each time they are asked.  Sizes, versions and time zones are   *)
(* left out: they are copied from one place to the other.                  *)
(***************************************************************************)
EXTENDS Integers, Sequences

CONSTANTS
    Machines,    \* system and configuration: os, dist, name, gohai and tags
    Interfaces,  \* what an entry of net_if_addrs may be: loopback, ipv4, ipv6 and mac
    MaxAddrs,    \* bound: interfaces
    NoName,
    Unread,      \* _prtconf_cache is None
    MaxPosts,    \* bound: payloads submitted
    MaxFailed    \* bound: turns that failed

VARIABLES
    inv_pc,          \* what Agent.run, or the turn, does next
    machine,
    aggregator_host, \* the aggregator's hostname
    host,            \* the hostname of this turn
    prtconf,         \* _prtconf_cache
    facts,           \* what this turn has collected
    meta_ts,         \* whether _meta_ts is set
    last,            \* history: the last payload
    posts,           \* history: payloads submitted
    startups,        \* history: those with the event of the start
    prtconf_runs,    \* history
    failed_turns     \* history

told == <<last, posts, startups>>
inventoryVars == <<inv_pc, machine, aggregator_host, host, prtconf, facts, meta_ts, told,
                   prtconf_runs, failed_turns>>

\* What prtconf says: a processor type, or none, and whether a system model.
Facts == [type : {"", "POWER8", "POWER9"}, model : BOOLEAN]

ASSUME InventoryAssumption ==
    /\ MaxAddrs \in Nat /\ MaxPosts \in Nat /\ MaxFailed \in Nat
    /\ NoName \notin {"valid", "command", "socket"}
    /\ Unread \notin Facts

Blank == [type |-> "", model |-> FALSE]

NoNetwork == [interfaces |-> <<>>, ipv4 |-> 0, ipv6 |-> 0, mac |-> 0]
NothingYet == [start |-> FALSE, cpu |-> "", processor |-> "", hardware |-> "",
               addrs |-> <<>>, network |-> NoNetwork]

InventoryInit ==
    /\ inv_pc = "start"
    /\ machine \in Machines
    /\ aggregator_host = NoName /\ host = NoName
    /\ prtconf = Unread /\ facts = NothingYet
    /\ meta_ts = FALSE
    /\ last = [host |-> NoName, cpu |-> "", processor |-> ""] /\ posts = 0 /\ startups = 0
    /\ prtconf_runs = 0 /\ failed_turns = 0

-----------------------------------------------------------------------------
\* Mutant: a configured name is taken as it is.
AnyConfigured == IF machine.name # "none" THEN {machine.name} ELSE {"command", "socket", NoName}

\* get_hostname: a valid configured name; else what /bin/hostname prints, if it does, valid
\* or not; else a valid name of the socket; else it raises.
HostNames == IF machine.name = "valid" THEN {"valid"} ELSE {"command", "socket", NoName}

\* The first lines of Agent.run: without a name it exits.
FirstName ==
    /\ inv_pc = "start"
    /\ \E name \in HostNames :
          /\ aggregator_host' = name
          /\ inv_pc' = IF name = NoName THEN "exited" ELSE "turn"
    /\ UNCHANGED <<machine, host, prtconf, facts, meta_ts, told, prtconf_runs, failed_turns>>

\* An exception in the turn: AgentRunner logs it, and the next turn starts over.
Fail ==
    /\ failed_turns < MaxFailed
    /\ failed_turns' = failed_turns + 1
    /\ inv_pc' = "turn"
    /\ host' = NoName
    /\ facts' = NothingYet
    /\ UNCHANGED <<machine, aggregator_host, meta_ts, told>>

\* The turn goes on with what it has collected.
GoOn(to, collected) ==
    /\ inv_pc' = to
    /\ facts' = collected
    /\ UNCHANGED <<machine, aggregator_host, host, meta_ts, told, failed_turns>>

\* Mutant: the time is taken before there is a payload.
StampAtOnce == meta_ts' = TRUE

\* _meta_ts waits for the payload.
StampLater == UNCHANGED meta_ts

\* The arguments of get_metadata: the name, and whether this is the start.
TurnName ==
    /\ inv_pc = "turn" /\ posts < MaxPosts
    /\ \E name \in HostNames :
          IF name = NoName
          THEN Fail
          ELSE /\ host' = name
               /\ facts' = [NothingYet EXCEPT !.start = ~meta_ts]
               /\ inv_pc' = "stats"
               /\ StampLater
               /\ UNCHANGED <<machine, aggregator_host, told, failed_turns>>
    /\ UNCHANGED <<prtconf, prtconf_runs>>

\* platform.dist, asked on Linux only, is gone from Python 3.8 on.
SystemStats ==
    /\ inv_pc = "stats"
    /\ IF machine.os = "linux" /\ ~machine.dist
       THEN Fail
       ELSE GoOn(IF machine.gohai THEN "cpu" ELSE "send", facts)
    /\ UNCHANGED <<prtconf, prtconf_runs>>

\* Mutant: only an answer is kept.
KeepAnswer(f) == prtconf' = IF f = Blank THEN Unread ELSE f

\* The cache keeps what was found, which is nothing when the command failed.
Keep(f) == prtconf' = f

\* get_prtconf_info: f is what it returns.
Prtconf(f) ==
    \/ prtconf # Unread /\ f = prtconf /\ UNCHANGED <<prtconf, prtconf_runs>>
    \/ prtconf = Unread /\ Keep(f) /\ prtconf_runs' = prtconf_runs + 1

CollectCpu ==
    /\ inv_pc = "cpu"
    /\ \/ /\ machine.os = "aix"
          /\ \E f \in Facts :
                Prtconf(f) /\ GoOn("filesystem", [facts EXCEPT !.cpu = f.type])
       \/ /\ machine.os # "aix"
          /\ \E model \in IF machine.os = "linux" THEN {"", "cpuinfo"} ELSE {""} :
                GoOn("filesystem", [facts EXCEPT !.cpu = model])
          /\ UNCHANGED <<prtconf, prtconf_runs>>

\* A partition without usage has size 0; listing them may raise.
CollectFilesystem ==
    /\ inv_pc = "filesystem"
    /\ Fail \/ GoOn("memory", facts)
    /\ UNCHANGED <<prtconf, prtconf_runs>>

CollectMemory ==
    /\ inv_pc = "memory"
    /\ Fail \/ GoOn("network", facts)
    /\ UNCHANGED <<prtconf, prtconf_runs>>

-----------------------------------------------------------------------------
(***************************************************************************)
(* collect_network: an address is the place of its interface in the list   *)
(***************************************************************************)
\* On AIX entstat is asked for a hardware address that psutil does not give.
HasMac(i) == i.mac = "known" \/ (i.mac = "entstat" /\ machine.os = "aix")

\* Mutant: a loopback is a candidate too.
WithLoopback(net, addrs, k) ==
    [interfaces |-> IF addrs[k].loopback THEN net.interfaces ELSE Append(net.interfaces, k),
     ipv4 |-> IF addrs[k].ipv4 /\ net.ipv4 = 0 THEN k ELSE net.ipv4,
     ipv6 |-> IF addrs[k].ipv6 /\ net.ipv6 = 0 THEN k ELSE net.ipv6,
     mac |-> IF HasMac(addrs[k]) /\ net.mac = 0 THEN k ELSE net.mac]

\* One turn of the loop.
WithInterface(net, addrs, k) ==
    IF addrs[k].loopback THEN net
    ELSE [interfaces |-> Append(net.interfaces, k),
          ipv4 |-> IF addrs[k].ipv4 /\ net.ipv4 = 0 THEN k ELSE net.ipv4,
          ipv6 |-> IF addrs[k].ipv6 /\ net.ipv6 = 0 THEN k ELSE net.ipv6,
          mac |-> IF HasMac(addrs[k]) /\ net.mac = 0 THEN k ELSE net.mac]

NetworkOf(addrs) ==
    LET upto[k \in 0 .. Len(addrs)] ==
            IF k = 0 THEN NoNetwork ELSE WithInterface(upto[k - 1], addrs, k)
    IN  upto[Len(addrs)]

\* What net_if_addrs may list.
AddrLists == UNION {[1 .. n -> Interfaces] : n \in 0 .. MaxAddrs}

CollectNetwork ==
    /\ inv_pc = "network"
    /\ \/ Fail
       \/ \E addrs \in AddrLists :
             GoOn("platform", [facts EXCEPT !.addrs = addrs, !.network = NetworkOf(addrs)])
    /\ UNCHANGED <<prtconf, prtconf_runs>>

-----------------------------------------------------------------------------
\* On AIX the type from prtconf replaces what Python says, and uname stands in for the
\* model.  The branch for Linux asks for "Linux" where get_os says "linux".
CollectPlatform ==
    /\ inv_pc = "platform"
    /\ \E python \in {"", "powerpc"}, uname \in BOOLEAN :
          \/ /\ machine.os = "aix"
             /\ \E f \in Facts :
                   /\ Prtconf(f)
                   /\ GoOn("send", [facts EXCEPT
                               !.processor = IF f.type # "" THEN f.type ELSE python,
                               !.hardware = IF f.model THEN "model"
                                            ELSE IF uname THEN "uname" ELSE ""])
          \/ /\ machine.os # "aix"
             /\ GoOn("send", [facts EXCEPT !.processor = python])
             /\ UNCHANGED <<prtconf, prtconf_runs>>

\* submit_metadata, and _meta_ts after it.  The second try of submit_metadata is for
\* values that json.dumps has refused in the log message before; tags of the configuration
\* may hold such.
Send ==
    /\ inv_pc = "send"
    /\ \/ ~machine.tags /\ Fail
       \/ /\ machine.tags
          /\ last' = [host |-> host, cpu |-> facts.cpu, processor |-> facts.processor]
          /\ posts' = posts + 1
          /\ startups' = startups + (IF facts.start THEN 1 ELSE 0)
          /\ meta_ts' = TRUE
          /\ inv_pc' = "turn"
          /\ host' = NoName
          /\ facts' = NothingYet
          /\ UNCHANGED <<machine, aggregator_host, failed_turns>>
    /\ UNCHANGED <<prtconf, prtconf_runs>>

InventoryNext ==
    \/ FirstName \/ TurnName \/ SystemStats \/ CollectCpu \/ CollectFilesystem
    \/ CollectMemory \/ CollectNetwork \/ CollectPlatform \/ Send

InventorySpec == InventoryInit /\ [][InventoryNext]_inventoryVars

-----------------------------------------------------------------------------
InventoryTypeOK ==
    /\ inv_pc \in {"start", "exited", "turn", "stats", "cpu", "filesystem", "memory",
                   "network", "platform", "send"}
    /\ machine \in Machines
    /\ {aggregator_host, host, last.host} \subseteq {"valid", "command", "socket", NoName}
    /\ prtconf \in Facts \cup {Unread}
    /\ meta_ts \in BOOLEAN
    /\ {posts, startups} \subseteq 0 .. MaxPosts
    /\ prtconf_runs \in Nat /\ failed_turns \in 0 .. MaxFailed

\* However many turns fail before and between them, the first payload that is submitted
\* says that the agent has started, and no other does.
StartupOnce == startups = IF posts = 0 THEN 0 ELSE 1

\* The command runs once in the life of the process, and what it said, or did not say, is
\* what every payload says, in both of its parts.
OneMachine ==
    /\ prtconf_runs <= 1
    /\ (machine.os = "aix" /\ machine.gohai /\ posts > 0) =>
          /\ last.cpu = prtconf.type
          /\ last.cpu # "" => last.processor = last.cpu

\* A valid configured name is that of the metrics and of all metadata, one that is not
\* valid is that of none; without it the two are looked up each on its own.
HostAsConfigured ==
    /\ inv_pc \notin {"start", "exited"} => aggregator_host # NoName
    /\ \A name \in {aggregator_host, host, last.host} \ {NoName} :
          (name = "valid") <=> (machine.name = "valid")

\* The first of some places, 0 if there is none.
FirstOf(places) ==
    IF places = {} THEN 0 ELSE CHOOSE k \in places : \A j \in places : k <= j

\* The primary addresses are those of the first interfaces that have one and are no
\* loopback, each of its kind, and no loopback is in the list.
PrimaryAddresses ==
    LET addrs == facts.addrs
        real == {k \in 1 .. Len(addrs) : ~addrs[k].loopback}
    IN
    /\ facts.network.ipv4 = FirstOf({k \in real : addrs[k].ipv4})
    /\ facts.network.ipv6 = FirstOf({k \in real : addrs[k].ipv6})
    /\ facts.network.mac = FirstOf({k \in real : HasMac(addrs[k])})
    /\ \A k \in 1 .. Len(addrs) :
          addrs[k].loopback <=> \A j \in 1 .. Len(facts.network.interfaces) :
                                    facts.network.interfaces[j] # k

\* What the agent says of its host.
InventoryInv ==
    InventoryTypeOK /\ StartupOnce /\ OneMachine /\ HostAsConfigured /\ PrimaryAddresses
=============================================================================
