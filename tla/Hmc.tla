-------------------------------- MODULE Hmc --------------------------------
(***************************************************************************)
(* The hmc check (checks/bundled/hmc): a run connects to the console over  *)
(* SSH, learns its version and the servers it manages, and samples every   *)
(* server and subsystem.  AgentCheck.run catches whatever is raised, and   *)
(* the instance keeps its dictionaries for the next run.                   *)
(*                                                                         *)
(* The console (paramiko, external) may refuse the connection, fail at any *)
(* command or answer anything the parsing tells apart; its answers are     *)
(* text.  A second refresh reads _refresh_period, which nothing sets, so   *)
(* every run after a complete refresh ends there: no server is sampled     *)
(* twice, and the branches for a later sample are never reached.           *)
(***************************************************************************)
EXTENDS Integers, Sequences, FiniteSets

CONSTANTS
    HmcServers,  \* what lssyscfg may list
    Lpars,       \* names of partitions
    Unbound,     \* a local that was not assigned
    NoServer,
    MaxHmcRuns   \* bound: runs of the check

ASSUME HmcAssumption ==
    /\ IsFiniteSet(HmcServers) /\ HmcServers \cap Lpars = {}
    /\ MaxHmcRuns \in Nat

VARIABLES
    hmc_pc,      \* "idle", or the next part of check
    client,      \* the SSH client: "none", "open" or "closed"
    said,        \* the last service check: "none", "OK" or "CRITICAL"
    custom,      \* whether the instance has a command of its own
    versions,    \* _hmc_versions[conf]: Unbound when there is none
    version,     \* check's local
    refreshed,   \* conf in _last_refresh
    managed,     \* the keys of _managed_servers
    last_tm,     \* the pairs of a server and a subsystem that have one
    left,        \* the servers that the loop has not come to
    server,      \* the one it is at
    subsys,      \* the place in SYSTEMS it has come to
    extended,    \* how often HMC_LPAR_STATS_FIELDS was extended, for good
    tags,        \* sample_tags: the server, and every partition appended
    points,      \* history: server and tags of each sample submitted
    listed,      \* history: what the last complete refresh listed
    hmc_runs     \* history

instanceVars == <<versions, refreshed, managed, last_tm, extended>>
sampling == <<left, server, subsys, tags>>
hmcVars == <<hmc_pc, client, said, custom, version, instanceVars, sampling, points, listed, hmc_runs>>

\* HMC, which is DISABLED, is left out.
SYSTEMS == <<"LPAR", "POOL", "PROCPOOL", "MEMPOOL", "SYS">>

HmcInit ==
    /\ hmc_pc = "idle" /\ client = "none" /\ said = "none" /\ custom \in BOOLEAN
    /\ versions = Unbound /\ version = Unbound
    /\ refreshed = FALSE
    /\ managed = {} /\ last_tm = {} /\ extended = 0
    /\ left = {} /\ server = NoServer /\ subsys = 1 /\ tags = {}
    /\ points = {} /\ listed = {} /\ hmc_runs = 0

\* Mutant: the client is closed only where the check returns.
KeepClient(how) ==
    /\ hmc_pc' = "idle"
    /\ client' = IF how = "returns" THEN "closed" ELSE client
    /\ UNCHANGED <<said, custom, version, listed, hmc_runs>>

\* The check returns or raises; the finally closes the client.
Leave(how) ==
    /\ hmc_pc' = "idle"
    /\ client' = "closed"
    /\ UNCHANGED <<said, custom, version, listed, hmc_runs>>

\* It goes on.
Goto(where) ==
    /\ hmc_pc' = where
    /\ UNCHANGED <<client, said, custom, listed, hmc_runs>>

\* A configuration without host or user raises before there is a client.
BadConf ==
    /\ hmc_pc = "idle" /\ hmc_runs < MaxHmcRuns
    /\ hmc_runs' = hmc_runs + 1
    /\ UNCHANGED <<hmc_pc, client, said, custom, version, instanceVars, sampling, points, listed>>

\* A key that cannot be read is only a warning.
Connect ==
    /\ hmc_pc = "idle" /\ hmc_runs < MaxHmcRuns
    /\ hmc_runs' = hmc_runs + 1
    /\ \/ /\ said' = "OK" /\ client' = "open"
          /\ hmc_pc' = IF custom THEN "custom" ELSE "version"
       \/ /\ said' = "CRITICAL" /\ client' = "closed"
          /\ hmc_pc' = "idle"
    /\ version' = Unbound
    /\ UNCHANGED <<custom, instanceVars, sampling, points, listed>>

\* hmc_run_custom: the run ends with the command.
RunCustom ==
    /\ hmc_pc = "custom"
    /\ \E how \in {"returns", "raises"} : Leave(how)
    /\ UNCHANGED <<instanceVars, sampling, points>>

\* hmc_get_version: no line with a version makes None (0 here), the first is skipped,
\* a short one counts as 700.  The local is assigned only when the version is new.
GetVersion ==
    /\ hmc_pc = "version"
    /\ \/ /\ versions = Unbound
          /\ Leave("raises")
          /\ UNCHANGED versions
       \/ /\ versions = Unbound
          /\ \E v \in {0, 600, 700, 772} : versions' = v /\ version' = v
          /\ Goto("refresh")
       \/ /\ versions # Unbound
          /\ Goto("refresh")
          /\ UNCHANGED <<versions, version>>
    /\ UNCHANGED <<refreshed, managed, last_tm, extended, sampling, points>>

\* Mutant: a server that is not listed any more stays.
ForgetNone(list) == {}

\* The servers that are removed: the loop changes the dictionary under its own
\* iteration, so it raises after the first of them.
Forget(list) == managed \ list

\* hmc_get_managed_servers, and a line with too few fields raises where it is met.
Refresh ==
    /\ hmc_pc = "refresh"
    /\ \/ /\ Leave("raises")
          /\ UNCHANGED <<refreshed, managed, left, last_tm>>
       \/ /\ ~refreshed
          /\ \E part \in SUBSET HmcServers :
                Leave("raises") /\ managed' = managed \cup part
          /\ UNCHANGED <<refreshed, left, last_tm>>
       \/ /\ ~refreshed
          /\ \E list \in SUBSET HmcServers :
                \/ /\ Forget(list) # {}
                   /\ \E s \in Forget(list) :
                         /\ managed' = (managed \cup list) \ {s}
                         /\ last_tm' = {p \in last_tm : p[1] # s}
                   /\ Leave("raises")
                   /\ UNCHANGED <<refreshed, left>>
                \/ /\ Forget(list) = {}
                   /\ managed' = managed \cup list
                   /\ refreshed' = TRUE
                   /\ listed' = list
                   /\ left' = managed'
                   /\ hmc_pc' = "servers"
                   /\ UNCHANGED <<client, said, custom, version, hmc_runs, last_tm>>
    /\ UNCHANGED <<versions, extended, server, subsys, tags, points>>

\* hmc_get_sample_rate of the next server: a text that is no number passes over it.  A
\* version that this run found in the dictionary is not bound here.
NextServer ==
    /\ hmc_pc = "servers"
    /\ \E s \in left :
          /\ left' = left \ {s}
          /\ \/ /\ Leave("raises")
                /\ UNCHANGED <<server, subsys, tags>>
             \/ /\ Goto("servers")
                /\ UNCHANGED <<version, server, subsys, tags>>
             \/ /\ version # Unbound
                /\ server' = s
                /\ subsys' = 1
                /\ tags' = {s}
                /\ Goto("sample")
                /\ UNCHANGED version
    /\ UNCHANGED <<instanceVars, points>>

\* The columns of LPAR need a version; from 700 on they are extended in the class.
Columns(k) ==
    IF k = "LPAR" THEN /\ version # 0
                       /\ extended' = IF version >= 700 THEN extended + 1 ELSE extended
                  ELSE UNCHANGED extended

\* Mutant: the tags of all servers in one list.
TagAll(names) == UNION {p[2] : p \in points} \cup tags \cup names

\* Each sample appends its partition to the tags of the server, and they stay there for
\* whatever is sampled after it.
Tagged(names) == tags \cup names

\* hmc_sample.  Only samples later than the agent's own clock count.
Sample ==
    /\ hmc_pc = "sample" /\ subsys <= Len(SYSTEMS)
    /\ LET k == SYSTEMS[subsys] IN
       \/ /\ Leave("raises")
          /\ Columns(k) \/ UNCHANGED extended
          /\ UNCHANGED <<last_tm, subsys, tags, points>>
       \/ /\ Columns(k)
          /\ \/ UNCHANGED <<last_tm, tags, points>>
             \/ /\ last_tm' = last_tm \cup {<<server, k>>}
                /\ \E names \in IF k = "LPAR" THEN (SUBSET Lpars) \ {{}} ELSE {{}} :
                      tags' = Tagged(names)
                /\ points' = points \cup {<<server, tags'>>}
          /\ subsys' = subsys + 1
          /\ Goto("sample")
          /\ UNCHANGED version
    /\ UNCHANGED <<versions, refreshed, managed, left, server>>

SampledAll ==
    /\ hmc_pc = "sample" /\ subsys > Len(SYSTEMS)
    /\ server' = NoServer
    /\ Goto("servers")
    /\ UNCHANGED <<version, instanceVars, left, subsys, tags, points>>

\* hmc_ls and hmc_procstat swallow their errors; hmc_meminfo and hmc_monhmc_swap do not.
Console ==
    /\ hmc_pc = "servers" /\ left = {}
    /\ \E how \in {"returns", "raises"} : Leave(how)
    /\ UNCHANGED <<instanceVars, sampling, points>>

HmcNext ==
    \/ BadConf \/ Connect \/ RunCustom \/ GetVersion \/ Refresh
    \/ NextServer \/ Sample \/ SampledAll \/ Console

HmcSpec == HmcInit /\ [][HmcNext]_hmcVars

-----------------------------------------------------------------------------
HmcTypeOK ==
    /\ hmc_pc \in {"idle", "custom", "version", "refresh", "servers", "sample"}
    /\ client \in {"none", "open", "closed"} /\ said \in {"none", "OK", "CRITICAL"}
    /\ {versions, version} \subseteq {0, 600, 700, 772, Unbound}
    /\ {custom, refreshed} \subseteq BOOLEAN
    /\ {managed, left, listed} \subseteq SUBSET HmcServers
    /\ last_tm \subseteq HmcServers \X {SYSTEMS[k] : k \in 1 .. Len(SYSTEMS)}
    /\ server \in HmcServers \cup {NoServer}
    /\ tags \subseteq HmcServers \cup Lpars
    /\ subsys \in 1 .. Len(SYSTEMS) + 1
    /\ extended \in 0 .. Cardinality(HmcServers) /\ hmc_runs \in 0 .. MaxHmcRuns

\* Whatever a run meets, it leaves no connection, and it goes on past the connection only
\* after it has reported it.
ClientClosed ==
    /\ client = "open" <=> hmc_pc # "idle"
    /\ client = "open" => said = "OK"

\* The servers that are sampled are those of one complete listing, whatever earlier runs
\* that failed in the middle of theirs have left in the dictionary.
ManagedAsListed == refreshed => managed = listed /\ left \subseteq listed

\* The tags that pile up while a server is sampled never reach another server.
OwnTags == \A p \in points : p[2] \cap HmcServers = {p[1]}

\* No server and subsystem is sampled a second time, and partitions only where the
\* version of the console is known.
SampledOnce ==
    /\ hmc_pc = "sample" =>
          /\ refreshed /\ version = versions
          /\ \A k \in subsys .. Len(SYSTEMS) : <<server, SYSTEMS[k]>> \notin last_tm
    /\ \A s \in HmcServers : <<s, "LPAR">> \in last_tm => versions \notin {0, Unbound}

\* The check between two commands of the console.
HmcInv == HmcTypeOK /\ ClientClosed /\ ManagedAsListed /\ OwnTags /\ SampledOnce
=============================================================================
