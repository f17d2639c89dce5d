----------------------------- MODULE ProcessCheck -----------------------------
(***************************************************************************)
(* The process check (checks/bundled/process): one instance that counts    *)
(* the processes of a name.  It keeps the pids it found and the pids it    *)
(* was denied for some time, and a psutil object for every pid it          *)
(* measured; processes start and end at any moment, and pids are reused.   *)
(***************************************************************************)
EXTENDS Integers, FiniteSets, Functions

CONSTANTS
    Pids,
    Nobody,          \* there is no process of that pid
    None,            \* no thresholds
    ThePid,          \* the pid in the option pid
    FilePid,         \* the pid in the pid_file
    Setups,          \* bound: the configurations of the instance, as records with
                     \*   given: which of the options search_string, pid, pid_file there are,
                     \*   bounds: None, or the thresholds as pairs warning and critical,
                     \*   children, user, ignore_denied: whether these options are set,
                     \*   pid_cache_duration, access_denied_cache_duration,
                     \*   kinds: bound, the processes there are (do they match, deny access,
                     \*   belong to the user), and max_time: bound, the time
    MaxBorn          \* bound: the processes that are ever started

ASSUME ProcessAssumption ==
    /\ Pids \subseteq Nat \ {0}
    /\ {ThePid, FilePid} \subseteq Pids
    /\ MaxBorn \in Nat
    /\ \A s \in Setups :
        /\ s.kinds \subseteq [match : BOOLEAN, denied : BOOLEAN, mine : BOOLEAN]
        /\ s.given \subseteq {"search_string", "pid", "pid_file"} /\ s.given # {}
        /\ {s.children, s.user, s.ignore_denied} \subseteq BOOLEAN
        /\ {s.pid_cache_duration, s.access_denied_cache_duration, s.max_time} \subseteq Nat

VARIABLES
    setup,              \* the configuration
    running,            \* pid -> Nobody, or its kind with its parent, birth and start
    born, now,
    due,                \* the collector calls check again
    phase,              \* "idle", or the next step of check
    pids,               \* check's local
    pid_cache, last_pid_cache_ts,
    ad_cache, last_ad_cache_ts,
    process_cache,      \* pid -> the birth of the process of its psutil object, or 0
    report,             \* what the last run submitted
    sampled,            \* history: the births of the processes the last run sampled
    dead_runs           \* history: pid -> the runs begun since its process is gone, 2 at most

world == <<running, born, now>>
caches == <<pid_cache, last_pid_cache_ts, ad_cache, last_ad_cache_ts, process_cache>>
history == <<sampled, dead_runs>>
vars == <<setup, world, due, phase, pids, caches, report, history>>

PidDuration == setup.pid_cache_duration
AdDuration == setup.access_denied_cache_duration

\* A time of 0, which is longer ago than any duration.
LongAgo == -1 - PidDuration - AdDuration

NoReport == [number |-> 0, status |-> "none", pids |-> {}, cpu |-> {}]

Init ==
    /\ setup \in Setups
    /\ running = [p \in Pids |-> Nobody]
    /\ born = 0 /\ now = 0
    /\ due = TRUE
    /\ phase = "idle"
    /\ pids = {}
    /\ pid_cache = {} /\ last_pid_cache_ts = LongAgo
    /\ ad_cache = {} /\ last_ad_cache_ts = LongAgo
    /\ process_cache = [p \in Pids |-> 0]
    /\ report = NoReport
    /\ sampled = {}
    /\ dead_runs = [p \in Pids |-> 2]

-----------------------------------------------------------------------------
(***************************************************************************)
(* The machine                                                             *)
(***************************************************************************)
Alive == {p \in Pids : running[p] # Nobody}

Spawn(p, k, parent) ==
    /\ p \notin Alive /\ born < MaxBorn
    /\ born' = born + 1
    /\ running' = [running EXCEPT ![p] =
           [match |-> k.match, denied |-> k.denied, mine |-> k.mine,
            parent |-> parent, birth |-> born', start |-> now]]
    /\ dead_runs' = [dead_runs EXCEPT ![p] = 0]
    /\ UNCHANGED <<now, due, phase, pids, caches, report, sampled>>

\* Its children go to init.
Exit(p) ==
    /\ p \in Alive
    /\ running' = [q \in Pids |->
           IF q = p \/ running[q] = Nobody THEN (IF q = p THEN Nobody ELSE running[q])
           ELSE IF running[q].parent = p THEN [running[q] EXCEPT !.parent = 0] ELSE running[q]]
    /\ UNCHANGED <<born, now, due, phase, pids, caches, report, history>>

Tick ==
    /\ phase = "idle" /\ now < setup.max_time
    /\ now' = now + 1
    /\ due' = TRUE
    /\ UNCHANGED <<running, born, phase, pids, caches, report, history>>

\* The processes ps and all their descendants: what every set has that has ps and the
\* children of its own.
Family(ps) ==
    {q \in Pids : \A S \in SUBSET Pids :
        ps \subseteq S /\ (\A c \in Alive : running[c].parent \in S => c \in S) => q \in S}

-----------------------------------------------------------------------------
(***************************************************************************)
(* check: which pids                                                       *)
(***************************************************************************)
Source ==
    IF "pid" \in setup.given THEN "pid" ELSE IF "pid_file" \in setup.given THEN "pid_file" ELSE "search_string"

RefreshPids == now - last_pid_cache_ts > PidDuration
RefreshDenied == now - last_ad_cache_ts > AdDuration

\* find_pids skips the pids that denied access, unless it looks at all of them again.
Looked == IF RefreshDenied THEN Alive ELSE Alive \ ad_cache

DeniedOf(ps) == {p \in ps : running[p].denied}

\* With ignore_denied_access off the first pid that denies access raises.
Raises == ~setup.ignore_denied /\ DeniedOf(Looked) # {}
Reached ==
    IF Raises THEN {p \in Looked : \A q \in DeniedOf(Looked) : p <= q} ELSE Looked

\* Mutant: who denied access once stays on the list.
OnceDenied == IF RefreshDenied THEN ad_cache \cup DeniedOf(Reached) ELSE ad_cache

Denied == IF RefreshDenied THEN (ad_cache \ Reached) \cup DeniedOf(Reached) ELSE ad_cache

DeniedTime == IF RefreshDenied THEN now ELSE last_ad_cache_ts

Matching == {p \in Reached \ DeniedOf(Reached) : running[p].match}

Begin ==
    /\ phase = "idle" /\ due
    /\ due' = FALSE
    /\ dead_runs' = [p \in Pids |-> IF p \in Alive \/ dead_runs[p] = 2 THEN dead_runs[p] ELSE dead_runs[p] + 1]

\* The pid of an option, if there is a process; the file may be missing.
TakePid(pid) ==
    /\ Source # "search_string"
    /\ Begin
    /\ LET found == Alive \cap {pid}
       IN  \E lost \in SUBSET (IF Source = "pid_file" THEN found ELSE DeniedOf(found)) : pids' = found \ lost
    /\ phase' = "children"
    /\ UNCHANGED <<world, caches, report, sampled>>

FromCache ==
    /\ Source = "search_string" /\ ~RefreshPids
    /\ Begin
    /\ pids' = pid_cache
    /\ phase' = "children"
    /\ UNCHANGED <<world, caches, report, sampled>>

Scan ==
    /\ Source = "search_string" /\ RefreshPids
    /\ Begin
    /\ ad_cache' = Denied
    /\ IF Raises
       THEN /\ phase' = "idle"
            /\ report' = NoReport
            /\ UNCHANGED <<pids, pid_cache, last_pid_cache_ts, last_ad_cache_ts>>
       ELSE /\ pids' = Matching
            /\ pid_cache' = Matching
            /\ last_pid_cache_ts' = now
            /\ last_ad_cache_ts' = DeniedTime
            /\ phase' = "children"
            /\ UNCHANGED report
    /\ UNCHANGED <<world, process_cache, sampled>>

-----------------------------------------------------------------------------
(***************************************************************************)
(* check: the processes of the pids, and what is submitted                 *)
(***************************************************************************)
\* pids.update changes the set of the cache, which is the same one.
Children ==
    /\ phase = "children"
    /\ \E opaque \in SUBSET DeniedOf(pids \cap Alive) :
        pids' = IF setup.children THEN pids \cup (Family((pids \cap Alive) \ opaque)) ELSE pids
    /\ pid_cache' = IF Source = "search_string" THEN pids' ELSE pid_cache
    /\ phase' = "filter"
    /\ UNCHANGED <<world, due, last_pid_cache_ts, ad_cache, last_ad_cache_ts, process_cache, report, history>>

\* _filter_by_user makes a set of its own, without the processes that are gone.
Filter ==
    /\ phase = "filter"
    /\ IF setup.user
       THEN \E refused \in SUBSET DeniedOf(pids \cap Alive) :
                pids' = {p \in (pids \cap Alive) \ refused : running[p].mine}
       ELSE UNCHANGED pids
    /\ phase' = "state"
    /\ UNCHANGED <<world, due, caches, report, history>>

\* Mutant: an object is taken for the process whatever became of it.
NotCached == {p \in pids \cap Alive : process_cache[p] = 0}

\* New in the cache: no object yet, or one whose process is not running any more.
New == {p \in pids \cap Alive : process_cache[p] # running[p].birth}

\* Mutant: the cache is kept.
Kept(ps) == last_pid_cache_ts

\* reset the PID cache now, something changed.
AfterMissing(ps) == IF ps = {} THEN last_pid_cache_ts ELSE LongAgo

Within(n, pair) == pair[1] <= n /\ n <= pair[2]

Status(n) ==
    IF setup.bounds = None THEN (IF n < 1 THEN "CRITICAL" ELSE "OK")
    ELSE IF ~Within(n, setup.bounds.critical) THEN "CRITICAL"
    ELSE IF ~Within(n, setup.bounds.warning) THEN "WARNING"
    ELSE "OK"

\* get_process_state and the rest of check.  A process that denies access may do so when
\* its object is made, which skips it, or when the object of the pid is asked whether it
\* is running, which keeps the object.
State ==
    /\ phase = "state"
    /\ \E shut \in SUBSET DeniedOf(pids \cap Alive) : \E blind \in SUBSET DeniedOf(pids \cap Alive) :
        LET new == New \ {p \in blind : process_cache[p] # 0}
            missing == (pids \ Alive) \cup (shut \cap new)
            measured == pids \ missing
        IN  /\ process_cache' = [p \in Pids |->
                    IF p \notin pids THEN 0
                    ELSE IF p \in new \ shut THEN running[p].birth ELSE process_cache[p]]
            /\ last_pid_cache_ts' = AfterMissing(missing)
            /\ sampled' = {running[p].birth : p \in measured \ DeniedOf(measured)}
            /\ report' = [number |-> Cardinality(pids), status |-> Status(Cardinality(pids)), pids |-> pids,
                          cpu |-> {running[p].birth : p \in measured \ (new \cup DeniedOf(measured))}]
    /\ phase' = "idle"
    /\ UNCHANGED <<world, due, pids, pid_cache, ad_cache, last_ad_cache_ts, dead_runs>>

Next ==
    /\ UNCHANGED setup
    /\ \/ \E p \in Pids, k \in setup.kinds, parent \in Alive \cup {0} : Spawn(p, k, parent)
       \/ \E p \in Pids : Exit(p)
       \/ Tick
       \/ TakePid(IF Source = "pid" THEN ThePid ELSE FilePid)
       \/ FromCache \/ Scan \/ Children \/ Filter \/ State

Spec == Init /\ [][Next]_vars

-----------------------------------------------------------------------------
TypeOK ==
    /\ setup \in Setups
    /\ phase \in {"idle", "children", "filter", "state"}
    /\ pids \cup pid_cache \cup ad_cache \subseteq Pids
    /\ {last_pid_cache_ts, last_ad_cache_ts} \subseteq 0 .. now \cup {LongAgo}
    /\ process_cache \in [Pids -> 0 .. born]
    /\ report.status \in {"none", "OK", "WARNING", "CRITICAL"}
    /\ report.number = Cardinality(report.pids)

\* "reset the PID cache now, something changed": a pid without a process is counted in
\* one run at most; in the next it was already looked for again.
GoneCountedOnce == phase = "idle" => \A p \in report.pids : dead_runs[p] <= 1

\* A process that matches, and was there for both durations, is counted: neither the pid
\* cache nor the list of denied pids hides it for longer, even if its pid was denied before.
FoundInTime ==
    [][phase = "state" /\ phase' = "idle" /\ Source = "search_string" =>
        \A p \in Alive :
            /\ running[p].match /\ ~running[p].denied /\ (setup.user => running[p].mine)
            /\ now - running[p].start > PidDuration + AdDuration
            => p \in report'.pids]_vars

\* "save the value only on non-new processes": the CPU time that is submitted is that of
\* a process the run before has sampled, not of another one with its pid.
CpuOfSecondSample == [][phase = "state" /\ phase' = "idle" => report'.cpu \subseteq sampled]_vars

\* What a run submits, of those that are there and of those it has sampled before.
RunsReport == FoundInTime /\ CpuOfSecondSample

\* The pids, the objects and the report of an instance.
ReportInv == TypeOK /\ GoneCountedOnce
===============================================================================
