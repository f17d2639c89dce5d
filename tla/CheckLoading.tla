---------------------------- MODULE CheckLoading ----------------------------
(***************************************************************************)
(* What the Collector (collector/collector.py) does before its first turn: *)
(* load_check_classes asks three loaders for the class of every check that *)
(* is configured, instantiate_checks makes its instances and gives each an *)
(* interval; and what the status page (api/handlers.py) makes of the       *)
(* errors that the loaders left.                                           *)
(***************************************************************************)
EXTENDS Integers, Sequences, SequencesExt, FiniteSetsExt, Common

CONSTANTS
    Checks,        \* the checks that are configured
    Order,         \* their instances, in the order of their files
    CheckOf,       \* instance -> its check
    Config,        \* instance -> what its configuration says
    Hash,          \* instance -> AgentCheck.signature_hash of check and configuration
    GLOBAL,        \* min_collection_interval of the agent
    Surroundings   \* bound: what the loaders may find, check -> loader -> outcome,
                   \* with the intervals that the instances may be given

Instances == Range(Order)

Loaders == <<"core", "checks.d", "wheel">>
Outcomes == {"class", "no class", "broken", "absent"}

(***************************************************************************)
(* A setting of min_collection_interval in the instance, the init_config   *)
(* and the class: a number, absent, not a number, or infinite.             *)
(***************************************************************************)
Absent == -1
Bad == -2
Infinite == -3
Places == {"instance", "init_config", "class"}

ASSUME LoadingAssumption ==
    /\ Order \in Seq(Instances)
    /\ CheckOf \in [Instances -> Checks] /\ DOMAIN Hash = Instances
    /\ \A i, j \in Instances : Config[i] = Config[j] /\ CheckOf[i] = CheckOf[j] => Hash[i] = Hash[j]
    /\ None \notin Range(Loaders)
    /\ GLOBAL \in Nat
    /\ \A s \in Surroundings :
        /\ s.available \in [Checks -> [Range(Loaders) -> Outcomes]]
        /\ s.setting \in [Instances -> [Places -> Nat \cup {Absent, Bad, Infinite}]]

VARIABLES
    available, setting,   \* what the files say, which does not change
    asked,           \* check -> how many loaders it has been looked for with
    classes,         \* _check_classes: check -> the loader that had it
    errors,          \* _check_classes_errors: check -> loader -> "none", "error", "unexplained"
    made,            \* how many instances instantiate_checks is through with
    intervals,       \* _check_instances: instance -> its interval, 0 when it is not there
    signatures,      \* _check_instance_signatures
    failed,          \* history: instances that could not be made
    pages            \* history: what status pages showed, check -> loaders; None if a page failed

loadingVars == <<available, setting, asked, classes, errors, made, intervals, signatures, failed, pages>>
given == <<available, setting>>

LoadingBegins(s) ==
    /\ available = s.available /\ setting = s.setting
    /\ asked = [c \in Checks |-> 0]
    /\ classes = [c \in Checks |-> None]
    /\ errors = [c \in Checks |-> [l \in Range(Loaders) |-> "none"]]
    /\ made = 0
    /\ intervals = [i \in Instances |-> 0]
    /\ signatures = {}
    /\ failed = {}
    /\ pages = {}

LoadingInit == \E s \in Surroundings : LoadingBegins(s)

-----------------------------------------------------------------------------
(***************************************************************************)
(* load_check_classes.  A loader that raises leaves no error.              *)
(***************************************************************************)

\* _format_exception is not there, so a core check that cannot be imported raises.
CoreError(found) == IF found \in {"no class", "absent"} THEN "error" ELSE "none"

\* The error of a place is None when its module has no check.
PlaceError(found) ==
    CASE found = "no class" -> "unexplained"
      [] found \in {"broken", "absent"} -> "error"
      [] OTHER -> "none"

WheelError(found) == IF found \in {"broken", "absent"} THEN "error" ELSE "none"

ErrorOf(l, found) ==
    CASE l = "core" -> CoreError(found)
      [] l = "checks.d" -> PlaceError(found)
      [] l = "wheel" -> WheelError(found)

\* Mutant: the search goes on after a class was found.
AskAlways(c) == asked[c] < 3

MustAsk(c) == asked[c] < 3 /\ classes[c] = None

Ask(c) ==
    /\ MustAsk(c)
    /\ LET l == Loaders[asked[c] + 1]
           found == available[c][l]
       IN  /\ classes' = IF found = "class" THEN [classes EXCEPT ![c] = l] ELSE classes
           /\ errors' = [errors EXCEPT ![c][l] = ErrorOf(l, found)]
    /\ asked' = [asked EXCEPT ![c] = @ + 1]
    /\ UNCHANGED <<given, made, intervals, signatures, failed, pages>>

Loaded == \A c \in Checks : ~MustAsk(c)

-----------------------------------------------------------------------------
(***************************************************************************)
(* instantiate_checks                                                      *)
(***************************************************************************)
ClassDefault(s) == IF s["class"] = Absent THEN 15 ELSE s["class"]

IsSet(v) == v \notin {Absent, 0}

\* What "or" makes of the three.
Chosen(s) ==
    IF IsSet(s["instance"]) THEN s["instance"]
    ELSE IF IsSet(s["init_config"]) THEN s["init_config"] ELSE ClassDefault(s)

\* Mutant: the init_config is not asked again.
SkipInitConfig(s) == <<Chosen(s), ClassDefault(s), GLOBAL>>

\* The values that are tried until one can be converted.
Tried(s) == <<Chosen(s), s["init_config"], ClassDefault(s), GLOBAL>>

Raw(s) == Tried(s)[Min({n \in DOMAIN Tried(s) : Tried(s)[n] \notin {Absent, Bad}})]

Interval(s) == Max({Raw(s), 1, GLOBAL})

\* Mutant: the signature is known before the instance is there.
SignatureFirst(i, ok) == signatures \cup {Hash[i]}

Signatures(i, ok) == IF ok THEN signatures \cup {Hash[i]} ELSE signatures

\* The constructor of the class may raise, and so does the conversion of an infinite
\* interval; the instance is left out then.
Instantiate(i, constructed) ==
    /\ Loaded /\ made < Len(Order) /\ i = Order[made + 1]
    /\ made' = made + 1
    /\ IF classes[CheckOf[i]] = None \/ Hash[i] \in signatures
       THEN UNCHANGED <<intervals, signatures, failed>>
       ELSE LET ok == constructed /\ Raw(setting[i]) # Infinite
            IN  /\ intervals' = IF ok THEN [intervals EXCEPT ![i] = Interval(setting[i])] ELSE intervals
                /\ signatures' = Signatures(i, ok)
                /\ failed' = IF ok THEN failed ELSE failed \cup {i}
    /\ UNCHANGED <<given, asked, classes, errors, pages>>

Ready == Loaded /\ made = Len(Order)

-----------------------------------------------------------------------------
(***************************************************************************)
(* AgentStatusHandler.process_collector_info                               *)
(***************************************************************************)
Missing == {c \in Checks : classes[c] = None}

\* Mutant: the errors of all checks are shown.
ShowsAll(c) == {l \in Range(Loaders) : errors[c][l] # "none"}

Shown(c) == {l \in Range(Loaders) : c \in Missing /\ errors[c][l] # "none"}

\* An error that is None has no ['error'].
Status ==
    /\ Ready
    /\ LET page == IF \E c \in Missing : errors[c]["checks.d"] = "unexplained"
                   THEN None ELSE [c \in Checks |-> Shown(c)]
       IN  pages' = pages \cup {page}
    /\ UNCHANGED <<given, asked, classes, errors, made, intervals, signatures, failed>>

LoadingNext ==
    \/ \E c \in Checks : Ask(c)
    \/ \E i \in Instances, constructed \in BOOLEAN : Instantiate(i, constructed)
    \/ Status

LoadingSpec == LoadingInit /\ [][LoadingNext]_loadingVars

-----------------------------------------------------------------------------
LoadingTypeOK ==
    /\ asked \in [Checks -> 0 .. 3]
    /\ classes \in [Checks -> Range(Loaders) \cup {None}]
    /\ errors \in [Checks -> [Range(Loaders) -> {"none", "error", "unexplained"}]]
    /\ made \in 0 .. Len(Order)
    /\ intervals \in [Instances -> Nat]
    /\ signatures \subseteq Range(Hash)
    /\ failed \subseteq Instances
    /\ pages \ {None} \subseteq [Checks -> SUBSET Range(Loaders)]

\* "core checks first, checks.d next, bundled integrations last": whatever the loaders
\* before it found, the class is that of the first that has one.
FirstClassWins ==
    Loaded => \A c \in Checks :
        LET having == {n \in 1 .. 3 : available[c][Loaders[n]] = "class"}
        IN  classes[c] = IF having = {} THEN None ELSE Loaders[Min(having)]

\* A page that comes shows an error for every check without a class, although some
\* loaders leave none, and none for a check that was found after an error.
MissingAreShown ==
    \A page \in pages \ {None} : {c \in Checks : page[c] # {}} = Missing

\* Every instance of a check that was loaded runs, or one of the same signature does
\* in its place, or its own construction failed; and no signature runs twice.
EachSignatureOnce ==
    /\ \A i \in Instances :
        Ready /\ classes[CheckOf[i]] # None /\ i \notin failed =>
            \E j \in Instances : Hash[j] = Hash[i] /\ intervals[j] # 0
    /\ \A i, j \in Instances : intervals[i] # 0 /\ intervals[j] # 0 /\ Hash[i] = Hash[j] => i = j

IsNumber(v) == v > 0

\* The interval is the instance's when that is a number, else the init_config's, else
\* the class's, and never less than one second or the global minimum.  A zero counts
\* as no number.
IntervalAsConfigured ==
    \A i \in Instances : intervals[i] # 0 =>
        LET s == setting[i]
            wanted == <<s["instance"], s["init_config"], ClassDefault(s), GLOBAL>>
            first == Min({n \in 1 .. 4 : IsNumber(wanted[n]) \/ n = 4})
        IN  /\ intervals[i] >= Max({1, GLOBAL})
            /\ 0 \notin {s[p] : p \in Places} => intervals[i] = Max({1, GLOBAL, wanted[first]})

\* Which checks are loaded, which of their instances run, how often, and what the page
\* says of the others.
LoadingInv ==
    /\ LoadingTypeOK
    /\ FirstClassWins /\ MissingAreShown /\ EachSignatureOnce /\ IntervalAsConfigured
=============================================================================
