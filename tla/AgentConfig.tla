----------------------------- MODULE AgentConfig -----------------------------
(***************************************************************************)
(* The agent's configuration: Config.load (config/config.py) looks for     *)
(* datadog.yaml in the search paths, lays the environment over it, loads   *)
(* again when the environment names another directory, and answers every   *)
(* question with the defaults below it.  Agent.run (agent.py) then uses    *)
(* what it finds.  An option is a pair <<section, name>>; the options      *)
(* outside of any section are in the section Top.                          *)
(***************************************************************************)
EXTENDS Integers, Sequences, SequencesExt, FiniteSets, Functions, Common

CONSTANTS
    Top,          \* the section of the options without one
    NoFile,
    Default,      \* option -> its default (config/default.py)
    Yamls,        \* what a datadog.yaml may be: None when empty, or its sections
    Environments, \* bound: what may be in the environment, option -> text
    SearchPaths,  \* the directories init_config adds, in order
    Dirs          \* all directories with or without a datadog.yaml

Options == DOMAIN Default
Sections == {o[1] : o \in Options} \ {Top}
ConfPath == <<Top, "conf_path">>
CollectionInterval == <<Top, "min_collection_interval">>
Expiry == <<Top, "aggregator_expiry_seconds">>
Enabled == <<"dogstatsd", "enabled">>

\* A value of YAML and a value of the environment, which is text whatever it says.
Yaml(v) == [form |-> "yaml", says |-> v]
Text(v) == [form |-> "text", says |-> v]

\* The sections of the files, and what a section may have in it.
FileSections == (UNION {{y[s] : s \in DOMAIN y} : y \in Yamls \ {None}}) \ {None}
EnvTexts == UNION {{e[o] : o \in DOMAIN e} : e \in Environments}
Names == {o[2] : o \in Options} \cup UNION {DOMAIN m : m \in FileSections}
Values == {Default[o] : o \in Options} \cup {Text(t) : t \in EnvTexts}
              \cup UNION {{m[n] : n \in DOMAIN m} : m \in FileSections}
SectionContents == UNION {[D -> Values] : D \in SUBSET Names}

\* A conf_path names a directory, or is empty.
Directory(v) == v.says \in Dirs \cup {""}

ASSUME ConfigAssumption ==
    /\ {ConfPath, CollectionInterval, Expiry, Enabled} \subseteq Options
    /\ \A o \in Options : o = <<o[1], o[2]>>
    /\ SearchPaths \in Seq(Dirs) /\ IsInjective(SearchPaths)
    /\ \A e \in Environments : DOMAIN e \subseteq Options
    /\ \A y \in Yamls \ {None} :
        /\ y = [s \in DOMAIN y |-> y[s]]
        /\ DOMAIN y \subseteq Sections \cup {Top}
        /\ Top \in DOMAIN y /\ y[Top] # None
    /\ \A m \in FileSections : m = [n \in DOMAIN m |-> m[n]]
    /\ None \notin Dirs /\ NoFile \notin Yamls
    /\ \A D \in SUBSET Names : None \notin [D -> Values]
    /\ \A D \in SUBSET (Sections \cup {Top}) : None \notin [D -> SectionContents \cup {None}]
    /\ Directory(Default[ConfPath])
    /\ \A e \in Environments : ConfPath \in DOMAIN e => Directory(Text(e[ConfPath]))
    /\ \A m \in FileSections : ConfPath[2] \in DOMAIN m => Directory(m[ConfPath[2]])

VARIABLES
    disk,          \* directory -> its datadog.yaml, or NoFile
    env,           \* option -> the text in the environment
    search_paths,  \* Config.search_paths
    data,          \* Config.data, as section -> None or name -> value; None itself
    loaded_config, \* Config._loaded_config: a directory, or None
    loaded,        \* load's local: a file counts as found
    reload,        \* load's parameter
    pending,       \* the bindings of the environment that are still to be laid over
    pc,
    dogstatsd      \* after the start: is dogstatsd served?

configVars == <<disk, env, search_paths, data, loaded_config, loaded, reload, pending, pc, dogstatsd>>
locals == <<search_paths, reload>>
outside == <<disk, env>>

ConfigInit ==
    /\ disk \in [Dirs -> Yamls \cup {NoFile}]
    /\ env \in Environments
    /\ search_paths = SearchPaths
    /\ data = [s \in {Top} |-> <<>>]
    /\ loaded_config = None
    /\ loaded = FALSE
    /\ reload = TRUE
    /\ pending = {}
    /\ pc = "search"
    /\ dogstatsd = FALSE

-----------------------------------------------------------------------------
(***************************************************************************)
(* load                                                                    *)
(***************************************************************************)
Found == {n \in DOMAIN search_paths : disk[search_paths[n]] # NoFile}
First == search_paths[Min(Found)]

\* The first file that is found is the configuration; without one the data stay.
Search ==
    /\ pc = "search"
    /\ IF Found = {}
       THEN loaded' = FALSE /\ UNCHANGED <<data, loaded_config>>
       ELSE loaded' = TRUE /\ data' = disk[First] /\ loaded_config' = First
    /\ pending' = DOMAIN env
    /\ pc' = "override"
    /\ UNCHANGED <<outside, locals, dogstatsd>>

\* Mutant: a section that the file has is replaced by the defaults.
DefaultSection(s) == [n \in {o[2] : o \in {p \in Options : p[1] = s}} |-> Default[<<s, n>>]]

\* env_override: a section that the file does not have is filled from the defaults.
Section(s) ==
    IF s \in DOMAIN data THEN data[s]
    ELSE [n \in {o[2] : o \in {p \in Options : p[1] = s}} |-> Default[<<s, n>>]]

\* Mutant: a section is taken to be in the data.
Present(o) == data # None /\ o[1] \in DOMAIN data /\ Section(o[1]) # None

Sound(o) == data # None /\ Section(o[1]) # None

With(section, o) == [n \in DOMAIN section \cup {o[2]} |-> IF n = o[2] THEN Text(env[o]) ELSE section[n]]

\* env_bindings is a set, so the environment is laid over in any order.  What is no
\* mapping raises, and load with it.
Override(o) ==
    /\ pc = "override"
    /\ o \in pending
    /\ pending' = pending \ {o}
    /\ IF Sound(o)
       THEN /\ data' = [s \in DOMAIN data \cup {o[1]} |-> IF s = o[1] THEN With(Section(s), o) ELSE data[s]]
            /\ loaded' = (loaded /\ o # ConfPath)
            /\ pc' = pc
       ELSE pc' = "raised" /\ UNCHANGED <<data, loaded>>
    /\ UNCHANGED <<outside, locals, loaded_config, dogstatsd>>

\* __getitem__ and get: the data, with the defaults of a section below them; a section
\* the file leaves empty has no options at all.
Get(o) ==
    CASE o[1] \notin DOMAIN data -> Default[o]
      [] o[1] \in DOMAIN data /\ data[o[1]] = None -> None
      [] OTHER -> IF o[2] \in DOMAIN data[o[1]] THEN data[o[1]][o[2]] ELSE Default[o]

\* Nothing was found, or the environment names a directory.
Again == ~loaded /\ Get(ConfPath).says # "" /\ reload

\* add_search_path: a new path becomes the last.
Added(d) == IF d \in Range(search_paths) THEN search_paths ELSE Append(search_paths, d)

Reload ==
    /\ search_paths' = Added(Get(ConfPath).says)
    /\ reload' = FALSE
    /\ pc' = "search"

\* validate asks the data, which an empty file leaves None.
Decide ==
    /\ pc = "override"
    /\ pending = {}
    /\ IF data = None THEN pc' = "raised" /\ UNCHANGED locals
       ELSE IF Again THEN Reload
       ELSE pc' = "loaded" /\ UNCHANGED locals
    /\ UNCHANGED <<outside, data, loaded_config, loaded, pending, dogstatsd>>

-----------------------------------------------------------------------------
(***************************************************************************)
(* init_config's places and Agent.run's use of the options                 *)
(***************************************************************************)
\* Python's truth of a value: every text but the empty one is true.
Truth(v) == IF v.form = "text" THEN v.says # "" ELSE v.says = "true"

\* EnvTexts add up to a text and numbers to a number; one of each raises.
Adds(v, w) == v.form = w.form

\* "'enable' was a typo, kept for backwards compatibility": only a file can have it.
Enable ==
    LET section == IF Enabled[1] \in DOMAIN data THEN data[Enabled[1]] ELSE <<>>
    IN  "enable" \in DOMAIN section /\ Truth(section["enable"])

Startable == loaded_config # None /\ Adds(Get(CollectionInterval), Get(Expiry)) /\ Get(Enabled) # None

Start ==
    /\ pc = "loaded"
    /\ pc' = (IF Startable THEN "started" ELSE "failed")
    /\ dogstatsd' = (Startable /\ (Truth(Get(Enabled)) \/ Enable))
    /\ UNCHANGED <<outside, locals, data, loaded_config, loaded, pending>>

ConfigNext == Search \/ (\E o \in Options : Override(o)) \/ Decide \/ Start

ConfigSpec == ConfigInit /\ [][ConfigNext]_configVars

-----------------------------------------------------------------------------
ConfigTypeOK ==
    /\ Range(search_paths) \subseteq Dirs /\ IsInjective(search_paths)
    /\ loaded_config \in Dirs \cup {None}
    /\ {loaded, reload, dogstatsd} \subseteq BOOLEAN
    /\ pending \subseteq DOMAIN env
    /\ data # None => DOMAIN data \subseteq Sections \cup {Top}
    /\ pc \in {"search", "override", "loaded", "raised", "started", "failed"}

File == IF loaded_config = None THEN [s \in {Top} |-> <<>>] ELSE disk[loaded_config]

\* Whatever the order of the bindings, and after one load or two, an option is what the
\* environment says, else what the one file says that was loaded last, else the default;
\* of a section the file leaves empty there is nothing.
EnvOverFileOverDefault ==
    pc = "loaded" =>
        \A o \in Options :
            Get(o) = IF o \in DOMAIN env THEN Text(env[o])
                     ELSE IF o[1] \notin DOMAIN File THEN Default[o]
                     ELSE IF File[o[1]] = None THEN None
                     ELSE IF o[2] \in DOMAIN File[o[1]] THEN File[o[1]][o[2]]
                     ELSE Default[o]

\* load raises for an empty file only, or for an empty section the environment overrides.
RaisesOnEmptyOnly ==
    pc = "raised" => File = None \/ \E o \in DOMAIN env : o[1] \in DOMAIN File /\ File[o[1]] = None

\* What load may find and what it makes of it.
ConfigInv == ConfigTypeOK /\ EnvOverFileOverDefault /\ RaisesOnEmptyOnly
==============================================================================
