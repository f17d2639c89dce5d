----------------------------- MODULE ConfigFiles -----------------------------
(***************************************************************************)
(* The configurations of the checks: FileConfigProvider.collect            *)
(* (config/providers/file.py) reads the files under conf.d, and            *)
(* Config.collect_check_configs (config/config.py) adds what is new.       *)
(***************************************************************************)
EXTENDS Integers, Sequences, SequencesExt, FiniteSets, Common

CONSTANTS
    Files,        \* the paths a file may have
    CheckOfFile,      \* path -> the check it is for, None when its directory is no *.d
    Defaults,     \* the paths that end in .yaml.default
    Contents,     \* bound: the lists of instances a file may have
    Walks,        \* bound: the orders os.walk may give the files in
    MaxEdits      \* bound: changes of a file

\* What else a file may be.
Others == {"gone", "no YAML", "no instances", "unreadable"}

ASSUME FilesAssumption ==
    /\ IsFiniteSet(Files) /\ Defaults \subseteq Files
    /\ DOMAIN CheckOfFile = Files
    /\ \A is \in Contents : is \in Seq(Range(is))
    /\ Walks \subseteq SetToSeqs(Files)
    /\ MaxEdits \in Nat

CheckNames == Range(CheckOfFile) \ {None}

VARIABLES
    kind,          \* path -> "instances" or one of the others
    instances,     \* path -> its instances, <<>> when it has none
    check_configs, \* Config._check_configs of the provider: check -> list
    config_errors, \* FileConfigProvider._config_errors: the paths of the files
    read,          \* history: kind and instances when they were last collected
    edits

filesVars == <<kind, instances, check_configs, config_errors, read, edits>>
onDisk == <<kind, instances>>

\* A file that has instances, or is something else.
MayBe(f, k, is) == IF k = "instances" THEN is \in Contents ELSE is = <<>>

FilesInit ==
    /\ kind \in [Files -> Others \cup {"instances"}]
    /\ instances \in [Files -> Contents \cup {<<>>}]
    /\ \A f \in Files : MayBe(f, kind[f], instances[f])
    /\ check_configs = [c \in CheckNames |-> <<>>]
    /\ config_errors = {}
    /\ read = <<>>
    /\ edits = 0

\* An administrator changes file f.
Edit(f, k, is) ==
    /\ edits < MaxEdits
    /\ edits' = edits + 1
    /\ MayBe(f, k, is)
    /\ kind' = [kind EXCEPT ![f] = k]
    /\ instances' = [instances EXCEPT ![f] = is]
    /\ UNCHANGED <<check_configs, config_errors, read>>

-----------------------------------------------------------------------------
(***************************************************************************)
(* FileConfigProvider.collect, for the files in the order of os.walk       *)
(***************************************************************************)

\* Those of the files that are in S, in their order.
Among(fs, S) == FlattenSeq([n \in DOMAIN fs |-> IF fs[n] \in S THEN <<fs[n]>> ELSE <<>>])

\* A file in a directory that is no *.d is not opened.
Opened(walk) == Among(walk, {f \in Files : kind[f] # "gone" /\ CheckOfFile[f] # None})

Valid(walk, c) == Among(Opened(walk), {f \in Files : kind[f] = "instances" /\ CheckOfFile[f] = c})

\* _flatten_config: a configuration for every instance, with its path and its place.
Flat(f) == [n \in 1 .. Len(instances[f]) |-> <<f, n, instances[f][n]>>]

FlatOf(fs) == FlattenSeq([n \in DOMAIN fs |-> Flat(fs[n])])

\* Mutant: a user's file without instances counts as none.
EmptyIsNone(user, default) == IF FlatOf(user) # <<>> THEN user ELSE default

\* A user's file is there though it may have no instance.
UserFirst(user, default) == IF user # <<>> THEN user ELSE default

Collected(walk, c) ==
    LET valid == Valid(walk, c)
    IN  FlatOf(UserFirst(Among(valid, Files \ Defaults), Among(valid, Defaults)))

\* Mutant: the errors of the last call are kept.
KeptFaulty(fs) == config_errors \cup {f \in Range(fs) : kind[f] \in {"no YAML", "no instances"}}

Faulty(fs) == {f \in Range(fs) : kind[f] \in {"no YAML", "no instances"}}

\* The files before the first that cannot be opened, which raises.
BeforeUnreadable(walk) ==
    LET opened == Opened(walk)
        bad == {n \in 1 .. Len(opened) : kind[opened[n]] = "unreadable"}
    IN  SubSeq(opened, 1, IF bad = {} THEN Len(opened) ELSE (CHOOSE n \in bad : \A m \in bad : n <= m) - 1)

Raises(walk) == \E f \in Range(Opened(walk)) : kind[f] = "unreadable"

\* Mutant: the new configurations take the place of the old ones.
Replace(current, new) == new

\* collect_check_configs, for one check: what is in the list, also from this call, is skipped.
AddNew(current, new) ==
    current \o FlattenSeq([n \in DOMAIN new |->
                   IF new[n] \in Range(current) \cup {new[m] : m \in 1 .. (n - 1)} THEN <<>> ELSE <<new[n]>>])

Collect(walk) ==
    /\ config_errors' = Faulty(BeforeUnreadable(walk))
    /\ check_configs' = IF Raises(walk) THEN check_configs
                        ELSE [c \in CheckNames |-> AddNew(check_configs[c], Collected(walk, c))]
    /\ read' = IF Raises(walk) THEN read ELSE onDisk
    /\ UNCHANGED <<onDisk, edits>>

FilesNext ==
    \/ \E f \in Files, k \in Others \cup {"instances"}, is \in Contents \cup {<<>>} : Edit(f, k, is)
    \/ \E walk \in Walks : Collect(walk)

FilesSpec == FilesInit /\ [][FilesNext]_filesVars

-----------------------------------------------------------------------------
\* "skip existing ones in case we re-call this": collecting the same files again, in
\* whatever order the directory lists them, changes nothing.
AgainNothingNew ==
    [][edits' = edits /\ read = onDisk => check_configs' = check_configs]_filesVars

\* "update configs with missing defaults": the first time, a default is configured if
\* and only if the check has no valid file of the user's, be it one without instances.
MissingDefaultsOnly ==
    [][read = <<>> /\ read' # <<>> =>
        \A c \in CheckNames :
            LET user == {f \in Files \ Defaults : CheckOfFile[f] = c /\ kind[f] = "instances"}
            IN  \A f \in {f \in Defaults : CheckOfFile[f] = c /\ instances[f] # <<>>} :
                    (\E config \in Range(check_configs'[c]) : config[1] = f) = (user = {})]_filesVars

\* "list of config load errors for status display": those of the last call, and every
\* file that was opened is configured or has an error, unless the call raised.
ErrorsOfLastCall ==
    [][read' # read =>
        config_errors' = {f \in Files : CheckOfFile[f] # None /\ kind[f] \in {"no YAML", "no instances"}}]_filesVars

\* What a call adds to the configurations and the errors that are there.
CollectsWhatIsNew == AgainNothingNew /\ MissingDefaultsOnly /\ ErrorsOfLastCall
==============================================================================
