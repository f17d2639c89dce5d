-------------------------------- MODULE Flare --------------------------------
(***************************************************************************)
(* agent.py flare (Agent.flare, Agent.status, utils/flare.py): a command   *)
(* that packs the agent's configuration and logs into an archive in a      *)
(* directory of its own, and uploads it if the user wants that.            *)
(*                                                                         *)
(* It runs beside the agent, which goes on writing, and rotates, the log   *)
(* that is being packed (utils/logs.py), and beside people who edit the    *)
(* configuration.  Of a text there is its version; what names and requests *)
(* need is in Inventory and HttpRequests.                                  *)
(***************************************************************************)
EXTENDS Naturals, Sequences, FiniteSets, SequencesExt

CONSTANTS
    Files,      \* the files there may be
    Unreadable, \* those that cannot be read as text
    Log, OldLog,\* agent.log, and agent.log.1
    Dirs,       \* the directories, which are all there
    FilesIn,    \* directory -> the files it may have
    Subdirs,    \* directory -> its directories, as os.walk takes them
    Paths,      \* conf_path, the configuration that was loaded, the two logs, additional_checksd
    MaxChanges, \* bound: files that appear or disappear during the command
    MaxRotates  \* bound: rotations of the log during the command

\* A directory and those below it.
DirsBelow(d) ==
    {e \in Dirs : \A S \in SUBSET Dirs :
        d \in S /\ (\A x \in S : ToSet(Subdirs[x]) \subseteq S) => e \in S}

\* Each file is in one directory, and each directory in one at most, outside of itself:
\* os.walk does not follow links.
ASSUME FlareAssumption ==
    /\ {Log, OldLog} \cup Unreadable \subseteq Files /\ Files \cap Dirs = {}
    /\ FilesIn \in [Dirs -> SUBSET Files]
    /\ \A f \in Files : \E d \in Dirs : \A e \in Dirs : f \in FilesIn[e] <=> e = d
    /\ IsFiniteSet(Dirs) /\ Subdirs \in [Dirs -> Seq(Dirs)]
    /\ \A d \in Dirs : \A i, j \in DOMAIN Subdirs[d] : Subdirs[d][i] = Subdirs[d][j] => i = j
    /\ \A d, e \in Dirs : ToSet(Subdirs[d]) \cap ToSet(Subdirs[e]) # {} => d = e
    /\ \A d \in Dirs : \A c \in ToSet(Subdirs[d]) : d \notin DirsBelow(c)
    /\ Paths \in Seq(Files \cup Dirs)
    /\ MaxChanges \in Nat /\ MaxRotates \in Nat

VARIABLES
    step,     \* where the command is
    version,  \* file -> the number of its text, 0 when there is no such file
    edits, rotates,
    changed,  \* history: the files that changed since the command began
    added,    \* how many of Paths it has looked at
    roots,    \* _paths: the directories to pack that are left
    walk,     \* the directories os.walk has yet to list
    names,    \* the files of the last one that are left
    packed,   \* file -> its versions in the archive, one for each entry
    tempdir,  \* "none", "made", "closed" with a complete archive, or "removed"
    consent,  \* whether the user wants to upload the archive
    posts,    \* the uploads that were tried
    accepted  \* whether the intake answered that it has the archive

files == <<version, edits, rotates, changed>>
packing == <<added, roots, walk, names, packed>>
flareVars == <<step, files, packing, tempdir, consent, posts, accepted>>

There(f) == version[f] > 0
Goto(place) == step' = place
From(place) == step = place
Ends == {"exit 0", "exit 1", "interrupted"}

\* RotatingFileHandler.doRollover, done by the agent: after the first of two
\* steps there is no log.
MoveLog ==
    /\ rotates < MaxRotates /\ There(Log)
    /\ rotates' = rotates + 1
    /\ version' = [version EXCEPT ![OldLog] = version[Log], ![Log] = 0]
    /\ changed' = changed \cup {Log, OldLog}
    /\ UNCHANGED edits

NewLog ==
    /\ rotates > 0 /\ ~There(Log)
    /\ version' = [version EXCEPT ![Log] = rotates + 1]
    /\ UNCHANGED <<edits, rotates, changed>>

\* Somebody adds or removes a file.
EditFile(f) ==
    /\ f \notin {Log, OldLog} /\ edits < MaxChanges
    /\ edits' = edits + 1
    /\ version' = [version EXCEPT ![f] = IF There(f) THEN 0 ELSE 1]
    /\ changed' = changed \cup {f}
    /\ UNCHANGED rotates

Others ==
    /\ step \notin Ends
    /\ MoveLog \/ NewLog \/ \E f \in Files : EditFile(f)
    /\ UNCHANGED <<step, packing, tempdir, consent, posts, accepted>>

-----------------------------------------------------------------------------
FlareInit ==
    /\ step = "prompt"
    /\ version \in [Files -> {0, 1}]
    /\ edits = 0 /\ rotates = 0 /\ changed = {}
    /\ added = 0 /\ roots = {} /\ walk = <<>> /\ names = {}
    /\ packed = [f \in Files |-> <<>>]
    /\ tempdir = "none"
    /\ consent = FALSE /\ posts = 0 /\ accepted = FALSE

\* The number of the case and the address: int() raises when that is no number.
AskCase ==
    /\ From("prompt")
    /\ Goto("new") \/ Goto("exit 1")
    /\ UNCHANGED <<files, packing, tempdir, consent, posts, accepted>>

\* Ctrl-C at a prompt.
Interrupt ==
    /\ step \in {"prompt", "consent"}
    /\ Goto("interrupted")
    /\ UNCHANGED <<files, packing, tempdir, consent, posts, accepted>>

\* The directory is made before the host name is looked up, which may raise.
New ==
    /\ From("new")
    /\ tempdir' = "made"
    /\ Goto("add") \/ Goto("exit 1")
    /\ UNCHANGED <<files, packing, consent, posts, accepted>>

\* os.path.dirname
DirOf(f) == CHOOSE d \in Dirs : f \in FilesIn[d]

Exists(path) == path \in Files => There(path)

\* Mutant: a file is walked as if it were a directory, and os.walk finds nothing.
OnlyDirectories(path) == IF path \in Dirs THEN {path} ELSE {}

Root(path) == {IF path \in Dirs THEN path ELSE DirOf(path)}

AddPath ==
    LET path == Paths[added + 1] IN
    /\ From("add") /\ added < Len(Paths)
    /\ added' = added + 1
    /\ roots' = IF Exists(path) THEN roots \cup Root(path) ELSE roots
    /\ UNCHANGED <<step, files, walk, names, packed, tempdir, consent, posts, accepted>>

\* Agent.status: when the agent is down, slow, or answers with an error or something
\* that is not JSON, there is no page, and the command goes on.
AskStatus ==
    /\ From("add") /\ added = Len(Paths)
    /\ Goto("pack")
    /\ UNCHANGED <<files, packing, tempdir, consent, posts, accepted>>

-----------------------------------------------------------------------------
(***************************************************************************)
(* create_archive                                                          *)
(***************************************************************************)
\* The paths are a set, so their order is open.
NextRoot ==
    /\ From("pack") /\ walk = <<>> /\ names = {}
    /\ \E d \in roots : walk' = <<d>> /\ roots' = roots \ {d}
    /\ UNCHANGED <<step, files, added, names, packed, tempdir, consent, posts, accepted>>

ListDir ==
    LET d == Head(walk) IN
    /\ From("pack") /\ walk # <<>> /\ names = {}
    /\ names' = {f \in FilesIn[d] : There(f)}
    /\ walk' = Subdirs[d] \o Tail(walk)
    /\ UNCHANGED <<step, files, added, roots, packed, tempdir, consent, posts, accepted>>

\* A file that went away, or that is not text, is logged and left out.
Pack(f) ==
    /\ From("pack") /\ f \in names
    /\ names' = names \ {f}
    /\ packed' = IF There(f) /\ f \notin Unreadable
                 THEN [packed EXCEPT ![f] = Append(@, version[f])]
                 ELSE packed
    /\ UNCHANGED <<step, files, added, roots, walk, tempdir, consent, posts, accepted>>

\* The status page, if any, is the last entry.  Closing the archive fails when the disk is full.
CloseArchive ==
    /\ From("pack") /\ walk = <<>> /\ names = {} /\ roots = {}
    /\ \/ tempdir' = "closed" /\ Goto("consent")
       \/ UNCHANGED tempdir /\ Goto("exit 1")
    /\ UNCHANGED <<files, packing, consent, posts, accepted>>

-----------------------------------------------------------------------------
(***************************************************************************)
(* The upload                                                              *)
(***************************************************************************)
Consent ==
    /\ From("consent")
    /\ \/ consent' = TRUE /\ Goto("submit")
       \/ UNCHANGED consent /\ Goto("exit 0")
    /\ UNCHANGED <<files, packing, tempdir, posts, accepted>>

\* An archive over MAX_UPLOAD_SIZE is not uploaded.
TooLarge ==
    /\ From("submit")
    /\ Goto("exit 0")
    /\ UNCHANGED <<files, packing, tempdir, consent, posts, accepted>>

\* Mutant: the archive is removed after every answer.
CleanupAlways(answer) == IF answer = "unreachable" THEN "exit 1" ELSE "cleanup"

\* A request that timed out, or that was refused, ends the command; other errors of
\* the network, and an acceptance in JSON that is not an object, escape.
NextAfter(answer) ==
    CASE answer = "accepted" -> "cleanup"
      [] answer \in {"refused", "timeout"} -> "exit 0"
      [] answer \in {"unreachable", "odd"} -> "exit 1"

Submit(answer) ==
    /\ From("submit")
    /\ posts' = posts + 1
    /\ accepted' = (answer \in {"accepted", "odd"})
    /\ Goto(NextAfter(answer))
    /\ UNCHANGED <<files, packing, tempdir, consent>>

Cleanup ==
    /\ From("cleanup")
    /\ tempdir' = "removed"
    /\ Goto("exit 0")
    /\ UNCHANGED <<files, packing, consent, posts, accepted>>

FlareNext ==
    \/ Others
    \/ AskCase \/ Interrupt \/ New \/ AddPath \/ AskStatus
    \/ NextRoot \/ ListDir \/ (\E f \in Files : Pack(f)) \/ CloseArchive
    \/ Consent \/ TooLarge \/ Cleanup
    \/ \E answer \in {"accepted", "odd", "refused", "timeout", "unreachable"} : Submit(answer)

FlareSpec == FlareInit /\ [][FlareNext]_flareVars

-----------------------------------------------------------------------------
FlareTypeOK ==
    /\ step \in {"prompt", "new", "add", "pack", "consent", "submit", "cleanup"} \cup Ends
    /\ version \in [Files -> 0 .. (MaxRotates + 1)]
    /\ added \in 0 .. Len(Paths)
    /\ roots \subseteq Dirs
    /\ walk \in Seq(Dirs)
    /\ names \subseteq Files
    /\ packed \in [Files -> Seq(1 .. (MaxRotates + 1))]
    /\ tempdir \in {"none", "made", "closed", "removed"}
    /\ posts \in {0, 1}
    /\ {consent, accepted} \subseteq BOOLEAN

\* The files below a directory.
Below(d) == UNION {FilesIn[e] : e \in DirsBelow(d)}

\* The directories of the configured places, by which of the files are there, that have f below.
Above(f, places) ==
    {d \in {IF p \in Dirs THEN p ELSE DirOf(p) : p \in places} : f \in Below(d)}

\* A complete archive has every file below the configured places that was there all
\* the time, in its one version, once for each of them that is above it: the default
\* place of checks is inside that of the configuration.  A log that was not there when
\* it was looked for, or that the agent rotates, may be missing.
ArchiveComplete ==
    tempdir = "closed" =>
        \A f \in Files \ changed :
            LET sure == {p \in ToSet(Paths) : p \notin changed /\ Exists(p)}
                perhaps == sure \cup (changed \cap ToSet(Paths))
                entries == Len(packed[f])
            IN IF There(f) /\ f \notin Unreadable
               THEN /\ Cardinality(Above(f, sure)) <= entries
                    /\ entries <= Cardinality(Above(f, perhaps))
                    /\ ToSet(packed[f]) \subseteq {version[f]}
               ELSE entries = 0

\* The archive is there for the user to send by other means until the intake
\* has said that it has it, and without the user's consent nothing is sent.
SentOrKept ==
    /\ tempdir = "removed" => accepted
    /\ posts > 0 => consent
    /\ step = "exit 0" => tempdir = (IF accepted THEN "removed" ELSE "closed")

\* The archive, its upload and its removal.
FlareInv == FlareTypeOK /\ ArchiveComplete /\ SentOrKept
==============================================================================
