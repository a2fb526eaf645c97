------------------------------ MODULE AgentFiles ------------------------------
(***************************************************************************)
(* The agent files and who serves them: cafe-agent-js scans its            *)
(* directories, then follows them with a watcher and on an admin signal    *)
(* (loader.rs, watcher.rs); cafe-agent-runtime reads its own files once    *)
(* and leaves an agent to cafe-agent-js that has a JS file of that name.   *)
(***************************************************************************)
EXTENDS Integers, Sequences, SequencesExt, FiniteSetsExt

CONSTANTS
    AgentName,   \* the names agents have
    MaxPath,     \* JS files are numbered in the order of their paths
    MaxChanges,  \* bound on the changes of the files
    NoAgent      \* no entry in the registry

ASSUME FilesAssumption == MaxPath \in Nat /\ MaxChanges \in Nat /\ NoAgent \notin AgentName

VARIABLES
    absolute,   \* the files of directories that are configured with an absolute path
    files,      \* files[p]: the JS file p
    agents,     \* the registry of cafe-agent-js, by name
    changes,    \* paths the watcher has reported
    watching,   \* has it been started?
    unseen,     \* history: paths changed after the scan and before the watcher
    shared,     \* history: did two files ever claim one name?
    fileEdits,  \* changes so far
    toml,       \* the agents of cafe-agent-runtime, {} until it starts
    tomlEdits   \* how many when it started, -1 until then

filesVars == <<absolute, files, agents, changes, watching, unseen, shared, fileEdits, toml, tomlEdits>>
tomlVars == <<absolute, toml, tomlEdits>>

Path == 1..MaxPath
NoFile == [state |-> "absent", name |-> NoAgent, version |-> 0]

\* "frozen": allows_reload = false; "broken": no valid manifest.
Content == [state : {"good", "frozen", "broken"}, name : AgentName]

Valid(p) == files[p].state \in {"good", "frozen"}
Claims(fs, n) == {p \in Path : fs[p].state \in {"good", "frozen"} /\ fs[p].name = n}

\* An entry keeps the path as it was found: the scan finds it in the directory as that is
\* configured, ./agents-js by default, the watcher reports it with the absolute path.
FileEntry(p, form) == [path |-> p, form |-> form, version |-> files[p].version]

Forms == {"absolute", "relative"}
Configured(p) == IF p \in absolute THEN "absolute" ELSE "relative"

\* load_all: of two files with one name the last wins.
Scanned == [n \in AgentName |-> IF Claims(files, n) = {} THEN NoAgent
                                ELSE LET p == Max(Claims(files, n)) IN FileEntry(p, Configured(p))]

-----------------------------------------------------------------------------

\* Somebody writes or removes a file; the watcher, if it runs, reports the path.
Change(p, new) ==
    /\ fileEdits < MaxChanges
    /\ fileEdits' = fileEdits + 1
    /\ files' = [files EXCEPT ![p] = new]
    /\ shared' = (shared \/ \E n \in AgentName : Cardinality(Claims(files', n)) > 1)
    /\ IF watching
       THEN changes' = Append(changes, p) /\ UNCHANGED unseen
       ELSE unseen' = unseen \cup {p} /\ UNCHANGED changes
    /\ UNCHANGED <<agents, watching, tomlVars>>

WriteFile(p, c) == Change(p, [state |-> c.state, name |-> c.name, version |-> fileEdits + 1])
RemoveFile(p) == files[p] # NoFile /\ Change(p, NoFile)

\* run_once: between the scan and the watcher lie the background agents and the re-attach.
StartWatcher ==
    /\ ~watching
    /\ watching' = TRUE
    /\ UNCHANGED <<files, agents, changes, unseen, shared, fileEdits, tomlVars>>

\* Mutant of Renamed: the entry under the old name stays.
KeepsRenamed(p) == {}

\* The names under which the registry has the path that the watcher reports: not those of
\* a file that was found with a relative one.
Entries(p) == {n \in AgentName : agents[n] # NoAgent /\ agents[n].path = p /\ agents[n].form = "absolute"}

\* Those the file no longer has.
Renamed(p) == Entries(p) \ {files[p].name}

ReloadFile(p) ==
    agents' = [n \in AgentName |-> IF n = files[p].name THEN FileEntry(p, "absolute")
                                   ELSE IF n \in Renamed(p) THEN NoAgent ELSE agents[n]]

\* The first entry that is found goes; a name is in the map once, a path may be twice.
RemoveByPath(p) ==
    IF Entries(p) = {} THEN UNCHANGED agents
    ELSE \E n \in Entries(p) : agents' = [agents EXCEPT ![n] = NoAgent]

\* The supervisor looks at the file as it is by now.
HandleChange ==
    /\ changes # <<>>
    /\ changes' = Tail(changes)
    /\ LET p == Head(changes)
       IN CASE files[p].state = "absent" -> RemoveByPath(p)
            [] files[p].state = "good" -> ReloadFile(p)
            [] OTHER -> UNCHANGED agents
    /\ UNCHANGED <<files, watching, unseen, shared, fileEdits, tomlVars>>

\* SIGNAL_RELOAD_AGENTS: the registry is replaced.
ReloadAll ==
    /\ agents # Scanned
    /\ agents' = Scanned
    /\ unseen' = {}
    /\ UNCHANGED <<files, changes, watching, shared, fileEdits, tomlVars>>

\* remove_shadowed.
Shadowed == {n \in AgentName : Claims(files, n) = {}}

\* cafe-agent-runtime starts, with a TOML file for every name.
StartRuntime ==
    /\ tomlEdits = -1
    /\ toml' = Shadowed
    /\ tomlEdits' = fileEdits
    /\ UNCHANGED <<absolute, files, agents, changes, watching, unseen, shared, fileEdits>>

-----------------------------------------------------------------------------

FilesInit ==
    /\ absolute \in SUBSET Path
    /\ files \in [Path -> {NoFile} \cup [state : {"good", "frozen"}, name : AgentName, version : {0}]]
    /\ agents = Scanned
    /\ changes = <<>> /\ watching = FALSE /\ unseen = {} /\ fileEdits = 0
    /\ shared = (\E n \in AgentName : Cardinality(Claims(files, n)) > 1)
    /\ toml = {} /\ tomlEdits = -1

FilesNext ==
    \/ \E p \in Path : RemoveFile(p) \/ \E c \in Content : WriteFile(p, c)
    \/ StartWatcher \/ HandleChange \/ ReloadAll
    \/ StartRuntime

FilesSpec == FilesInit /\ [][FilesNext]_filesVars

-----------------------------------------------------------------------------

FilesTypeOK ==
    /\ fileEdits \in 0..MaxChanges /\ tomlEdits \in -1..MaxChanges
    /\ \A n \in AgentName : agents[n] = NoAgent \/ agents[n].path \in Path
    /\ toml \subseteq AgentName /\ unseen \cup absolute \subseteq Path

FilesSettled == watching /\ changes = <<>> /\ ~shared

\* Once the reported changes are handled, each readable file is served as it is, and what
\* came from a file that is gone is not, nor under a name it had before - renames and
\* removals in any order included, unless two files claimed a name, or the file changed
\* before the watcher was started.  An entry that was found with a relative path may stay.
RegistryFollowsFiles ==
    FilesSettled => \A p \in Path \ unseen :
        /\ files[p].state = "good" => \E form \in Forms : agents[files[p].name] = FileEntry(p, form)
        /\ files[p].state \in {"absent", "good"} =>
              \A n \in AgentName : agents[n] # NoAgent /\ agents[n].path = p =>
                  n = files[p].name \/ (p \notin absolute /\ agents[n].form = "relative")

\* No agent is served twice, by cafe-agent-runtime and by cafe-agent-js, as long as the JS
\* files are those that cafe-agent-runtime found, and could be read; but for such entries.
NoAgentTwice ==
    (FilesSettled /\ unseen = {} /\ fileEdits = tomlEdits /\ \A p \in Path : files[p].state \in {"absent", "good"}) =>
        \A n \in toml : agents[n] # NoAgent => agents[n].path \notin absolute /\ agents[n].form = "relative"

\* Both together: who serves an agent is what the files say.
AgentsFollowFiles == RegistryFollowsFiles /\ NoAgentTwice

\* The supervisor: "a path that no longer exists unloads its agent instead of failing to
\* parse".  (Not a path in ./agents-js, which the registry has as a relative one.)
GoneIsUnloaded ==
    FilesSettled => \A p \in Path \ unseen : files[p] = NoFile =>
        \A n \in AgentName : agents[n] # NoAgent => agents[n].path # p

=============================================================================
