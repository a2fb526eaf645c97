---------------------------- MODULE EpubNarrator ----------------------------
(***************************************************************************)
(* cafe-epub and one session: the worker that loads books and reads        *)
(* chapters aloud, the state the process keeps of the session, the chunks  *)
(* it leaves in the history to find its place again, and the upload of the *)
(* book to the binary store.  Every chunk is published in a step of its    *)
(* own, between any two of which the process may die.  A book is named by  *)
(* the path it is at; a file may be removed but not changed.               *)
(***************************************************************************)
EXTENDS Integers, Sequences, FiniteSets, FiniteSetsExt

CONSTANTS
    MaxCommands,   \* bound on the commands of the user
    MaxEpCrashes,  \* bound on the crashes of cafe-epub
    MaxGone        \* bound on the files removed

ASSUME EpAssumption == MaxCommands \in Nat /\ MaxEpCrashes \in Nat /\ MaxGone \in Nat

VARIABLES
    told,       \* the durable chunks of the session that matter here
    narration,  \* SessionState, in the memory of the process
    epStep,     \* what the worker does next
    cmd,        \* the command it works on
    due,        \* blobs the binary store has not answered with credentials
    posted,     \* credentials the worker has not read
    awaited,    \* the worker's pending uploads
    blobStore,  \* blobStore[b]: what the binary store has of the b-th blob
    onDisk,     \* the paths where a file still is
    asked, epCrashes

epVars == <<told, narration, epStep, cmd, due, posted, awaited, blobStore, onDisk, asked, epCrashes>>
uploadVars == <<due, posted, awaited, blobStore>>
userVars == <<onDisk, asked, epCrashes>>

\* Chapters(b): the number of chapters; one file is an archive without any.
Books == 1..3
Chapters(b) == CASE b = 1 -> 3 [] b = 2 -> 2 [] OTHER -> 0

NotLoaded == [book |-> 0, current |-> 0, started |-> FALSE, path |-> 0, blob |-> 0]

Blobs == {i \in 1..Len(told) : told[i].kind = "blob"}
BlobChunk(b) == [kind |-> "blob", book |-> b, at |-> 0, started |-> FALSE]
StateChunk == [kind |-> "state", book |-> narration.path, at |-> narration.current,
               started |-> narration.started]
TextChunk == [kind |-> "text", book |-> narration.book, at |-> narration.current,
              started |-> TRUE]
CredentialsChunk(n) == [kind |-> "creds", book |-> 0, at |-> n, started |-> FALSE]

\* The other commands only publish a text about the state.
Commands == [verb : {"load"}, arg : Books] \cup [verb : {"chapter"}, arg : {2}]
                \cup [verb : {"next", "prev"}, arg : {0}]
NoCommand == [verb |-> "none", arg |-> 0]

GoesOn(from, to) == epStep = from /\ epStep' = to

-----------------------------------------------------------------------------
(* run_session: restore_state, the gate, the commands *)

\* Mutant of LatestState: the annotations are searched from the start of the history.
FirstState ==
    LET at == {i \in 1..Len(told) : told[i].kind = "state"}
    IN  IF at = {} THEN NotLoaded ELSE
        [NotLoaded EXCEPT !.path = told[Min(at)].book, !.current = told[Min(at)].at,
                          !.started = told[Min(at)].started]

\* The newest path, chapter and started annotations; they are always published together.
LatestState ==
    LET at == {i \in 1..Len(told) : told[i].kind = "state"}
    IN  IF at = {} THEN NotLoaded ELSE
        [NotLoaded EXCEPT !.path = told[Max(at)].book, !.current = told[Max(at)].at,
                          !.started = told[Max(at)].started]

\* The book as restore_state finds it: its last blob, if the binary store has all of it and
\* the request succeeds, and otherwise the file at the last path.
Found(blob, fetched) ==
    CASE fetched -> told[blob].book
      [] ~fetched /\ LatestState.path \in onDisk -> LatestState.path
      [] OTHER -> 0

EpRestores ==
    /\ GoesOn("restore", "gate")
    /\ IF Blobs = {} THEN UNCHANGED narration ELSE
       LET blob == Max(Blobs)
           number == Cardinality(Blobs)
           credentials == \E i \in 1..Len(told) : told[i].kind = "creds" /\ told[i].at = number
       IN \E fetched \in {FALSE} \cup {credentials /\ blobStore[number] = "whole"} :
             LET book == Found(blob, fetched)
             IN narration' = IF book = 0 THEN narration ELSE
                    [LatestState EXCEPT !.book = book, !.blob = number,
                                        !.current = Min({@, Max({Chapters(book) - 1, 0})})]
    /\ UNCHANGED <<told, cmd, uploadVars, userVars>>

\* HistoryComplete.
EpGateOpens ==
    /\ GoesOn("gate", "idle")
    /\ UNCHANGED <<told, narration, cmd, uploadVars, userVars>>

EpTakes(c) ==
    /\ asked < MaxCommands
    /\ asked' = asked + 1
    /\ GoesOn("idle", IF c.verb = "load" THEN "load" ELSE "move")
    /\ cmd' = c
    /\ UNCHANGED <<told, narration, uploadVars, onDisk, epCrashes>>

EpAnswers == epStep' = "idle" /\ cmd' = NoCommand

-----------------------------------------------------------------------------
(* handle_load *)

EpLoads ==
    /\ epStep = "load"
    /\ IF cmd.arg \in onDisk
       THEN /\ told' = Append(told, BlobChunk(cmd.arg))
            /\ due' = due \cup {Cardinality(Blobs) + 1}
            /\ blobStore' = Append(blobStore, "none")
            /\ epStep' = "set" /\ UNCHANGED cmd
       ELSE EpAnswers /\ UNCHANGED <<told, due, blobStore>>
    /\ UNCHANGED <<narration, posted, awaited, userVars>>

\* The new book from its first chapter on; started is left as it was.
EpSets ==
    /\ GoesOn("set", "state")
    /\ awaited' = awaited \cup {Cardinality(Blobs)}
    /\ narration' = [NotLoaded EXCEPT !.book = cmd.arg, !.path = cmd.arg, !.blob = Cardinality(Blobs),
                                    !.started = narration.started]
    /\ UNCHANGED <<told, cmd, due, posted, blobStore, userVars>>

\* publish_state_annotations, and the summary, or the request to cafe-tts.
EpPublishesState ==
    /\ epStep = "state"
    /\ told' = Append(told, StateChunk)
    /\ IF cmd.verb = "load" THEN EpAnswers ELSE epStep' = "tts" /\ UNCHANGED cmd
    /\ UNCHANGED <<narration, uploadVars, userVars>>

-----------------------------------------------------------------------------
(* handle_read and emit_tts *)

\* Mutant of NextChapter: off by one at the last chapter.
PastTheEnd ==
    CASE ~narration.started -> {narration.current}
      [] narration.started /\ narration.current < Chapters(narration.book) -> {narration.current + 1}
      [] OTHER -> {}

\* SessionState::next, prev and goto: the chapter to go to, if there is one.
NextChapter ==
    CASE ~narration.started -> {narration.current}
      [] narration.started /\ narration.current + 1 < Chapters(narration.book) -> {narration.current + 1}
      [] OTHER -> {}
PrevChapter == IF narration.started /\ narration.current > 0 THEN {narration.current - 1} ELSE {}
GivenChapter == {n \in {cmd.arg - 1} : n < Chapters(narration.book)}

Target ==
    CASE narration.book = 0 -> {}
      [] narration.book # 0 /\ cmd.verb = "next" -> NextChapter
      [] narration.book # 0 /\ cmd.verb = "prev" -> PrevChapter
      [] OTHER -> GivenChapter

EpMoves ==
    /\ epStep = "move"
    /\ IF Target = {}
       THEN EpAnswers /\ UNCHANGED narration
       ELSE /\ narration' = [narration EXCEPT !.current = CHOOSE n \in Target : TRUE, !.started = TRUE]
            /\ epStep' = "text" /\ UNCHANGED cmd
    /\ UNCHANGED <<told, uploadVars, userVars>>

\* "book is loaded": the task panics if it has no chapter there.
EpReads ==
    /\ epStep = "text"
    /\ IF narration.current < Chapters(narration.book)
       THEN told' = Append(told, TextChunk) /\ epStep' = "state"
       ELSE epStep' = "dead" /\ UNCHANGED told
    /\ UNCHANGED <<narration, cmd, uploadVars, userVars>>

\* The answer of cafe-tts, an error or 120 s without one: the command is done.
EpTtsEnds ==
    /\ epStep = "tts"
    /\ EpAnswers
    /\ UNCHANGED <<told, narration, uploadVars, userVars>>

-----------------------------------------------------------------------------
(* The upload, the user and crashes *)

\* The binary store answers the connection that published the blob.
EpCredentials(n) ==
    /\ due' = due \ {n} /\ posted' = posted \cup {n}
    /\ UNCHANGED <<told, narration, epStep, cmd, awaited, blobStore, userVars>>

\* Read between two commands; the bytes go out in a task of their own, ...
EpUploads(n) ==
    /\ epStep = "idle"
    /\ posted' = posted \ {n} /\ awaited' = awaited \ {n}
    /\ IF n \in awaited
       THEN /\ blobStore' = [blobStore EXCEPT ![n] = "partial"]
            /\ told' = Append(told, CredentialsChunk(n))
       ELSE UNCHANGED <<blobStore, told>>
    /\ UNCHANGED <<narration, epStep, cmd, due, userVars>>

\* ... which may end without all of them.
EpUploaded(n) ==
    /\ epStep # "restore"
    /\ blobStore[n] = "partial"
    /\ blobStore' = [blobStore EXCEPT ![n] = "whole"]
    /\ UNCHANGED <<told, narration, epStep, cmd, due, posted, awaited, userVars>>

FileGoes(p) ==
    /\ Cardinality(Books \ onDisk) < MaxGone
    /\ onDisk' = onDisk \ {p}
    /\ UNCHANGED <<told, narration, epStep, cmd, uploadVars, asked, epCrashes>>

\* The next process: its subscription is made before it looks at the history.
EpCrash ==
    /\ epCrashes < MaxEpCrashes
    /\ epCrashes' = epCrashes + 1
    /\ narration' = NotLoaded /\ epStep' = "restore" /\ cmd' = NoCommand
    /\ due' = {} /\ posted' = {} /\ awaited' = {}
    /\ UNCHANGED <<told, blobStore, onDisk, asked>>

-----------------------------------------------------------------------------

EpInit ==
    /\ told = <<>> /\ narration = NotLoaded /\ epStep = "restore" /\ cmd = NoCommand
    /\ due = {} /\ posted = {} /\ awaited = {} /\ blobStore = <<>>
    /\ onDisk = Books /\ asked = 0 /\ epCrashes = 0

EpNext ==
    \/ EpRestores \/ EpGateOpens \/ \E c \in Commands : EpTakes(c)
    \/ EpLoads \/ EpSets \/ EpPublishesState \/ EpMoves \/ EpReads \/ EpTtsEnds
    \/ \E n \in due : EpCredentials(n)
    \/ \E n \in posted : EpUploads(n)
    \/ \E n \in 1..Len(blobStore) : EpUploaded(n)
    \/ \E p \in onDisk : FileGoes(p)
    \/ EpCrash

EpSpec == EpInit /\ [][EpNext]_epVars

-----------------------------------------------------------------------------

EpTypeOK ==
    /\ narration.book \in {0} \cup Books /\ narration.path \in {0} \cup Books
    /\ narration.current \in 0..2 /\ narration.started \in BOOLEAN
    /\ epStep = "text" /\ Chapters(narration.book) # 0 => narration.current < Chapters(narration.book)
    /\ epStep \in {"restore", "gate", "idle", "load", "set", "state", "move", "text", "tts", "dead"}
    /\ due \cup posted \cup awaited \subseteq 1..Len(blobStore)
    /\ onDisk \subseteq Books /\ asked \in 0..MaxCommands /\ epCrashes \in 0..MaxEpCrashes

ToldAs(kind) == {i \in 1..Len(told) : told[i].kind = kind}

\* A process that starts again goes on with the book and at the place published last, as
\* long as the file is there or the blob was uploaded and can be fetched, ...
ResumesInPlace ==
    epStep = "restore" /\ epStep' = "gate" /\ ToldAs("state") # {} =>
        LET last == told[Max(ToldAs("state"))]
        IN  /\ last.book \in onDisk => narration'.book = last.book
            /\ narration'.book # 0 => /\ narration'.path = last.book /\ narration'.book = last.book
                                    /\ narration'.current = last.at
                                    /\ narration'.started = last.started

\* The place published last was published by a read, right after its text, or by a load,
\* right after its blob.
PublishedBy(kind) == told[Max(ToldAs("state")) - 1].kind = kind

NextReads == told' # told /\ told'[Len(told')].kind = "text" /\ cmd.verb = "next"

\* ... and !next reads the chapter at the place published last while nothing of the book was
\* read, and the one after it once one was read, wherever a crash, another book or a jump came
\* in between.  Left out is the first !next after a load by a process that has read before:
\* NextReadsFirst, below.
ReadsOn ==
    NextReads =>
        LET last == told[Max(ToldAs("state"))]
        IN  /\ ~last.started => told'[Len(told')].at = last.at
            /\ last.started /\ PublishedBy("text") => told'[Len(told')].at = last.at + 1

\* Reading goes on where the session says it is, after a crash and after any command.
NarrationResumes == [][ResumesInPlace /\ ReadsOn]_epVars

\* "!next right after !load must read chapter 1, not chapter 2": handle_load leaves started as
\* the book before it left it.
NextReadsFirst == [][NextReads /\ PublishedBy("blob") => told'[Len(told')].at = 0]_epVars

=============================================================================
