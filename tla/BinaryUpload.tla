---------------------------- MODULE BinaryUpload ----------------------------
(***************************************************************************)
(* One binary chunk in cafe-binary-store: the file, the .writing marker    *)
(* beside it and the row in the database.  The producer POSTs the parts of *)
(* the chunk, each once it has the answer to the one before, or again when *)
(* it got none; the handler works in many small steps and answers before   *)
(* the bytes are on the disk.  The end of the session, the GC and a DELETE *)
(* request remove the chunk, each in steps of its own, and after a start   *)
(* the removal of stale files runs next to the server.                     *)
(***************************************************************************)
EXTENDS Integers, Sequences, FiniteSets

CONSTANTS
    Parts,      \* how many parts the chunk is uploaded in
    MaxPosts,   \* bound on the requests
    MaxRemovals    \* bound on the restarts of the store, and on the deletions

ASSUME UploadAssumption == Parts \in Nat \ {0} /\ MaxPosts \in Nat /\ MaxRemovals \in Nat

VARIABLES
    file,       \* the inode at chunk_path, 0 if there is none
    inodes,     \* inodes[n]: the parts in the n-th file created, linked or not
    writing,    \* does the .writing marker exist?
    row,        \* is there a row in assets?
    transient,  \* is the chunk transient?
    posts,      \* the requests: part, step of the handler, inode it opened, its write
    acked,      \* the last part the producer has an answer "ok" for
    deleter,    \* the step of a deletion in progress
    cleanup,    \* the step of cleanup_stale_writes
    completed,  \* the inodes whose completion was published
    removed,    \* was the chunk deleted or cleaned up?
    overlapped, \* history: inodes that two uploads shared
    stops       \* restarts and deletions so far

upVars == <<file, inodes, writing, row, transient, posts, acked, deleter, cleanup,
            completed, removed, overlapped, stops>>
Files == <<file, inodes, writing, overlapped>>
reqVars == <<posts, acked, completed>>
Rest == <<row, transient, deleter, cleanup, removed, stops>>

Whole == 1..Parts
Req == DOMAIN posts

\* Mutant of ShouldFinalize: any first part ends the upload, whatever the producer says.
FinalizesFirst(part, last) == part = 1 \/ last

\* should_finalize: each part but the last comes with finalize=false.
ShouldFinalize(part, last) == last

At(r, step) == r \in Req /\ posts[r].step = step
Goto(r, step) == posts' = [posts EXCEPT ![r].step = step]

\* The parts of a file that are still being written, and those that never will be.
WritesTo(n, state) == {posts[r].part : r \in {q \in Req : posts[q].ino = n /\ posts[q].write = state}}

-----------------------------------------------------------------------------

\* The producer sends the next part, or starts over; it does not wait for ever.
Post(part) ==
    /\ Len(posts) < MaxPosts
    /\ acked < Parts
    /\ part \in {1, acked + 1}
    /\ posts' = Append(posts, [step |-> IF part = 1 THEN "start" ELSE "resume", part |-> part,
                               ino |-> 0, write |-> "none"])
    /\ UNCHANGED <<Files, acked, completed, Rest>>

\* A handler whose client has hung up is dropped where it waits, or answers nobody.
HangUp(r) ==
    /\ posts[r].step # "done"
    /\ Goto(r, "done")
    /\ UNCHANGED <<Files, acked, completed, Rest>>

\* start_write: 409 if the marker exists.
StartCheck(r) ==
    /\ At(r, "start")
    /\ Goto(r, IF writing THEN "done" ELSE "create")
    /\ UNCHANGED <<Files, acked, completed, Rest>>

\* Is there an upload to the path, or one that is over, that this start runs into?
Overlaps(r) ==
    \/ writing \/ acked = Parts
    \/ \E q \in Req \ {r} : posts[q].step \in {"mark", "open", "write", "finalize", "complete"}
    \/ file # 0 /\ WritesTo(file, "pending") # {}

\* fs::write creates the file, or empties the one there is.
StartCreate(r) ==
    /\ At(r, "create")
    /\ file' = IF file # 0 THEN file ELSE Len(inodes) + 1
    /\ inodes' = IF file # 0 THEN [inodes EXCEPT ![file] = {}] ELSE Append(inodes, {})
    /\ overlapped' = IF Overlaps(r) THEN overlapped \cup {file'} ELSE overlapped
    /\ Goto(r, "mark")
    /\ UNCHANGED <<writing, acked, completed, Rest>>

StartMark(r) ==
    /\ At(r, "mark")
    /\ writing' = TRUE
    /\ Goto(r, "open")
    /\ UNCHANGED <<file, inodes, overlapped, acked, completed, Rest>>

\* Mutant of Resumable: the file need not be as long as the offset.
ResumesAnywhere(part) == writing /\ file # 0

\* resume_write: the marker must exist and the file be as long as the offset.
Resumable(part) == writing /\ file # 0 /\ \E p \in inodes[file] : p >= part - 1

Resume(r) ==
    /\ At(r, "resume")
    /\ Goto(r, IF Resumable(posts[r].part) THEN "open" ELSE "done")
    /\ UNCHANGED <<Files, acked, completed, Rest>>

\* append opens the file: 500 if it is gone, 413 if the part is too large.
AppendOpen(r) ==
    /\ At(r, "open")
    /\ \/ file # 0 /\ posts' = [posts EXCEPT ![r].step = "write", ![r].ino = file]
       \/ Goto(r, "done")
    /\ UNCHANGED <<Files, acked, completed, Rest>>

\* write_all hands the bytes of the part to a thread and does not wait for it: the file is
\* never flushed.  They go to the file that was opened, linked or not.
AppendWrite(r) ==
    /\ At(r, "write")
    /\ LET ends == ShouldFinalize(posts[r].part, posts[r].part = Parts)
       IN  /\ posts' = [posts EXCEPT ![r].write = "pending", ![r].step = IF ends THEN "finalize" ELSE "done"]
           /\ acked' = IF ends \/ posts[r].part < acked THEN acked ELSE posts[r].part
    /\ UNCHANGED <<Files, completed, Rest>>

\* The thread has written them, or could not: nobody is told.
WriteLands(r) ==
    /\ posts[r].write = "pending"
    /\ posts' = [posts EXCEPT ![r].write = "landed"]
    /\ inodes' = [inodes EXCEPT ![posts[r].ino] = @ \cup {posts[r].part}]
    /\ UNCHANGED <<file, writing, overlapped, acked, completed, Rest>>

WriteFails(r) ==
    /\ posts[r].write = "pending"
    /\ posts' = [posts EXCEPT ![r].write = "lost"]
    /\ UNCHANGED <<Files, acked, completed, Rest>>

\* finalize removes the marker.
Finalize(r) ==
    /\ At(r, "finalize")
    /\ writing' = FALSE
    /\ Goto(r, "complete")
    /\ UNCHANGED <<file, inodes, overlapped, acked, completed, Rest>>

\* publish_completion, if the session is known from the request or from the row.
PublishCompletion(r) ==
    /\ At(r, "complete")
    /\ \/ completed' = completed \cup {posts[r].ino}
       \/ ~row /\ UNCHANGED completed
    /\ acked' = IF posts[r].part < acked THEN acked ELSE posts[r].part
    /\ Goto(r, "done")
    /\ UNCHANGED <<Files, Rest>>

-----------------------------------------------------------------------------

\* A deletion starts: the cascade of SessionDeleted, for a chunk that is not transient,
\* and the GC, for one that is, remove the row first, a DELETE request the file.
DeleteStart(by) ==
    /\ deleter = "none"
    /\ stops < MaxRemovals
    /\ by = "cascade" => row /\ ~transient
    /\ by = "gc" => row /\ transient
    /\ stops' = stops + 1
    /\ removed' = TRUE
    /\ row' = (row /\ by = "request")
    /\ deleter' = IF by = "request" THEN "request" ELSE "file"
    /\ UNCHANGED <<Files, transient, reqVars, cleanup>>

\* Storage::delete unlinks the file, then the marker.
DeleteFile ==
    /\ deleter \in {"file", "request"}
    /\ file' = 0
    /\ deleter' = IF deleter = "file" THEN "marker" ELSE "request marker"
    /\ UNCHANGED <<inodes, writing, overlapped, row, transient, reqVars, cleanup, removed, stops>>

DeleteMarker ==
    /\ deleter \in {"marker", "request marker"}
    /\ writing' = FALSE
    /\ row' = (row /\ deleter = "marker")
    /\ deleter' = "none"
    /\ UNCHANGED <<file, inodes, overlapped, transient, reqVars, cleanup, removed, stops>>

\* The store stops and starts again: requests, writes and deletions are cut off where they
\* are.
Restart ==
    /\ stops < MaxRemovals
    /\ stops' = stops + 1
    /\ posts' = [r \in Req |-> [posts[r] EXCEPT !.step = "done",
                                 !.write = IF @ = "pending" THEN "lost" ELSE @]]
    /\ deleter' = "none"
    /\ cleanup' = "scan"
    /\ UNCHANGED <<Files, row, transient, acked, completed, removed>>

\* cleanup_stale_writes finds the marker, or does not.
CleanupScan ==
    /\ cleanup = "scan"
    /\ cleanup' = IF writing THEN "marker" ELSE "none"
    /\ UNCHANGED <<Files, row, transient, reqVars, deleter, removed, stops>>

\* It removes the marker, then the file of that name.
CleanupMarker ==
    /\ cleanup = "marker"
    /\ cleanup' = "file"
    /\ writing' = FALSE
    /\ removed' = TRUE
    /\ UNCHANGED <<file, inodes, overlapped, row, transient, reqVars, deleter, stops>>

CleanupFile ==
    /\ cleanup = "file"
    /\ cleanup' = "none"
    /\ file' = 0
    /\ UNCHANGED <<inodes, writing, overlapped, row, transient, reqVars, deleter, removed, stops>>

\* After a restart the replay of the session announces the chunk again.
InsertAsset ==
    /\ ~row
    /\ ~transient
    /\ stops > 0
    /\ row' = TRUE
    /\ UNCHANGED <<Files, transient, reqVars, deleter, cleanup, removed, stops>>

-----------------------------------------------------------------------------

UpInit ==
    /\ file = 0 /\ inodes = <<>> /\ writing = FALSE /\ overlapped = {}
    /\ row = TRUE /\ transient \in BOOLEAN
    /\ posts = <<>> /\ acked = 0 /\ completed = {}
    /\ deleter = "none" /\ cleanup = "scan" /\ removed = FALSE /\ stops = 0

Handler(r) ==
    \/ StartCheck(r) \/ StartCreate(r) \/ StartMark(r) \/ Resume(r) \/ AppendOpen(r)
    \/ AppendWrite(r) \/ Finalize(r) \/ PublishCompletion(r)

Removal ==
    \/ \E by \in {"cascade", "gc", "request"} : DeleteStart(by)
    \/ DeleteFile \/ DeleteMarker
    \/ CleanupScan \/ CleanupMarker \/ CleanupFile

UpNext ==
    \/ \E part \in 1..Parts : Post(part)
    \/ \E r \in Req : Handler(r) \/ HangUp(r) \/ WriteLands(r) \/ WriteFails(r)
    \/ Removal \/ Restart \/ InsertAsset

UpSpec == UpInit /\ [][UpNext]_upVars

-----------------------------------------------------------------------------

UpTypeOK ==
    /\ file \in 0..Len(inodes) /\ \A n \in DOMAIN inodes : inodes[n] \subseteq Whole
    /\ \A r \in Req : posts[r].part \in Whole /\ posts[r].ino \in 0..Len(inodes)
    /\ acked \in 0..Parts /\ {writing, row, transient, removed} \subseteq BOOLEAN
    /\ completed \cup overlapped \subseteq DOMAIN inodes
    /\ stops \in 0..MaxRemovals

\* What was written to a file since it was last emptied, or is being written, or could not be.
Written(n) == inodes[n] \cup WritesTo(n, "pending") \cup WritesTo(n, "lost")

\* A file is announced as complete only when each part was written to it, which is all
\* that can be said: a write may still be under way or have failed.  Deletions, clean-ups,
\* restarts and repeated requests may run beside the upload; another upload may not.
CompletionIsTrue ==
    [][\A n \in completed' \ completed : n \in overlapped \/ Whole \subseteq Written(n)]_upVars

\* What the producer was told is stored was written to the file there is, each part of
\* it, and the file is there without its marker unless somebody deleted the chunk or a start
\* of the store cleaned it up; again, unless two uploads shared the file.
StoredIsWhole ==
    acked = Parts =>
        /\ file # 0 /\ file \notin overlapped => Whole \subseteq Written(file)
        /\ ~removed => file # 0 /\ (writing => file \in overlapped)

\* ADR-114: a file that is announced as complete can be read in full.  (It cannot: the
\* write of its last part is not waited for.)
CompletedIsReadable == [][\A n \in completed' \ completed : inodes[n] = Whole]_upVars

\* start_write: no start gets past the marker of another upload.  (Two that look for it at
\* the same time both do, and the slower one empties the file of the other.)
StartIsRefused == [][\A r \in Req : At(r, "create") /\ posts'[r].step = "mark" => ~writing]_upVars

=============================================================================
