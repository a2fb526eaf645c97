---------------------------- MODULE ServiceProofs ----------------------------
(***************************************************************************)
(* The services beside the bus, each with the invariant that makes it      *)
(* right, for any number of steps and any values of the bounds:            *)
(*                                                                         *)
(*   BinaryUpload  an upload to cafe-binary-store is announced as          *)
(*                 complete, and answered as stored, only when each part   *)
(*                 was written to the file, which may still be under way   *)
(*                 (CompletionIsTrue, StoredIsWhole);                      *)
(*   SdkClient     two ends of a connection speak one codec                *)
(*                 (CodecIsAgreed);                                        *)
(*   AgentFiles    the registry of agents follows the agent files, unless  *)
(*                 a file was not seen or two shared a name                *)
(*                 (AgentsFollowFiles);                                    *)
(*   JsCalls       an operation of a script tells its outcome once, and    *)
(*                 events act on the configuration of their time           *)
(*                 (CallsAreTold, EventsAreCurrent);                       *)
(*   EpubNarrator  a book is narrated on from the place that was told      *)
(*                 last (NarrationResumes).                                *)
(*                                                                         *)
(* The modules have no variable in common; the proofs stand side by side   *)
(* because none of them needs another.                                     *)
(***************************************************************************)
EXTENDS BinaryUpload, SdkClient, AgentFiles, JsCalls, EpubNarrator, FiniteSetTheorems,
        SequenceTheorems, WellFoundedInduction, TLAPS

------------------------------------------------------------------------------
(* Uploads to the binary store *)

Steps == {"start", "create", "mark", "resume", "open", "write", "finalize", "complete", "done"}
Writes == {"none", "pending", "landed", "lost"}
NotWritten == {"start", "create", "mark", "resume", "open", "write"}
Opened == {"write", "finalize", "complete"}
Past == {"mark", "open", "write", "finalize", "complete"}
Posted == [step : Steps, part : Whole, ino : Nat, write : Writes]
Inode == 1..Len(inodes)

\* Files are numbered in the order they were created, and hold parts of the chunk.
FilesOK ==
    /\ inodes \in Seq(SUBSET Whole)
    /\ file \in 0..Len(inodes)
    /\ overlapped \subseteq Inode /\ completed \subseteq Inode
    /\ acked \in 0..Parts

\* A request is about a part of the chunk, the first if it starts an upload, and writes it
\* once, to the file it opened.
PostOK(r) ==
    /\ posts[r] \in Posted
    /\ posts[r].ino \in 0..Len(inodes)
    /\ posts[r].step \in {"start", "create", "mark"} => posts[r].part = 1
    /\ posts[r].step \in NotWritten => posts[r].write = "none"
    /\ posts[r].step \in {"finalize", "complete"} => posts[r].part = Parts
    /\ posts[r].step \in Opened \/ posts[r].write # "none" => posts[r].ino \in Inode

PostsOK == posts \in Seq(Posted) /\ \A r \in Req : PostOK(r)

\* The parts up to p were all written to the n-th file.
Reaches(n, p) == \A k \in 1..p : k \in Written(n)

\* What is in a file, or on its way to it, comes with the parts before it.
NoHoles ==
    \A n \in Inode : n \notin overlapped =>
        /\ \A p \in inodes[n] : Reaches(n, p)
        /\ \A r \in Req : posts[r].ino = n /\ posts[r].write = "pending" => Reaches(n, posts[r].part)

\* Before a part is written the parts before it were; at the end all were.
InOrder(r) ==
    /\ posts[r].step = "open" /\ file # 0 /\ file \notin overlapped => Reaches(file, posts[r].part - 1)
    /\ posts[r].step = "write" /\ posts[r].ino \notin overlapped => Reaches(posts[r].ino, posts[r].part - 1)
    /\ posts[r].step \in {"finalize", "complete"} /\ posts[r].ino \notin overlapped =>
          Reaches(posts[r].ino, Parts)

\* The file that was opened is the one at the path, unless it was removed meanwhile.
StillLinked(r) ==
    posts[r].step \in Opened =>
        /\ file \in {0, posts[r].ino} \cup overlapped
        /\ ~removed => file = posts[r].ino

MarkerGone(r) == posts[r].step = "complete" => file \in {0} \cup overlapped \/ ~writing

\* A start that will set the marker is alone with its file, or shares it.
AloneOrShared(q) ==
    posts[q].step = "mark" =>
        \/ file \in {0} \cup overlapped
        \/ /\ ~writing /\ acked # Parts
           /\ \A r \in Req \ {q} : posts[r].step \notin Past

RequestsOK == \A r \in Req : InOrder(r) /\ StillLinked(r) /\ MarkerGone(r) /\ AloneOrShared(r)

\* Only what removes the chunk takes the file away.
RemovalIsKnown == (deleter # "none" \/ cleanup = "file" => removed = TRUE) /\ removed \in BOOLEAN

UpIInv == FilesOK /\ PostsOK /\ NoHoles /\ RequestsOK /\ RemovalIsKnown /\ StoredIsWhole

-----------------------------------------------------------------------------

\* What was written to a file, in one line.
LEMMA WrittenIs ==
    ASSUME NEW n, NEW p
    PROVE  p \in Written(n) <=>
             \/ p \in inodes[n]
             \/ \E r \in Req : posts[r].ino = n /\ posts[r].part = p /\ posts[r].write \in {"pending", "lost"}
BY DEF Written, WritesTo

\* At the start there is no file, no request and no answer.
LEMMA UpInitEstablishes == UpInit => UpIInv
<1> SUFFICES ASSUME UpInit PROVE UpIInv
  OBVIOUS
<1>1. inodes = <<>> /\ posts = <<>> /\ file = 0 /\ acked = 0 /\ overlapped = {} /\ completed = {}
  BY DEF UpInit
<1>2. Len(inodes) = 0 /\ Inode = {} /\ Req = {}
  BY <1>1 DEF Inode, Req
<1>3. FilesOK
  BY <1>1, <1>2, UploadAssumption DEF FilesOK
<1>4. PostsOK /\ NoHoles /\ RequestsOK
  BY <1>1, <1>2 DEF PostsOK, NoHoles, RequestsOK
<1>5. RemovalIsKnown
  BY DEF UpInit, RemovalIsKnown
<1>6. StoredIsWhole
  BY <1>1, UploadAssumption DEF StoredIsWhole
<1>. QED
  BY <1>3, <1>4, <1>5, <1>6 DEF UpIInv

\* Nothing that was written is forgotten.
NothingForgotten == \A n \in Inode : \A p \in Written(n) : (p \in Written(n))'

\* As long as nothing is forgotten and the chunk stays, or goes, what a request that did
\* not move relies on holds.
LEMMA OthersKeep ==
    ASSUME UpIInv, NothingForgotten, Len(inodes') = Len(inodes), UNCHANGED overlapped,
           file' = file \/ (file' = 0 /\ removed' = TRUE), removed' = TRUE \/ removed' = removed,
           writing' = writing \/ writing' = FALSE,
           NEW r \in Req, r \in Req', posts'[r] = posts[r]
    PROVE  InOrder(r)' /\ StillLinked(r)' /\ MarkerGone(r)'
<1>1. PostOK(r) /\ InOrder(r) /\ StillLinked(r) /\ MarkerGone(r) /\ FilesOK
  BY DEF UpIInv, PostsOK, RequestsOK
<1>2. \A n \in Inode : \A p : Reaches(n, p) => Reaches(n, p)'
  BY DEF NothingForgotten, Reaches
<1>3. InOrder(r)'
  BY <1>1, <1>2 DEF InOrder, PostOK, FilesOK, Inode, Opened
<1>4. StillLinked(r)'
  BY <1>1 DEF StillLinked
<1>5. MarkerGone(r)'
  BY <1>1 DEF MarkerGone
<1>. QED
  BY <1>3, <1>4, <1>5

\* A file gets no hole by what was on its way to it, or by what came after the parts
\* before it.
LEMMA NoHolesStay ==
    ASSUME NoHoles, Inode' = Inode, UNCHANGED overlapped, NothingForgotten,
           \A n \in Inode : \A p \in inodes'[n] :
               \/ p \in inodes[n]
               \/ \E r \in Req : posts[r].ino = n /\ posts[r].part = p /\ posts[r].write = "pending",
           \A r \in Req' : posts'[r].write = "pending" =>
               \/ r \in Req /\ posts[r].write = "pending" /\ posts'[r].ino = posts[r].ino
                  /\ posts'[r].part = posts[r].part
               \/ \A n \in Inode : posts'[r].ino = n /\ n \notin overlapped =>
                     \A k \in 1..posts'[r].part : (k \in Written(n))'
    PROVE  NoHoles'
<1> SUFFICES ASSUME NEW n \in Inode, n \notin overlapped
    PROVE  /\ \A p \in inodes'[n] : \A k \in 1..p : (k \in Written(n))'
           /\ \A r \in Req' : posts'[r].ino = n /\ posts'[r].write = "pending" =>
                 \A k \in 1..posts'[r].part : (k \in Written(n))'
  BY DEF NoHoles, Reaches
<1>1. \A p \in inodes[n] : \A k \in 1..p : (k \in Written(n))'
  BY DEF NoHoles, Reaches, NothingForgotten
<1>2. \A r \in Req : posts[r].ino = n /\ posts[r].write = "pending" =>
          \A k \in 1..posts[r].part : (k \in Written(n))'
  BY DEF NoHoles, Reaches, NothingForgotten
<1>. QED
  BY <1>1, <1>2

-----------------------------------------------------------------------------
(* What happens beside the handler *)

\* A removal, a cleanup or a replay takes the file away only once the chunk counts as
\* removed, never brings the marker back, and does not touch what the files hold.
LEMMA BesideKeeps ==
    ASSUME UpIInv, Removal \/ InsertAsset
    PROVE  UpIInv'
<1>1. UNCHANGED <<inodes, posts, acked, completed, overlapped>>
  BY DEF Removal, InsertAsset, DeleteStart, DeleteFile, DeleteMarker, CleanupScan, CleanupMarker,
      CleanupFile, Files, reqVars
<1>13. Req' = Req /\ Inode' = Inode /\ Len(inodes') = Len(inodes)
  BY <1>1 DEF Req, Inode
<1>2. RemovalIsKnown'
  BY DEF UpIInv, RemovalIsKnown, Removal, InsertAsset, DeleteStart, DeleteFile, DeleteMarker,
      CleanupScan, CleanupMarker, CleanupFile
<1>3. removed' = TRUE \/ removed' = removed
  BY DEF Removal, InsertAsset, DeleteStart, DeleteFile, DeleteMarker, CleanupScan, CleanupMarker,
      CleanupFile
<1>4. file' = file \/ (file' = 0 /\ removed = TRUE /\ removed' = removed)
  BY DEF UpIInv, RemovalIsKnown, Removal, InsertAsset, DeleteStart, DeleteFile, DeleteMarker,
      CleanupScan, CleanupMarker, CleanupFile, Files
<1>5. writing' = writing \/ writing' = FALSE
  BY DEF Removal, InsertAsset, DeleteStart, DeleteFile, DeleteMarker, CleanupScan, CleanupMarker,
      CleanupFile, Files
<1>6. /\ FilesOK /\ PostsOK /\ NoHoles /\ RequestsOK /\ StoredIsWhole
  BY DEF UpIInv
<1>7. \A n : Written(n)' = Written(n)
  BY <1>1, <1>13 DEF Written, WritesTo
<1>8. NothingForgotten /\ \A n, p : Reaches(n, p)' <=> Reaches(n, p)
  BY <1>7 DEF NothingForgotten, Reaches
<1>9. FilesOK' /\ PostsOK'
  BY <1>1, <1>4, <1>6, <1>13 DEF FilesOK, PostsOK, PostOK, Posted
<1>10. NoHoles'
  BY <1>1, <1>6, <1>8, <1>13 DEF NoHoles
<1>11. RequestsOK'
  <2> SUFFICES ASSUME NEW r \in Req PROVE (InOrder(r) /\ StillLinked(r) /\ MarkerGone(r) /\ AloneOrShared(r))'
    BY <1>13 DEF RequestsOK
  <2>1. InOrder(r)' /\ StillLinked(r)' /\ MarkerGone(r)'
    <3>1. posts'[r] = posts[r] /\ r \in Req' /\ (file' = file \/ (file' = 0 /\ removed' = TRUE))
      BY <1>1, <1>4, <1>13
    <3>. QED
      BY <1>1, <1>3, <1>5, <1>8, <1>13, <3>1, OthersKeep
  <2>2. AloneOrShared(r)'
    BY <1>1, <1>4, <1>5, <1>6, <1>13 DEF AloneOrShared, RequestsOK
  <2>. QED
    BY <2>1, <2>2
<1>12. StoredIsWhole'
  BY <1>1, <1>3, <1>4, <1>5, <1>6, <1>7 DEF StoredIsWhole
<1>. QED
  BY <1>2, <1>9, <1>10, <1>11, <1>12 DEF UpIInv

\* A restart leaves the files as they are and cuts everything off.
LEMMA RestartKeeps ==
    ASSUME UpIInv, Restart
    PROVE  UpIInv'
<1>1. /\ UNCHANGED <<file, inodes, writing, overlapped, acked, completed, removed>>
      /\ deleter' = "none" /\ cleanup' = "scan"
      /\ posts' = [r \in Req |-> [posts[r] EXCEPT !.step = "done", !.write = IF @ = "pending" THEN "lost" ELSE @]]
  BY DEF Restart, Files
<1>2. FilesOK /\ PostsOK /\ NoHoles /\ StoredIsWhole /\ RemovalIsKnown
  BY DEF UpIInv
<1>3. posts \in Seq(Posted) /\ \A r \in Req : posts[r] \in Posted
  BY <1>2 DEF PostsOK, PostOK
<1>4. /\ Req' = Req
      /\ \A r \in Req : /\ posts'[r] \in Posted
                        /\ posts'[r].part = posts[r].part /\ posts'[r].ino = posts[r].ino
                        /\ posts'[r].step = "done"
                        /\ posts'[r].write = IF posts[r].write = "pending" THEN "lost" ELSE posts[r].write
  BY <1>1, <1>3 DEF Req, Posted, Steps, Writes
<1>5. posts' \in Seq(Posted)
  <2>1. Req = 1..Len(posts) /\ Len(posts) \in Nat
    BY <1>3 DEF Req
  <2>2. posts' \in [1..Len(posts) -> Posted]
    BY <1>1, <1>4, <2>1
  <2>. QED
    BY <2>1, <2>2, SeqDef
<1>13. Inode' = Inode
  BY <1>1 DEF Inode
<1>6. \A n, p : p \in Written(n) <=> (p \in Written(n))'
  <2> TAKE n, p
  <2>1. p \in Written(n) <=> \/ p \in inodes[n]
                             \/ \E r \in Req : posts[r].ino = n /\ posts[r].part = p /\ posts[r].write \in {"pending", "lost"}
    BY WrittenIs
  <2>2. (p \in Written(n))' <=> \/ p \in inodes'[n]
                             \/ \E r \in Req' : posts'[r].ino = n /\ posts'[r].part = p /\ posts'[r].write \in {"pending", "lost"}
    BY DEF Written, WritesTo
  <2>3. \A r \in Req :
          (posts'[r].ino = n /\ posts'[r].part = p /\ posts'[r].write \in {"pending", "lost"})
            <=> (posts[r].ino = n /\ posts[r].part = p /\ posts[r].write \in {"pending", "lost"})
    BY <1>4
  <2>4. Req' = Req /\ inodes' = inodes
    BY <1>1, <1>4
  <2>. QED
    BY <2>1, <2>2, <2>3, <2>4
<1>7. \A n, p : Reaches(n, p)' <=> Reaches(n, p)
  BY <1>6 DEF Reaches
<1>8. FilesOK' /\ RemovalIsKnown'
  BY <1>1, <1>2 DEF FilesOK, Inode, RemovalIsKnown
<1>9. PostsOK'
  <2> SUFFICES ASSUME NEW r \in Req PROVE PostOK(r)'
    BY <1>4, <1>5 DEF PostsOK
  <2>1. PostOK(r) /\ "done" \notin NotWritten \cup Opened
    BY <1>2 DEF PostsOK, NotWritten, Opened
  <2>2. posts'[r].write # "none" => posts[r].write # "none"
    BY <1>4
  <2>3. posts'[r].ino \in 0..Len(inodes') /\ (posts'[r].write # "none" => posts'[r].ino \in Inode')
    <3>1. inodes' = inodes
      BY <1>1
    <3>. QED
      BY <1>4, <1>13, <2>1, <2>2, <3>1 DEF PostOK
  <2>. QED
    BY <1>4, <2>1, <2>3 DEF PostOK
<1>10. NoHoles'
  <2>1. NothingForgotten
    BY <1>6 DEF NothingForgotten
  <2>2. \A r \in Req' : posts'[r].write # "pending"
    BY <1>4
  <2>3. \A n \in Inode : \A p \in inodes'[n] : p \in inodes[n]
    BY <1>1
  <2>4. UNCHANGED overlapped
    BY <1>1
  <2>. QED
    BY <1>2, <1>13, <2>1, <2>2, <2>3, <2>4, NoHolesStay
<1>11. RequestsOK'
  BY <1>4 DEF RequestsOK, InOrder, StillLinked, MarkerGone, AloneOrShared, Opened
<1>12. StoredIsWhole'
  BY <1>1, <1>2, <1>6 DEF StoredIsWhole, Whole
<1>. QED
  BY <1>8, <1>9, <1>10, <1>11, <1>12 DEF UpIInv

\* A new request has done nothing yet.
LEMMA PostKeeps ==
    ASSUME UpIInv, NEW part \in 1..Parts, Post(part)
    PROVE  UpIInv'
<1> DEFINE new == [step |-> IF part = 1 THEN "start" ELSE "resume", part |-> part, ino |-> 0, write |-> "none"]
<1>1. /\ UNCHANGED <<file, inodes, writing, overlapped, acked, completed, removed, deleter, cleanup>>
      /\ posts' = Append(posts, new) /\ acked # Parts
  BY UploadAssumption DEF Post, Files, Rest, UpIInv, FilesOK
<1>2. FilesOK /\ PostsOK /\ NoHoles /\ RequestsOK /\ StoredIsWhole /\ RemovalIsKnown
  BY DEF UpIInv
<1>3. /\ new \in Posted /\ new.part = part /\ new.ino = 0 /\ new.write = "none"
      /\ new.step \in {"start", "resume"} /\ (new.step = "start" => part = 1)
  BY DEF Posted, Steps, Writes, Whole
<1> HIDE DEF new
<1> DEFINE k == Len(posts) + 1
<1>4. /\ posts \in Seq(Posted) /\ Req = 1..Len(posts) /\ Req' = Req \cup {k} /\ k \notin Req
      /\ posts' \in Seq(Posted) /\ posts'[k] = new /\ \A r \in Req : posts'[r] = posts[r]
  BY <1>1, <1>2, <1>3 DEF PostsOK, Req
<1> HIDE DEF k
<1>12. Inode' = Inode /\ Len(inodes') = Len(inodes)
  BY <1>1 DEF Inode
<1>5. \A n, p : p \in Written(n) <=> (p \in Written(n))'
  <2> TAKE n, p
  <2>1. p \in Written(n) <=> \/ p \in inodes[n]
                             \/ \E r \in Req : posts[r].ino = n /\ posts[r].part = p /\ posts[r].write \in {"pending", "lost"}
    BY WrittenIs
  <2>2. (p \in Written(n))' <=> \/ p \in inodes'[n]
                             \/ \E r \in Req' : posts'[r].ino = n /\ posts'[r].part = p /\ posts'[r].write \in {"pending", "lost"}
    BY DEF Written, WritesTo
  <2>3. posts'[k].write = "none" /\ inodes' = inodes
    BY <1>1, <1>3, <1>4
  <2>4. Req' = Req \cup {k} /\ \A r \in Req : posts'[r] = posts[r]
    BY <1>4
  <2>. QED
    BY <2>1, <2>2, <2>3, <2>4
<1>6. NothingForgotten /\ \A n, p : Reaches(n, p)' <=> Reaches(n, p)
  BY <1>5 DEF NothingForgotten, Reaches
<1>7. FilesOK' /\ RemovalIsKnown'
  BY <1>1, <1>2 DEF FilesOK, Inode, RemovalIsKnown
<1>8. PostsOK'
  <2> SUFFICES ASSUME NEW r \in Req' PROVE PostOK(r)'
    BY <1>4 DEF PostsOK
  <2>1. CASE r = k
    <3>1. Len(inodes) \in Nat
      BY <1>2 DEF FilesOK
    <3>. QED
      <4>1. posts'[r] = new
        BY <1>4, <2>1
      <4>2. 0 \in 0..Len(inodes')
        BY <1>12, <3>1
      <4>3. new.step \notin {"finalize", "complete"} \cup Opened /\ (new.step \in {"start", "create", "mark"} => new.part = 1)
        BY <1>3 DEF Opened
      <4>. QED
        BY <1>3, <4>1, <4>2, <4>3 DEF PostOK
  <2>2. CASE r \in Req
    BY <1>1, <1>2, <1>4, <2>2 DEF PostsOK, PostOK, Inode
  <2>. QED
    BY <1>4, <2>1, <2>2
<1>9. NoHoles'
  BY <1>1, <1>2, <1>3, <1>4, <1>6, <1>12, NoHolesStay
<1>10. RequestsOK'
  <2> SUFFICES ASSUME NEW r \in Req' PROVE (InOrder(r) /\ StillLinked(r) /\ MarkerGone(r) /\ AloneOrShared(r))'
    BY DEF RequestsOK
  <2>1. CASE r = k
    BY <1>3, <1>4, <2>1 DEF InOrder, StillLinked, MarkerGone, AloneOrShared, Opened
  <2>2. CASE r \in Req
    <3>1. InOrder(r)' /\ StillLinked(r)' /\ MarkerGone(r)'
      <4>1. posts'[r] = posts[r] /\ r \in Req'
        BY <1>4, <2>2
      <4>. QED
        BY <1>1, <1>6, <1>12, <2>2, <4>1, OthersKeep
    <3>2. AloneOrShared(r)'
      <4>1. AloneOrShared(r)
        BY <1>2, <2>2 DEF RequestsOK
      <4>2. posts'[k].step \notin Past
        BY <1>3, <1>4 DEF Past
      <4>3. Req' = Req \cup {k} /\ \A q \in Req : posts'[q] = posts[q]
        BY <1>4
      <4>4. UNCHANGED <<file, overlapped, writing, acked>>
        BY <1>1
      <4>. QED
        BY <2>2, <4>1, <4>2, <4>3, <4>4 DEF AloneOrShared
    <3>. QED
      BY <3>1, <3>2
  <2>. QED
    BY <1>4, <2>1, <2>2
<1>11. StoredIsWhole'
  BY <1>1, UploadAssumption DEF StoredIsWhole
<1>. QED
  BY <1>7, <1>8, <1>9, <1>10, <1>11 DEF UpIInv

-----------------------------------------------------------------------------
(* The handler *)

\* A request that goes on is the one that changes.
LEMMA GotoIs ==
    ASSUME PostsOK, NEW r \in Req, NEW step \in Steps, Goto(r, step)
    PROVE  /\ posts' \in Seq(Posted) /\ Req' = Req
           /\ \A q \in Req \ {r} : posts'[q] = posts[q]
           /\ \A q \in Req : /\ posts'[q].part = posts[q].part /\ posts'[q].ino = posts[q].ino
                             /\ posts'[q].write = posts[q].write
           /\ posts'[r].step = step /\ posts'[r] \in Posted
<1> DEFINE c == [posts[r] EXCEPT !.step = step]
<1>1. posts \in Seq(Posted) /\ posts[r] \in Posted
  BY DEF PostsOK, PostOK
<1>2. /\ c \in Posted /\ c.step = step
      /\ c.part = posts[r].part /\ c.ino = posts[r].ino /\ c.write = posts[r].write
  BY <1>1 DEF Posted
<1>3. posts' = [posts EXCEPT ![r] = c]
  BY DEF Goto
<1> HIDE DEF c
<1>4. posts' \in Seq(Posted) /\ Req' = Req /\ posts'[r] = c /\ \A q \in Req \ {r} : posts'[q] = posts[q]
  BY <1>1, <1>2, <1>3 DEF Req
<1>. QED
  BY <1>2, <1>4

\* Requests that keep what they wrote forget nothing.
LEMMA KeepsWrites ==
    ASSUME UNCHANGED inodes, Req' = Req,
           \A q \in Req : posts[q].write \in {"pending", "lost"} =>
               posts'[q].part = posts[q].part /\ posts'[q].ino = posts[q].ino /\ posts'[q].write \in {"pending", "lost"}
    PROVE  NothingForgotten
<1> SUFFICES ASSUME NEW n \in Inode, NEW p \in Written(n) PROVE (p \in Written(n))'
  BY DEF NothingForgotten
<1>1. (p \in Written(n))' <=>
         \/ p \in inodes'[n]
         \/ \E q \in Req' : posts'[q].ino = n /\ posts'[q].part = p /\ posts'[q].write \in {"pending", "lost"}
  BY DEF Written, WritesTo
<1>. QED
  BY <1>1, WrittenIs

\* What is left to show of a step in which one request moves and nothing else does.
LEMMA MoveKeeps ==
    ASSUME UpIInv, UNCHANGED <<file, inodes, writing, overlapped, acked, completed, removed, deleter, cleanup>>,
           NEW r \in Req, Req' = Req, posts' \in Seq(Posted), \A q \in Req \ {r} : posts'[q] = posts[q],
           posts[r].write \in {"pending", "lost"} =>
               posts'[r].part = posts[r].part /\ posts'[r].ino = posts[r].ino /\ posts'[r].write \in {"pending", "lost"},
           posts'[r].write = "pending" =>
               posts[r].write = "pending" /\ posts'[r].ino = posts[r].ino /\ posts'[r].part = posts[r].part,
           PostOK(r)', InOrder(r)', StillLinked(r)', MarkerGone(r)', AloneOrShared(r)',
           posts'[r].step \in Past => writing \/ posts[r].step \in Past
    PROVE  UpIInv'
<1>1. FilesOK /\ PostsOK /\ NoHoles /\ RequestsOK /\ StoredIsWhole /\ RemovalIsKnown
  BY DEF UpIInv
<1>2. Inode' = Inode /\ Len(inodes') = Len(inodes)
  BY DEF Inode
<1>3. NothingForgotten
  <2>1. \A q \in Req : posts[q].write \in {"pending", "lost"} =>
               posts'[q].part = posts[q].part /\ posts'[q].ino = posts[q].ino /\ posts'[q].write \in {"pending", "lost"}
    OBVIOUS
  <2>. QED
    BY <2>1, KeepsWrites
<1>4. FilesOK' /\ RemovalIsKnown'
  BY <1>1, <1>2 DEF FilesOK, RemovalIsKnown
<1>5. PostsOK'
  BY <1>1, <1>2 DEF PostsOK, PostOK
<1>6. NoHoles'
  <2>1. \A q \in Req' : posts'[q].write = "pending" =>
            q \in Req /\ posts[q].write = "pending" /\ posts'[q].ino = posts[q].ino /\ posts'[q].part = posts[q].part
    OBVIOUS
  <2>. QED
    BY <1>1, <1>2, <1>3, <2>1, NoHolesStay
<1>7. RequestsOK'
  <2> SUFFICES ASSUME NEW q \in Req, q # r
      PROVE (InOrder(q) /\ StillLinked(q) /\ MarkerGone(q) /\ AloneOrShared(q))'
    BY DEF RequestsOK
  <2>1. InOrder(q)' /\ StillLinked(q)' /\ MarkerGone(q)'
    BY <1>2, <1>3, OthersKeep
  <2>2. AloneOrShared(q)'
    BY <1>1 DEF AloneOrShared, RequestsOK
  <2>. QED
    BY <2>1, <2>2
<1>8. StoredIsWhole'
  <2>1. file # 0 => file \in Inode
    BY <1>1 DEF FilesOK, Inode
  <2>. QED
    BY <1>1, <1>3, <2>1 DEF StoredIsWhole, NothingForgotten
<1>. QED
  BY <1>4, <1>5, <1>6, <1>7, <1>8 DEF UpIInv

\* A request that is over, or waits to open the file, has nothing to show but that.
LEMMA GotoKeeps ==
    ASSUME UpIInv, UNCHANGED <<file, inodes, writing, overlapped, acked, completed, removed, deleter, cleanup>>,
           NEW r \in Req, NEW step \in {"create", "open", "done"}, Goto(r, step),
           step = "create" => posts[r].step = "start",
           step = "open" => posts[r].step = "resume" /\ Resumable(posts[r].part)
    PROVE  UpIInv'
<1>1. FilesOK /\ PostsOK /\ NoHoles /\ PostOK(r)
  BY DEF UpIInv, PostsOK
<1>2. step \in Steps
  BY DEF Steps
<1>3. /\ posts' \in Seq(Posted) /\ Req' = Req
      /\ \A q \in Req \ {r} : posts'[q] = posts[q]
      /\ \A q \in Req : /\ posts'[q].part = posts[q].part /\ posts'[q].ino = posts[q].ino
                        /\ posts'[q].write = posts[q].write
      /\ posts'[r].step = step /\ posts'[r] \in Posted
  BY <1>1, <1>2, GotoIs
<1>4. PostOK(r)'
  BY <1>1, <1>3 DEF PostOK, NotWritten, Opened, Inode
<1>5. InOrder(r)'
  <2>1. CASE step = "open"
    <3>1. posts[r].part \in Nat /\ file \in Inode /\ \E p \in inodes[file] : p >= posts[r].part - 1
      BY <1>1, <2>1 DEF Resumable, FilesOK, Inode, PostOK, Posted, Whole
    <3>2. PICK p \in inodes[file] : p >= posts[r].part - 1
      BY <3>1
    <3>3. p \in Nat
      BY <1>1, <3>1 DEF FilesOK, Inode, Whole
    <3>4. file \notin overlapped => Reaches(file, posts[r].part - 1)
      BY <1>1, <3>1, <3>2, <3>3 DEF NoHoles, Reaches
    <3>5. NothingForgotten
      BY <1>3, KeepsWrites
    <3>6. file \notin overlapped => \A k \in 1..posts[r].part - 1 : (k \in Written(file))'
      BY <3>1, <3>4, <3>5 DEF NothingForgotten, Reaches
    <3>. QED
      BY <1>3, <2>1, <3>6 DEF InOrder, Reaches
  <2>2. CASE step # "open"
    BY <1>3, <2>2 DEF InOrder
  <2>. QED
    BY <2>1, <2>2
<1>6. StillLinked(r)' /\ MarkerGone(r)' /\ AloneOrShared(r)'
  BY <1>3 DEF StillLinked, MarkerGone, AloneOrShared, Opened
<1>7. posts'[r].step \in Past => writing \/ posts[r].step \in Past
  BY <1>3 DEF Past, Resumable
<1>. QED
  BY <1>1, <1>3, <1>4, <1>5, <1>6, <1>7, MoveKeeps

\* append opens the file at the path, with the parts before this one in it.
LEMMA OpenKeeps ==
    ASSUME UpIInv, NEW r \in Req, AppendOpen(r)
    PROVE  UpIInv'
<1>1. /\ UNCHANGED <<file, inodes, writing, overlapped, acked, completed, removed, deleter, cleanup>>
      /\ posts[r].step = "open"
  BY DEF AppendOpen, At, Files, Rest
<1>2. CASE Goto(r, "done")
  BY <1>1, <1>2, GotoKeeps
<1>3. CASE file # 0 /\ posts' = [posts EXCEPT ![r].step = "write", ![r].ino = file]
  <2> DEFINE c == [posts[r] EXCEPT !.step = "write", !.ino = file]
  <2>1. FilesOK /\ PostsOK /\ PostOK(r) /\ InOrder(r) /\ StillLinked(r)
    BY DEF UpIInv, PostsOK, RequestsOK
  <2>2. file \in Inode /\ file \in Nat
    BY <1>3, <2>1 DEF FilesOK, Inode
  <2>3. /\ c \in Posted /\ c.step = "write" /\ c.ino = file
        /\ c.part = posts[r].part /\ c.write = "none"
    BY <1>1, <2>1, <2>2 DEF PostOK, Posted, Steps, NotWritten
  <2>4. posts' = [posts EXCEPT ![r] = c]
    BY <1>3
  <2> HIDE DEF c
  <2>5. posts' \in Seq(Posted) /\ Req' = Req /\ posts'[r] = c /\ \A q \in Req \ {r} : posts'[q] = posts[q]
    BY <2>1, <2>3, <2>4 DEF Req, PostsOK
  <2>6. PostOK(r)'
    BY <1>1, <2>2, <2>3, <2>5 DEF PostOK, Opened, Inode
  <2>7. NothingForgotten
    <3>1. posts[r].write = "none"
      BY <1>1, <2>1 DEF PostOK, NotWritten
    <3>. QED
      BY <1>1, <2>5, <3>1, KeepsWrites
  <2>8. InOrder(r)'
    <3>1. file \notin overlapped => Reaches(file, posts[r].part - 1)
      BY <1>1, <1>3, <2>1 DEF InOrder
    <3>2. PICK n : n = file
      OBVIOUS
    <3>3. n \notin overlapped => \A k \in 1..posts[r].part - 1 : (k \in Written(n))'
      BY <2>2, <2>7, <3>1, <3>2 DEF NothingForgotten, Reaches
    <3>. QED
      BY <1>1, <2>3, <2>5, <3>2, <3>3 DEF InOrder, Reaches
  <2>9. StillLinked(r)' /\ MarkerGone(r)' /\ AloneOrShared(r)'
    BY <1>1, <2>3, <2>5 DEF StillLinked, MarkerGone, AloneOrShared
  <2>10. posts[r].step \in Past
    BY <1>1 DEF Past
  <2>11. posts[r].write = "none" /\ posts'[r].write = "none"
    BY <1>1, <2>1, <2>3, <2>5 DEF PostOK, NotWritten
  <2>. QED
    BY <1>1, <2>5, <2>6, <2>8, <2>9, <2>10, <2>11, MoveKeeps
<1>. QED
  BY <1>2, <1>3 DEF AppendOpen

\* A write that fails is not forgotten, and no file gets a hole by it that it had not.
LEMMA FailsKeeps ==
    ASSUME UpIInv, NEW r \in Req, WriteFails(r)
    PROVE  UpIInv'
<1> DEFINE c == [posts[r] EXCEPT !.write = "lost"]
<1>1. /\ UNCHANGED <<file, inodes, writing, overlapped, acked, completed, removed, deleter, cleanup>>
      /\ posts[r].write = "pending"
  BY DEF WriteFails, Files, Rest
<1>2. FilesOK /\ PostsOK /\ PostOK(r) /\ InOrder(r) /\ StillLinked(r) /\ MarkerGone(r) /\ AloneOrShared(r)
  BY DEF UpIInv, PostsOK, RequestsOK
<1>3. c \in Posted /\ c.step = posts[r].step /\ c.ino = posts[r].ino /\ c.part = posts[r].part /\ c.write = "lost"
  BY <1>2 DEF PostOK, Posted, Writes
<1>4. posts' = [posts EXCEPT ![r] = c]
  BY DEF WriteFails
<1> HIDE DEF c
<1>5. posts' \in Seq(Posted) /\ Req' = Req /\ posts'[r] = c /\ \A q \in Req \ {r} : posts'[q] = posts[q]
  BY <1>2, <1>3, <1>4 DEF Req, PostsOK
<1>6. PostOK(r)'
  BY <1>1, <1>2, <1>3, <1>5 DEF PostOK, Inode
<1>7. NothingForgotten
  BY <1>1, <1>3, <1>5, KeepsWrites
<1>8. InOrder(r)'
  <2>1. posts[r].step \notin NotWritten
    BY <1>1, <1>2 DEF PostOK
  <2>2. CASE posts[r].step \in {"finalize", "complete"} /\ posts[r].ino \notin overlapped
    <3>1. Reaches(posts[r].ino, Parts) /\ posts[r].ino \in Inode
      BY <1>2, <2>2 DEF InOrder, PostOK, Opened
    <3>3. PICK m : m = posts[r].ino
      OBVIOUS
    <3>4. \A k \in 1..Parts : (k \in Written(m))'
      BY <1>7, <3>1, <3>3 DEF NothingForgotten, Reaches
    <3>. QED
      BY <1>1, <1>3, <1>5, <2>1, <3>3, <3>4 DEF InOrder, Reaches, NotWritten
  <2>3. CASE ~(posts[r].step \in {"finalize", "complete"} /\ posts[r].ino \notin overlapped)
    BY <1>1, <1>3, <1>5, <2>1, <2>3 DEF InOrder, NotWritten
  <2>. QED
    BY <2>2, <2>3
<1>9. StillLinked(r)' /\ MarkerGone(r)' /\ AloneOrShared(r)'
  BY <1>1, <1>2, <1>3, <1>5 DEF StillLinked, MarkerGone, AloneOrShared
<1>10. posts'[r].step = posts[r].step
  BY <1>3, <1>5
<1>. QED
  BY <1>1, <1>3, <1>5, <1>6, <1>8, <1>9, <1>10, MoveKeeps

\* A write that lands is in the file it was on its way to.
LEMMA LandsKeeps ==
    ASSUME UpIInv, NEW r \in Req, WriteLands(r)
    PROVE  UpIInv'
<1> DEFINE c == [posts[r] EXCEPT !.write = "landed"]
<1>1. /\ UNCHANGED <<file, writing, overlapped, acked, completed, removed, deleter, cleanup>>
      /\ posts[r].write = "pending"
      /\ inodes' = [inodes EXCEPT ![posts[r].ino] = @ \cup {posts[r].part}]
  BY DEF WriteLands, Rest
<1>2. FilesOK /\ PostsOK /\ NoHoles /\ RequestsOK /\ StoredIsWhole /\ RemovalIsKnown /\ PostOK(r)
  BY DEF UpIInv, PostsOK
<1>3. c \in Posted /\ c.step = posts[r].step /\ c.ino = posts[r].ino /\ c.part = posts[r].part /\ c.write = "landed"
  BY <1>2 DEF PostOK, Posted, Writes
<1>4. posts' = [posts EXCEPT ![r] = c]
  BY DEF WriteLands
<1> HIDE DEF c
<1>5. /\ posts' \in Seq(Posted) /\ Req' = Req
      /\ posts'[r] = c /\ \A q \in Req \ {r} : posts'[q] = posts[q]
  BY <1>2, <1>3, <1>4 DEF Req, PostsOK
<1>6. posts[r].ino \in 1..Len(inodes) /\ posts[r].part \in Whole /\ inodes \in Seq(SUBSET Whole)
  BY <1>1, <1>2 DEF PostOK, Posted, FilesOK, Inode
<1>7. /\ inodes' \in Seq(SUBSET Whole) /\ Len(inodes') = Len(inodes) /\ Inode' = Inode
      /\ \A n \in Inode : n # posts[r].ino => inodes'[n] = inodes[n]
      /\ posts[r].ino \in Inode => inodes'[posts[r].ino] = inodes[posts[r].ino] \cup {posts[r].part}
  <2>1. PICK i, p : i = posts[r].ino /\ p = posts[r].part
    OBVIOUS
  <2>2. inodes' = [inodes EXCEPT ![i] = inodes[i] \cup {p}] /\ inodes[i] \cup {p} \in SUBSET Whole
    BY <1>1, <1>6, <2>1
  <2>3. PICK s : s = inodes[i] \cup {p}
    OBVIOUS
  <2>4. /\ inodes' \in Seq(SUBSET Whole) /\ Len(inodes') = Len(inodes)
        /\ inodes'[i] = s /\ \A n \in 1..Len(inodes) : n # i => inodes'[n] = inodes[n]
    BY <1>6, <2>1, <2>2, <2>3
  <2>. QED
    BY <1>6, <2>1, <2>3, <2>4 DEF Inode
<1>8. NothingForgotten
  <2> SUFFICES ASSUME NEW n \in Inode, NEW p \in Written(n) PROVE (p \in Written(n))'
    BY DEF NothingForgotten
  <2>1. (p \in Written(n))' <=>
         \/ p \in inodes'[n]
         \/ \E q \in Req' : posts'[q].ino = n /\ posts'[q].part = p /\ posts'[q].write \in {"pending", "lost"}
    BY DEF Written, WritesTo
  <2>2. CASE p \in inodes[n]
    BY <1>7, <2>1, <2>2
  <2>3. CASE \E q \in Req : posts[q].ino = n /\ posts[q].part = p /\ posts[q].write \in {"pending", "lost"}
    BY <1>5, <1>7, <2>1, <2>3
  <2>. QED
    BY <2>2, <2>3, WrittenIs
<1>9. FilesOK' /\ RemovalIsKnown'
  BY <1>1, <1>2, <1>7 DEF FilesOK, RemovalIsKnown
<1>10. PostOK(r)'
  BY <1>2, <1>1, <1>3, <1>5, <1>7 DEF PostOK, NotWritten
<1>11. PostsOK'
  BY <1>2, <1>5, <1>7, <1>10 DEF PostsOK, PostOK
<1>12. NoHoles'
  <2>1. \A n \in Inode : \A p \in inodes'[n] :
               \/ p \in inodes[n]
               \/ \E q \in Req : posts[q].ino = n /\ posts[q].part = p /\ posts[q].write = "pending"
    BY <1>1, <1>7
  <2>2. \A q \in Req' : posts'[q].write = "pending" =>
            q \in Req /\ posts[q].write = "pending" /\ posts'[q].ino = posts[q].ino /\ posts'[q].part = posts[q].part
    BY <1>3, <1>5
  <2>. QED
    BY <1>1, <1>2, <1>7, <1>8, <2>1, <2>2, NoHolesStay
<1>13. RequestsOK'
  <2> SUFFICES ASSUME NEW q \in Req
      PROVE (InOrder(q) /\ StillLinked(q) /\ MarkerGone(q) /\ AloneOrShared(q))'
    BY <1>5 DEF RequestsOK
  <2>1. posts'[q].step = posts[q].step /\ posts'[q].ino = posts[q].ino /\ posts'[q].part = posts[q].part
    BY <1>3, <1>5
  <2>2. \A p \in Req : posts'[p].step = posts[p].step
    BY <1>3, <1>5
  <2>3. StillLinked(q)' /\ MarkerGone(q)' /\ AloneOrShared(q)'
    BY <1>1, <1>2, <1>5, <2>1, <2>2 DEF RequestsOK, StillLinked, MarkerGone, AloneOrShared
  <2>4. InOrder(q)'
    <3>1. PICK n : n = posts[q].ino
      OBVIOUS
    <3>2. InOrder(q) /\ PostOK(q) /\ (file # 0 => file \in Inode)
      BY <1>2 DEF RequestsOK, PostsOK, FilesOK, Inode
    <3>3. \A m \in Inode : \A p : Reaches(m, p) => Reaches(m, p)'
      BY <1>8 DEF NothingForgotten, Reaches
    <3>. QED
      BY <1>1, <2>1, <3>1, <3>2, <3>3 DEF InOrder, PostOK, Opened, Reaches
  <2>. QED
    BY <2>3, <2>4
<1>14. StoredIsWhole'
  <2>1. file # 0 => file \in Inode
    BY <1>2 DEF FilesOK, Inode
  <2>. QED
    BY <1>1, <1>2, <1>8, <2>1 DEF StoredIsWhole, NothingForgotten
<1>. QED
  BY <1>9, <1>11, <1>12, <1>13, <1>14 DEF UpIInv

\* The part is handed over after the parts before it; the last one makes the file whole.
LEMMA WriteKeeps ==
    ASSUME UpIInv, NEW r \in Req, AppendWrite(r)
    PROVE  UpIInv'
<1> DEFINE ends == posts[r].part = Parts
           c == [posts[r] EXCEPT !.write = "pending", !.step = IF ends THEN "finalize" ELSE "done"]
<1>1. /\ UNCHANGED <<file, inodes, writing, overlapped, completed, removed, deleter, cleanup>>
      /\ posts[r].step = "write"
      /\ acked' = IF ends \/ posts[r].part < acked THEN acked ELSE posts[r].part
      /\ posts' = [posts EXCEPT ![r] = c]
  BY DEF AppendWrite, At, Files, Rest, ShouldFinalize
<1>2. /\ FilesOK /\ PostsOK /\ NoHoles /\ RequestsOK /\ StoredIsWhole /\ RemovalIsKnown
      /\ PostOK(r) /\ InOrder(r) /\ StillLinked(r)
  BY DEF UpIInv, PostsOK, RequestsOK
<1>3. /\ c \in Posted /\ c.ino = posts[r].ino /\ c.part = posts[r].part /\ c.write = "pending"
      /\ c.step = IF ends THEN "finalize" ELSE "done"
  BY <1>2 DEF PostOK, Posted, Writes, Steps
<1> HIDE DEF c
<1>4. posts' \in Seq(Posted) /\ Req' = Req /\ posts'[r] = c /\ \A q \in Req \ {r} : posts'[q] = posts[q]
  BY <1>1, <1>2, <1>3 DEF Req, PostsOK
<1>5. PICK n, p : n = posts[r].ino /\ p = posts[r].part
  OBVIOUS
<1>6. p \in Whole /\ n \in Inode /\ posts[r].write = "none" /\ (n \notin overlapped => Reaches(n, p - 1))
  BY <1>1, <1>2, <1>5 DEF PostOK, Posted, Opened, NotWritten, InOrder
<1>7. Inode' = Inode /\ Len(inodes') = Len(inodes)
  BY <1>1 DEF Inode
<1>8. NothingForgotten
  BY <1>1, <1>4, <1>6, KeepsWrites
<1>9. (p \in Written(n))'
  BY <1>3, <1>4, <1>5 DEF Written, WritesTo
<1>10. n \notin overlapped => \A k \in 1..p : (k \in Written(n))'
  <2>1. \A k \in 1..p : k = p \/ k \in 1..p - 1
    BY <1>6 DEF Whole
  <2>. QED
    BY <1>6, <1>8, <1>9, <2>1 DEF NothingForgotten, Reaches
<1>11. acked' \in 0..Parts /\ (acked' = Parts => acked = Parts)
  <2>1. posts[r].part \in 1..Parts /\ acked \in 0..Parts
    BY <1>2 DEF PostOK, Posted, Whole, FilesOK
  <2>. QED
    BY <1>1, <2>1
<1>12. FilesOK' /\ RemovalIsKnown'
  BY <1>1, <1>2, <1>7, <1>11 DEF FilesOK, RemovalIsKnown
<1>13. PostOK(r)'
  BY <1>2, <1>3, <1>4, <1>5, <1>6, <1>7 DEF PostOK, NotWritten
<1>14. PostsOK'
  BY <1>2, <1>4, <1>7, <1>13 DEF PostsOK, PostOK
<1>15. NoHoles'
  <2>1. \A q \in Req' : posts'[q].write = "pending" =>
               \/ q \in Req /\ posts[q].write = "pending" /\ posts'[q].ino = posts[q].ino
                  /\ posts'[q].part = posts[q].part
               \/ \A m \in Inode : posts'[q].ino = m /\ m \notin overlapped =>
                     \A k \in 1..posts'[q].part : (k \in Written(m))'
    BY <1>3, <1>4, <1>5, <1>10
  <2>. QED
    BY <1>1, <1>2, <1>7, <1>8, <2>1, NoHolesStay
<1>16. RequestsOK'
  <2>1. ASSUME NEW q \in Req, q # r
        PROVE  (InOrder(q) /\ StillLinked(q) /\ MarkerGone(q) /\ AloneOrShared(q))'
    <3>1. (InOrder(q) /\ StillLinked(q) /\ MarkerGone(q))'
      BY <1>1, <1>4, <1>7, <1>8, <2>1, OthersKeep
    <3>2. posts[r].step \in Past
      BY <1>1 DEF Past
    <3>3. posts[q].step = "mark" => file \in {0} \cup overlapped
      BY <1>2, <2>1, <3>2 DEF RequestsOK, AloneOrShared
    <3>4. AloneOrShared(q)'
      BY <1>1, <1>4, <2>1, <3>3 DEF AloneOrShared
    <3>. QED
      BY <3>1, <3>4
  <2>2. InOrder(r)'
    BY <1>1, <1>3, <1>4, <1>5, <1>10 DEF InOrder, Reaches
  <2>3. StillLinked(r)' /\ MarkerGone(r)' /\ AloneOrShared(r)'
    BY <1>1, <1>2, <1>3, <1>4 DEF StillLinked, MarkerGone, AloneOrShared, Opened
  <2>. QED
    BY <1>4, <2>1, <2>2, <2>3 DEF RequestsOK
<1>17. StoredIsWhole'
  <2>1. file # 0 => file \in Inode
    BY <1>2 DEF FilesOK, Inode
  <2>. QED
    BY <1>1, <1>2, <1>8, <1>11, <2>1 DEF StoredIsWhole, NothingForgotten
<1>. QED
  BY <1>12, <1>14, <1>15, <1>16, <1>17 DEF UpIInv

\* What a step of the request that only goes on leaves of the invariant.
LEMMA StepsAlone ==
    ASSUME UpIInv, NEW r \in Req, NEW step \in Steps, Goto(r, step), UNCHANGED <<inodes, file, overlapped, removed>>,
           writing' = writing \/ writing' = FALSE,
           step \in NotWritten => posts[r].step \in NotWritten,
           step \in Opened => posts[r].step \in Opened,
           step \in {"start", "create", "mark"} => posts[r].step \in {"start", "create", "mark"},
           step \in {"finalize", "complete"} => posts[r].step \in {"finalize", "complete"}
    PROVE  /\ PostsOK' /\ NoHoles' /\ NothingForgotten /\ Req' = Req
           /\ \A q \in Req \ {r} : posts'[q] = posts[q] /\ (InOrder(q) /\ StillLinked(q) /\ MarkerGone(q))'
           /\ posts'[r].step = step /\ posts'[r].part = posts[r].part /\ posts'[r].ino = posts[r].ino
<1>1. PostsOK /\ NoHoles /\ PostOK(r) /\ Inode' = Inode /\ Len(inodes') = Len(inodes)
  BY DEF UpIInv, PostsOK, Inode
<1>2. /\ posts' \in Seq(Posted) /\ Req' = Req
      /\ \A q \in Req \ {r} : posts'[q] = posts[q]
      /\ \A q \in Req : /\ posts'[q].part = posts[q].part /\ posts'[q].ino = posts[q].ino
                        /\ posts'[q].write = posts[q].write
      /\ posts'[r].step = step /\ posts'[r] \in Posted
  BY <1>1, GotoIs
<1>3. NothingForgotten
  BY <1>2, KeepsWrites
<1>4. PostOK(r)'
  BY <1>1, <1>2 DEF PostOK, NotWritten
<1>5. PostsOK'
  BY <1>1, <1>2, <1>4 DEF PostsOK, PostOK
<1>6. NoHoles'
  BY <1>1, <1>2, <1>3, NoHolesStay
<1>7. \A q \in Req \ {r} : (InOrder(q) /\ StillLinked(q) /\ MarkerGone(q))'
  BY <1>1, <1>2, <1>3, OthersKeep
<1>. QED
  BY <1>2, <1>3, <1>5, <1>6, <1>7

\* finalize removes the marker beside the file.
LEMMA FinalizeKeeps ==
    ASSUME UpIInv, NEW r \in Req, Finalize(r)
    PROVE  UpIInv'
<1>1. /\ UNCHANGED <<file, inodes, overlapped, acked, completed, removed, deleter, cleanup>>
      /\ writing' = FALSE /\ posts[r].step = "finalize" /\ Goto(r, "complete")
  BY DEF Finalize, At, Rest
<1>2. FilesOK /\ PostsOK /\ RequestsOK /\ StoredIsWhole /\ RemovalIsKnown /\ PostOK(r) /\ InOrder(r) /\ StillLinked(r)
  BY DEF UpIInv, PostsOK, RequestsOK
<1>3. /\ PostsOK' /\ NoHoles' /\ NothingForgotten /\ Req' = Req
      /\ \A q \in Req \ {r} : posts'[q] = posts[q] /\ (InOrder(q) /\ StillLinked(q) /\ MarkerGone(q))'
      /\ posts'[r].step = "complete" /\ posts'[r].part = posts[r].part /\ posts'[r].ino = posts[r].ino
  <2>1. "complete" \in Steps /\ "complete" \notin NotWritten /\ posts[r].step \in Opened
    BY <1>1 DEF Steps, NotWritten, Opened
  <2>. QED
    BY <1>1, <2>1, StepsAlone
<1>4. FilesOK' /\ RemovalIsKnown'
  BY <1>1, <1>2 DEF FilesOK, Inode, RemovalIsKnown
<1>5. InOrder(r)' /\ StillLinked(r)' /\ MarkerGone(r)' /\ AloneOrShared(r)'
  <2>1. PICK n : n = posts[r].ino
    OBVIOUS
  <2>2. n \in Inode /\ (n \notin overlapped => Reaches(n, Parts))
    BY <1>1, <1>2, <2>1 DEF InOrder, PostOK, Opened
  <2>3. n \notin overlapped => \A k \in 1..Parts : (k \in Written(n))'
    BY <1>3, <2>2 DEF NothingForgotten, Reaches
  <2>. QED
    BY <1>1, <1>2, <1>3, <2>1, <2>3 DEF InOrder, StillLinked, MarkerGone, AloneOrShared, Opened, Reaches
<1>6. \A q \in Req \ {r} : AloneOrShared(q)'
  <2>1. posts[r].step \in Past
    BY <1>1 DEF Past
  <2>. QED
    BY <1>1, <1>2, <1>3, <2>1 DEF RequestsOK, AloneOrShared
<1>7. RequestsOK'
  BY <1>3, <1>5, <1>6 DEF RequestsOK
<1>8. StoredIsWhole'
  <2>1. file # 0 => file \in Inode
    BY <1>2 DEF FilesOK, Inode
  <2>. QED
    BY <1>1, <1>2, <1>3, <2>1 DEF StoredIsWhole, NothingForgotten
<1>. QED
  BY <1>3, <1>4, <1>7, <1>8 DEF UpIInv

\* The answer to the last part is given when all parts were written to the file, which is
\* the one at the path unless the chunk was removed.
LEMMA CompletionKeeps ==
    ASSUME UpIInv, NEW r \in Req, PublishCompletion(r)
    PROVE  UpIInv'
<1>1. /\ UNCHANGED <<file, inodes, writing, overlapped, removed, deleter, cleanup>>
      /\ posts[r].step = "complete" /\ Goto(r, "done")
      /\ completed' \in {completed, completed \cup {posts[r].ino}}
      /\ acked' = IF posts[r].part < acked THEN acked ELSE posts[r].part
  BY DEF PublishCompletion, At, Files, Rest
<1>2. /\ FilesOK /\ PostsOK /\ RequestsOK /\ StoredIsWhole /\ RemovalIsKnown
      /\ PostOK(r) /\ InOrder(r) /\ StillLinked(r) /\ MarkerGone(r)
  BY DEF UpIInv, PostsOK, RequestsOK
<1>3. /\ PostsOK' /\ NoHoles' /\ NothingForgotten /\ Req' = Req
      /\ \A q \in Req \ {r} : posts'[q] = posts[q] /\ (InOrder(q) /\ StillLinked(q) /\ MarkerGone(q))'
      /\ posts'[r].step = "done"
  <2>1. "done" \in Steps /\ "done" \notin NotWritten
    BY <1>1 DEF Steps, NotWritten
  <2>2. "done" \notin Opened
    BY DEF Opened
  <2>. QED
    BY <1>1, <2>1, <2>2, StepsAlone
<1>4. posts[r].part = Parts /\ posts[r].ino \in Inode /\ Parts \in Nat \ {0} /\ acked \in 0..Parts
  BY <1>1, <1>2, UploadAssumption DEF PostOK, Opened, FilesOK
<1>5. FilesOK' /\ RemovalIsKnown' /\ acked' = Parts
  BY <1>1, <1>2, <1>4 DEF FilesOK, Inode, RemovalIsKnown
<1>6. InOrder(r)' /\ StillLinked(r)' /\ MarkerGone(r)' /\ AloneOrShared(r)'
  BY <1>3 DEF InOrder, StillLinked, MarkerGone, AloneOrShared, Opened
<1>7. \A q \in Req \ {r} : AloneOrShared(q)'
  <2>1. posts[r].step \in Past
    BY <1>1 DEF Past
  <2>. QED
    BY <1>1, <1>2, <1>3, <2>1 DEF RequestsOK, AloneOrShared
<1>8. RequestsOK'
  BY <1>3, <1>6, <1>7 DEF RequestsOK
<1>9. StoredIsWhole'
  <2>1. /\ file \in {0, posts[r].ino} \cup overlapped
        /\ ~removed => file = posts[r].ino
        /\ file \in {0} \cup overlapped \/ ~writing
    BY <1>1, <1>2 DEF StillLinked, MarkerGone, Opened
  <2>2. 0 \notin Inode
    BY DEF Inode
  <2>3. ASSUME file # 0, file \notin overlapped PROVE (Whole \subseteq Written(file))'
    <3>1. file = posts[r].ino /\ Reaches(posts[r].ino, Parts)
      BY <1>1, <1>2, <2>1, <2>3 DEF InOrder
    <3>2. PICK n : n = file
      OBVIOUS
    <3>3. \A k \in 1..Parts : (k \in Written(n))'
      BY <1>3, <1>4, <3>1, <3>2 DEF NothingForgotten, Reaches
    <3>. QED
      BY <1>1, <3>2, <3>3 DEF Whole
  <2>4. ~removed => file # 0 /\ (writing => file \in overlapped)
    BY <1>4, <2>1, <2>2
  <2>. QED
    BY <1>1, <2>3, <2>4 DEF StoredIsWhole
<1>. QED
  BY <1>3, <1>5, <1>8, <1>9 DEF UpIInv

\* The marker is set by a start that is alone with its file, or shares it.
LEMMA MarkKeeps ==
    ASSUME UpIInv, NEW r \in Req, StartMark(r)
    PROVE  UpIInv'
<1>1. /\ UNCHANGED <<file, inodes, overlapped, acked, completed, removed, deleter, cleanup>>
      /\ writing' = TRUE /\ posts[r].step = "mark" /\ Goto(r, "open")
  BY DEF StartMark, At, Rest
<1>2. /\ FilesOK /\ PostsOK /\ NoHoles /\ RequestsOK /\ StoredIsWhole /\ RemovalIsKnown
      /\ PostOK(r) /\ AloneOrShared(r)
  BY DEF UpIInv, PostsOK, RequestsOK
<1>3. /\ posts' \in Seq(Posted) /\ Req' = Req
      /\ \A q \in Req \ {r} : posts'[q] = posts[q]
      /\ \A q \in Req : /\ posts'[q].part = posts[q].part /\ posts'[q].ino = posts[q].ino
                        /\ posts'[q].write = posts[q].write
      /\ posts'[r].step = "open" /\ posts'[r] \in Posted
  BY <1>1, <1>2, GotoIs DEF Steps
<1>4. \/ file \in {0} \cup overlapped
      \/ ~writing /\ acked # Parts /\ \A q \in Req \ {r} : posts[q].step \notin Past
  BY <1>1, <1>2 DEF AloneOrShared
<1>5. Inode' = Inode /\ Len(inodes') = Len(inodes)
  BY <1>1 DEF Inode
<1>6. NothingForgotten
  BY <1>1, <1>3, KeepsWrites
<1>7. FilesOK' /\ RemovalIsKnown'
  BY <1>1, <1>2, <1>5 DEF FilesOK, RemovalIsKnown
<1>8. posts[r].part = 1 /\ posts[r].write = "none"
  BY <1>1, <1>2 DEF PostOK, NotWritten
<1>9. PostOK(r)'
  BY <1>2, <1>3, <1>5, <1>8 DEF PostOK, NotWritten, Opened
<1>10. PostsOK'
  BY <1>2, <1>3, <1>5, <1>9 DEF PostsOK, PostOK
<1>11. NoHoles'
  <2>1. \A n \in Inode : \A p \in inodes'[n] : p \in inodes[n]
    BY <1>1
  <2>. QED
    BY <1>1, <1>2, <1>3, <1>5, <1>6, <2>1, NoHolesStay
<1>12. InOrder(r)' /\ StillLinked(r)' /\ MarkerGone(r)' /\ AloneOrShared(r)'
  BY <1>3, <1>8 DEF InOrder, StillLinked, MarkerGone, AloneOrShared, Opened, Reaches
<1>13. ASSUME NEW q \in Req, q # r
       PROVE  (InOrder(q) /\ StillLinked(q) /\ MarkerGone(q) /\ AloneOrShared(q))'
  <2>1. posts'[q] = posts[q] /\ InOrder(q) /\ StillLinked(q) /\ MarkerGone(q) /\ AloneOrShared(q) /\ PostOK(q)
    BY <1>2, <1>3, <1>13 DEF RequestsOK, PostsOK
  <2>2. posts[q].step \in Past => file \in {0} \cup overlapped
    BY <1>4, <1>13
  <2>3. InOrder(q)'
    <3>1. \A n \in Inode : \A p : Reaches(n, p) => Reaches(n, p)'
      BY <1>6 DEF NothingForgotten, Reaches
    <3>2. file # 0 => file \in Inode
      BY <1>2 DEF FilesOK, Inode
    <3>. QED
      BY <1>1, <2>1, <3>1, <3>2 DEF InOrder, PostOK, Opened
  <2>4. StillLinked(q)' /\ MarkerGone(q)' /\ AloneOrShared(q)'
    BY <1>1, <2>1, <2>2 DEF StillLinked, MarkerGone, AloneOrShared, Past
  <2>. QED
    BY <2>3, <2>4
<1>14. RequestsOK'
  BY <1>3, <1>12, <1>13 DEF RequestsOK
<1>15. StoredIsWhole'
  <2>1. file # 0 => file \in Inode
    BY <1>2 DEF FilesOK, Inode
  <2>. QED
    BY <1>1, <1>2, <1>4, <1>6, <2>1 DEF StoredIsWhole, NothingForgotten
<1>. QED
  BY <1>7, <1>10, <1>11, <1>14, <1>15 DEF UpIInv

\* start_write creates the file or empties the one there is: if nobody else is at it, nothing
\* is in the file and nobody relies on what was; otherwise the file counts as shared.
LEMMA CreateKeeps ==
    ASSUME UpIInv, NEW r \in Req, StartCreate(r)
    PROVE  UpIInv'
<1>1. /\ UNCHANGED <<writing, acked, completed, removed, deleter, cleanup>>
      /\ posts[r].step = "create" /\ Goto(r, "mark")
      /\ file' = IF file # 0 THEN file ELSE Len(inodes) + 1
      /\ inodes' = IF file # 0 THEN [inodes EXCEPT ![file] = {}] ELSE Append(inodes, {})
      /\ overlapped' = IF Overlaps(r) THEN overlapped \cup {file'} ELSE overlapped
  BY DEF StartCreate, At, Rest
<1>2. FilesOK /\ PostsOK /\ NoHoles /\ RequestsOK /\ StoredIsWhole /\ RemovalIsKnown /\ PostOK(r)
  BY DEF UpIInv, PostsOK
<1>3. /\ posts' \in Seq(Posted) /\ Req' = Req
      /\ \A q \in Req \ {r} : posts'[q] = posts[q]
      /\ \A q \in Req : /\ posts'[q].part = posts[q].part /\ posts'[q].ino = posts[q].ino
                        /\ posts'[q].write = posts[q].write
      /\ posts'[r].step = "mark" /\ posts'[r] \in Posted
  BY <1>1, <1>2, GotoIs DEF Steps
<1>4. PICK f : f = file'
  OBVIOUS
<1>5. /\ f \in Inode' /\ f # 0 /\ Inode \subseteq Inode' /\ Inode' \subseteq Inode \cup {f}
      /\ inodes' \in Seq(SUBSET Whole) /\ inodes'[f] = {}
      /\ \A n \in Inode : n # f => inodes'[n] = inodes[n]
      /\ file # 0 => f = file /\ Inode' = Inode
      /\ file = 0 => f \notin Inode
      /\ Len(inodes') \in Nat /\ Len(inodes) <= Len(inodes')
  <2>1. inodes \in Seq(SUBSET Whole) /\ file \in 0..Len(inodes) /\ Len(inodes) \in Nat
    BY <1>2 DEF FilesOK
  <2>2. CASE file # 0
    BY <1>1, <1>4, <2>1, <2>2 DEF Inode
  <2>3. CASE file = 0
    BY <1>1, <1>4, <2>1, <2>3 DEF Inode
  <2>. QED
    BY <2>2, <2>3
<1>6. /\ overlapped' \subseteq Inode' /\ overlapped \subseteq overlapped' /\ overlapped' \subseteq overlapped \cup {f}
      /\ Overlaps(r) => f \in overlapped'
      /\ ~Overlaps(r) => overlapped' = overlapped
  BY <1>1, <1>2, <1>4, <1>5 DEF FilesOK
<1>7. FilesOK' /\ RemovalIsKnown'
  BY <1>1, <1>2, <1>4, <1>5, <1>6 DEF FilesOK, RemovalIsKnown, Inode
<1>8. posts[r].part = 1 /\ posts[r].write = "none"
  BY <1>1, <1>2 DEF PostOK, NotWritten
<1>9. PostsOK'
  <2> SUFFICES ASSUME NEW q \in Req PROVE PostOK(q)'
    BY <1>3 DEF PostsOK
  <2>1. PostOK(q)
    BY <1>2 DEF PostsOK
  <2>2. posts[q].ino \in 0..Len(inodes')
    BY <1>5, <2>1 DEF PostOK, Posted, FilesOK
  <2>. QED
    BY <1>3, <1>5, <1>8, <2>1, <2>2 DEF PostOK, NotWritten, Opened
\* Every other file is as it was.
<1>10. \A n \in Inode : n # f => \A p \in Written(n) : (p \in Written(n))'
  <2> SUFFICES ASSUME NEW n \in Inode, n # f, NEW p \in Written(n) PROVE (p \in Written(n))'
    OBVIOUS
  <2>1. (p \in Written(n))' <=>
         \/ p \in inodes'[n]
         \/ \E q \in Req' : posts'[q].ino = n /\ posts'[q].part = p /\ posts'[q].write \in {"pending", "lost"}
    BY DEF Written, WritesTo
  <2>. QED
    BY <1>3, <1>5, <2>1, WrittenIs
<1>11. \A n \in Inode : \A p : n # f /\ Reaches(n, p) => \A k \in 1..p : (k \in Written(n))'
  BY <1>10 DEF Reaches
<1>12. ~Overlaps(r) => /\ ~writing /\ acked # Parts
                       /\ \A q \in Req \ {r} : posts[q].step \notin Past
                       /\ \A q \in Req : posts[q].ino = f => posts[q].write # "pending"
  <2> SUFFICES ASSUME ~Overlaps(r)
               PROVE  /\ ~writing /\ acked # Parts
                      /\ \A q \in Req \ {r} : posts[q].step \notin Past
                      /\ \A q \in Req : posts[q].ino = f => posts[q].write # "pending"
    OBVIOUS
  <2>1. ~writing /\ acked # Parts /\ \A q \in Req \ {r} : posts[q].step \notin Past
    BY DEF Overlaps, Past
  <2>2. CASE file # 0
    <3>1. WritesTo(file, "pending") = {}
      BY <2>2 DEF Overlaps
    <3>2. \A q \in Req : posts[q].ino = file => posts[q].write # "pending"
      BY <3>1 DEF WritesTo
    <3>. QED
      BY <1>5, <2>1, <2>2, <3>2
  <2>3. CASE file = 0
    <3>1. \A q \in Req : posts[q].write # "none" => posts[q].ino \in Inode
      BY <1>2 DEF PostsOK, PostOK
    <3>. QED
      BY <1>5, <2>1, <2>3, <3>1
  <2>. QED
    BY <2>2, <2>3
<1>13. NoHoles'
  <2> SUFFICES ASSUME NEW n \in Inode', n \notin overlapped'
      PROVE  /\ \A p \in inodes'[n] : \A k \in 1..p : (k \in Written(n))'
             /\ \A q \in Req' : posts'[q].ino = n /\ posts'[q].write = "pending" =>
                   \A k \in 1..posts'[q].part : (k \in Written(n))'
    BY DEF NoHoles, Reaches
  <2>1. CASE n = f
    BY <1>3, <1>5, <1>6, <1>12, <2>1
  <2>2. CASE n # f
    <3>1. n \in Inode /\ n \notin overlapped /\ inodes'[n] = inodes[n]
      BY <1>5, <1>6, <2>2
    <3>2. /\ \A p \in inodes[n] : Reaches(n, p)
          /\ \A q \in Req : posts[q].ino = n /\ posts[q].write = "pending" => Reaches(n, posts[q].part)
      BY <1>2, <3>1 DEF NoHoles
    <3>. QED
      BY <1>3, <1>11, <2>2, <3>1, <3>2
  <2>. QED
    BY <2>1, <2>2
<1>14. InOrder(r)' /\ StillLinked(r)' /\ MarkerGone(r)' /\ AloneOrShared(r)'
  <2>1. InOrder(r)' /\ StillLinked(r)' /\ MarkerGone(r)'
    BY <1>3 DEF InOrder, StillLinked, MarkerGone, Opened
  <2>2. AloneOrShared(r)'
    BY <1>1, <1>3, <1>4, <1>6, <1>12 DEF AloneOrShared
  <2>. QED
    BY <2>1, <2>2
<1>15. ASSUME NEW q \in Req, q # r
       PROVE  (InOrder(q) /\ StillLinked(q) /\ MarkerGone(q) /\ AloneOrShared(q))'
  <2>1. posts'[q] = posts[q] /\ InOrder(q) /\ StillLinked(q) /\ MarkerGone(q) /\ AloneOrShared(q) /\ PostOK(q)
    BY <1>2, <1>3, <1>15 DEF RequestsOK, PostsOK
  <2>2. posts[q].step \in Past => f \in overlapped'
    BY <1>6, <1>12, <1>15
  <2>3. InOrder(q)'
    <3>1. PICK n : n = posts[q].ino
      OBVIOUS
    <3>2. posts[q].step \in {"write", "finalize", "complete"} /\ n \notin overlapped' => n # f /\ n \in Inode /\ n \notin overlapped
      BY <1>6, <2>1, <2>2, <3>1 DEF PostOK, Opened, Past
    <3>. QED
      BY <1>4, <1>11, <2>1, <2>2, <3>1, <3>2 DEF InOrder, Past, Reaches
  <2>4. StillLinked(q)' /\ MarkerGone(q)' /\ AloneOrShared(q)'
    <3>1. removed = FALSE /\ posts[q].step \in Opened => f = posts[q].ino
      BY <1>5, <2>1 DEF StillLinked, PostOK, Inode
    <3>2. removed \in BOOLEAN
      BY <1>2 DEF RemovalIsKnown
    <3>. QED
      BY <1>1, <1>4, <2>1, <2>2, <3>1, <3>2 DEF StillLinked, MarkerGone, AloneOrShared, Past, Opened
  <2>. QED
    BY <2>3, <2>4
<1>16. RequestsOK'
  BY <1>3, <1>14, <1>15 DEF RequestsOK
<1>17. StoredIsWhole'
  <2>1. acked = Parts => f \in overlapped'
    BY <1>6, <1>12
  <2>. QED
    BY <1>1, <1>4, <1>5, <2>1 DEF StoredIsWhole
<1>. QED
  BY <1>7, <1>9, <1>13, <1>16, <1>17 DEF UpIInv

\* What one request does, its client and its write included, keeps the invariant.
LEMMA HandlerKeeps ==
    ASSUME UpIInv, NEW r \in Req, Handler(r) \/ HangUp(r) \/ WriteLands(r) \/ WriteFails(r)
    PROVE  UpIInv'
<1>1. CASE StartCheck(r)
  <2>1. UNCHANGED <<file, inodes, writing, overlapped, acked, completed, removed, deleter, cleanup>>
    BY <1>1 DEF StartCheck, Files, Rest
  <2>. QED
    BY <1>1, <2>1, GotoKeeps DEF StartCheck, At
<1>2. CASE Resume(r)
  <2>1. UNCHANGED <<file, inodes, writing, overlapped, acked, completed, removed, deleter, cleanup>>
    BY <1>2 DEF Resume, Files, Rest
  <2>. QED
    BY <1>2, <2>1, GotoKeeps DEF Resume, At
<1>3. CASE HangUp(r)
  <2>1. UNCHANGED <<file, inodes, writing, overlapped, acked, completed, removed, deleter, cleanup>>
    BY <1>3 DEF HangUp, Files, Rest
  <2>. QED
    BY <1>3, <2>1, GotoKeeps DEF HangUp
<1>. QED
  BY <1>1, <1>2, <1>3, CreateKeeps, MarkKeeps, OpenKeeps, WriteKeeps, LandsKeeps, FailsKeeps,
     FinalizeKeeps, CompletionKeeps DEF Handler

\* A step in which nothing changes keeps the invariant.
LEMMA UpStutterKeeps ==
    ASSUME UpIInv, UNCHANGED upVars
    PROVE  UpIInv'
BY DEF UpIInv, FilesOK, PostsOK, PostOK, NoHoles, RequestsOK, InOrder, StillLinked, MarkerGone,
    AloneOrShared, RemovalIsKnown, StoredIsWhole, Reaches, Written, WritesTo, Inode, Req, upVars

-----------------------------------------------------------------------------

\* The invariant behind both results: what a request of each step may rely on, whatever other
\* requests, writes and removals do beside it (write_handler and Storage of cafe-binary-store).
THEOREM UploadInductive == UpSpec => []UpIInv
<1>1. UpInit => UpIInv
  BY UpInitEstablishes
<1>2. ASSUME UpIInv, [UpNext]_upVars PROVE UpIInv'
  <2>1. CASE \E r \in Req : Handler(r) \/ HangUp(r) \/ WriteLands(r) \/ WriteFails(r)
    BY <1>2, <2>1, HandlerKeeps
  <2>2. CASE Removal \/ InsertAsset
    BY <1>2, <2>2, BesideKeeps
  <2>3. CASE Restart
    BY <1>2, <2>3, RestartKeeps
  <2>4. CASE \E part \in 1..Parts : Post(part)
    BY <1>2, <2>4, PostKeeps
  <2>5. CASE UNCHANGED upVars
    BY <1>2, <2>5, UpStutterKeeps
  <2>. QED
    BY <1>2, <2>1, <2>2, <2>3, <2>4, <2>5 DEF UpNext
<1>. QED
  BY <1>1, <1>2, PTL DEF UpSpec

\* What the producer was told is stored was written in full, though a write may have failed,
\* and is there unless it was removed (write_handler, beside deletions and restarts).
THEOREM StoredIsAlwaysWhole == UpSpec => []StoredIsWhole
<1>1. UpIInv => StoredIsWhole
  BY DEF UpIInv
<1>. QED
  BY <1>1, UploadInductive, PTL

\* Only a request to whose file every part was written publishes the completion.
LEMMA PublishedWhole ==
    ASSUME UpIInv, UpNext, NEW n \in completed' \ completed
    PROVE  n \in overlapped \/ Whole \subseteq Written(n)
<1>1. PICK r \in Req : PublishCompletion(r)
  BY DEF UpNext, Post, Handler, HangUp, WriteLands, WriteFails, StartCheck, StartCreate, StartMark,
      Resume, AppendOpen, AppendWrite, Finalize, Removal, DeleteStart, DeleteFile, DeleteMarker,
      CleanupScan, CleanupMarker, CleanupFile, Restart, InsertAsset, reqVars
<1>2. n = posts[r].ino /\ posts[r].step = "complete" /\ InOrder(r)
  BY <1>1 DEF PublishCompletion, At, UpIInv, RequestsOK
<1>. QED
  BY <1>2 DEF InOrder, Reaches, Whole

\* A completion is published only for a file to which every part was written, unless two
\* uploads shared it (publish_completion).
THEOREM CompletionIsAlwaysTrue == UpSpec => CompletionIsTrue
<1>1. ASSUME UpIInv, [UpNext]_upVars
      PROVE  [\A n \in completed' \ completed : n \in overlapped \/ Whole \subseteq Written(n)]_upVars
  BY <1>1, PublishedWhole
<1>. QED
  BY <1>1, UploadInductive, PTL DEF UpSpec, CompletionIsTrue

------------------------------------------------------------------------------
(* Calls of the SDK *)

Codecs == {"none", "json", "bincode"}

SdkSteps == {"negotiate", "offer", "cache", "connect", "handshake", "send", "await", "done"}

SdkCalls ==
    [op : Operations, step : SdkSteps, codec : Codecs,
     conn : {"none", "open", "answered", "cut"}, speaks : Codecs, done : BOOLEAN,
     result : {"none", "ok", "error", "mismatch"}]

SdkTyped ==
    /\ busUp \in BOOLEAN /\ binary \in BOOLEAN /\ busStops \in 0..MaxBusStops
    /\ cache \in Codecs /\ calls \in Seq(SdkCalls) /\ Len(calls) <= MaxSdkCalls

\* A call on the connection of its own: past the handshake it speaks the codec it was made
\* with, as long as the bus is there, and only then the bus reads and answers.
CallSpeaks(c) ==
    /\ c.result # "none" => c.step = "done"
    /\ c.conn \in {"open", "answered"} /\ (c.step \in {"send", "await"} \/ c.result = "ok")
          => c.speaks = c.codec
    /\ c.done => c.speaks = c.codec /\ c.step \in {"await", "done"}
    /\ c.conn = "answered" => c.done

\* A call of a client whose bus has never stopped: what it negotiated, or found negotiated,
\* is what that bus chooses.
CallUndisturbed(c) ==
    /\ c.conn # "cut"
    /\ c.step \notin {"negotiate", "offer"} => c.codec = Preferred
    /\ c.result # "mismatch"
    /\ c.result = "error" => c.done

Undisturbed ==
    busStops = 0 =>
        /\ busUp
        /\ cache \in {"none", Preferred}
        /\ \A c \in DOMAIN calls : CallUndisturbed(calls[c])

SdkIInv == SdkTyped /\ (\A c \in DOMAIN calls : CallSpeaks(calls[c])) /\ Undisturbed

-----------------------------------------------------------------------------

\* A step that changes one call keeps the invariant if the call is as it should be.
LEMMA OneCallKeeps ==
  ASSUME SdkIInv, UNCHANGED busState, NEW c \in DOMAIN calls, NEW d \in SdkCalls,
         calls' = [calls EXCEPT ![c] = d], CallSpeaks(d),
         busStops = 0 => CallUndisturbed(d), cache' \in Codecs,
         busStops = 0 => cache' \in {"none", Preferred}
  PROVE  SdkIInv'
<1>1. calls \in Seq(SdkCalls) /\ Len(calls) <= MaxSdkCalls
  BY DEF SdkIInv, SdkTyped
<1>2. calls' \in Seq(SdkCalls) /\ Len(calls') = Len(calls) /\ DOMAIN calls' = DOMAIN calls
      /\ \A e \in DOMAIN calls : calls'[e] = IF e = c THEN d ELSE calls[e]
  BY <1>1
<1>3. Preferred' = Preferred /\ busStops' = busStops /\ busUp' = busUp /\ binary' = binary
  BY DEF busState, Preferred
<1>4. SdkTyped'
  BY <1>1, <1>2, <1>3 DEF SdkIInv, SdkTyped
<1>5. \A e \in DOMAIN calls' : CallSpeaks(calls'[e])
  BY <1>2 DEF SdkIInv
<1>6. Undisturbed'
  <2>1. \A e : CallUndisturbed(e) => CallUndisturbed(e)'
    BY <1>3 DEF CallUndisturbed
  <2>2. CallUndisturbed(d) => CallUndisturbed(d)'
    BY <2>1
  <2> QED BY <1>2, <1>3, <2>1 DEF SdkIInv, Undisturbed, CallUndisturbed
<1> QED BY <1>4, <1>5, <1>6 DEF SdkIInv, CallSpeaks

\* What is known of a call.
LEMMA CallIs ==
  ASSUME SdkIInv, NEW c \in DOMAIN calls
  PROVE  /\ calls[c] \in SdkCalls /\ CallSpeaks(calls[c])
         /\ busStops = 0 => CallUndisturbed(calls[c]) /\ busUp /\ cache \in {"none", Preferred}
         /\ cache \in Codecs
<1>1. calls \in Seq(SdkCalls)
  BY DEF SdkIInv, SdkTyped
<1> QED BY <1>1 DEF SdkIInv, Undisturbed, SdkTyped

\* A call begins with the codec of the cache, or goes to ask for one.
LEMMA SdkCallStarts ==
  ASSUME SdkIInv, NEW op \in Operations, StartCall(op)
  PROVE  SdkIInv'
<1> DEFINE step == IF cache = "none" THEN "negotiate" ELSE "connect"
<1>1. PICK d : d = NewCall(op, step)
  OBVIOUS
<1>2. d \in SdkCalls /\ CallSpeaks(d)
  BY <1>1 DEF NewCall, SdkCalls, SdkIInv, SdkTyped, SdkSteps, Codecs, CallSpeaks
<1>3. busStops = 0 => CallUndisturbed(d)
  BY <1>1 DEF NewCall, SdkIInv, Undisturbed, CallUndisturbed
<1>4. calls \in Seq(SdkCalls) /\ calls' = Append(calls, d) /\ Len(calls) < MaxSdkCalls
  BY <1>1 DEF StartCall, SdkIInv, SdkTyped
<1>5. /\ calls' \in Seq(SdkCalls) /\ Len(calls') <= MaxSdkCalls
      /\ \A e \in DOMAIN calls' : calls'[e] = d \/ (e \in DOMAIN calls /\ calls'[e] = calls[e])
  BY <1>2, <1>4, SdkAssumption
<1>6. Preferred' = Preferred /\ UNCHANGED <<busStops, busUp, binary, cache>>
  BY DEF StartCall, busState, Preferred
<1>7. SdkTyped'
  BY <1>5, <1>6 DEF SdkIInv, SdkTyped
<1>8. Undisturbed'
  BY <1>3, <1>5, <1>6 DEF SdkIInv, Undisturbed, CallUndisturbed
<1> QED BY <1>2, <1>5, <1>7, <1>8 DEF SdkIInv, CallSpeaks

\* A call takes a step, or the bus executes it: what it sends is read in the codec it was
\* written in, or the call ends with an error.
LEMMA SdkStepKeeps ==
  ASSUME SdkIInv, NEW c \in 1..Len(calls), SdkStep(c) \/ BusExecutes(c)
  PROVE  SdkIInv'
<1>1. c \in DOMAIN calls /\ calls \in Seq(SdkCalls)
  BY DEF SdkIInv, SdkTyped
<1>2. PICK b : b = calls[c]
  OBVIOUS
<1>3. /\ b \in SdkCalls /\ CallSpeaks(b)
      /\ busStops = 0 => CallUndisturbed(b) /\ busUp /\ cache \in {"none", Preferred}
      /\ cache \in Codecs
  BY <1>1, <1>2, CallIs
<1>4. ASSUME NEW r \in {"ok", "error", "mismatch"}, End(c, r), UNCHANGED <<busState, cache>>,
             r = "ok" /\ b.conn \in {"open", "answered"} => b.speaks = b.codec,
             busStops = 0 => r # "mismatch" /\ (r = "error" => b.done) /\ b.codec = Preferred
      PROVE  SdkIInv'
  <2>1. PICK d : d = [b EXCEPT !.step = "done", !.result = r]
    OBVIOUS
  <2>2. calls' = [calls EXCEPT ![c] = d]
    BY <1>1, <1>2, <1>3, <1>4, <2>1 DEF End, SdkCalls
  <2>3. d \in SdkCalls /\ CallSpeaks(d)
    BY <1>3, <1>4, <2>1 DEF SdkCalls, SdkSteps, CallSpeaks
  <2>4. busStops = 0 => CallUndisturbed(d)
    BY <1>3, <1>4, <2>1 DEF SdkCalls, CallUndisturbed
  <2> QED BY <1>1, <1>3, <1>4, <2>2, <2>3, <2>4, OneCallKeeps
<1>5. ASSUME OpenConnection(c) PROVE SdkIInv'
  <2>1. CASE busUp
    <3>1. PICK d : d = [b EXCEPT !.conn = "open",
                                 !.step = IF @ = "negotiate" THEN "offer" ELSE "handshake"]
      OBVIOUS
    <3>2. calls' = [calls EXCEPT ![c] = d] /\ UNCHANGED <<busState, cache>>
          /\ b.step \in {"negotiate", "connect"}
      BY <1>1, <1>2, <1>3, <1>5, <2>1, <3>1 DEF OpenConnection, SdkCalls
    <3>3. d \in SdkCalls /\ CallSpeaks(d)
      BY <1>3, <3>1, <3>2 DEF SdkCalls, SdkSteps, CallSpeaks
    <3>4. busStops = 0 => CallUndisturbed(d)
      BY <1>3, <3>1, <3>2 DEF SdkCalls, CallUndisturbed
    <3> QED BY <1>1, <1>3, <3>2, <3>3, <3>4, OneCallKeeps
  <2>2. CASE ~busUp
    BY <1>3, <1>4, <1>5, <2>2 DEF OpenConnection
  <2> QED BY <2>1, <2>2
<1>6. ASSUME Negotiate(c) PROVE SdkIInv'
  <2>1. CASE calls[c].conn = "cut" /\ End(c, "error")
    BY <1>2, <1>3, <1>4, <1>6, <2>1 DEF Negotiate, CallUndisturbed
  <2>2. CASE calls' = [calls EXCEPT ![c].step = "cache", ![c].conn = "none", ![c].codec =
                      IF calls[c].conn = "cut" THEN "json" ELSE NegotiationOffer]
    <3>1. PICK d : d = [b EXCEPT !.step = "cache", !.conn = "none",
                                 !.codec = IF b.conn = "cut" THEN "json" ELSE Preferred]
      OBVIOUS
    <3>2. calls' = [calls EXCEPT ![c] = d] /\ UNCHANGED <<busState, cache>> /\ b.step = "offer"
      BY <1>1, <1>2, <1>3, <1>6, <2>2, <3>1 DEF Negotiate, SdkCalls, NegotiationOffer
    <3>3. d \in SdkCalls /\ CallSpeaks(d)
      BY <1>3, <3>1, <3>2 DEF SdkCalls, SdkSteps, CallSpeaks, Preferred, Codecs
    <3>4. busStops = 0 => CallUndisturbed(d)
      BY <1>3, <3>1, <3>2 DEF SdkCalls, CallUndisturbed
    <3> QED BY <1>1, <1>3, <3>2, <3>3, <3>4, OneCallKeeps
  <2> QED BY <1>6, <2>1, <2>2 DEF Negotiate
<1>7. ASSUME CacheCodec(c) PROVE SdkIInv'
  <2>1. PICK d : d = [b EXCEPT !.step = "connect"]
    OBVIOUS
  <2>2. calls' = [calls EXCEPT ![c] = d] /\ UNCHANGED busState /\ b.step = "cache"
        /\ cache' = IF cache = "none" THEN b.codec ELSE cache
    BY <1>1, <1>2, <1>3, <1>7, <2>1 DEF CacheCodec, SdkCalls
  <2>3. d \in SdkCalls /\ CallSpeaks(d)
    BY <1>3, <2>1, <2>2 DEF SdkCalls, SdkSteps, CallSpeaks
  <2>4. busStops = 0 => CallUndisturbed(d)
    BY <1>3, <2>1, <2>2 DEF SdkCalls, CallUndisturbed
  <2>5. cache' \in Codecs /\ (busStops = 0 => cache' \in {"none", Preferred})
    BY <1>3, <2>2 DEF SdkCalls, CallUndisturbed
  <2> QED BY <1>1, <2>2, <2>3, <2>4, <2>5, OneCallKeeps
<1>8. ASSUME Handshake(c) PROVE SdkIInv'
  <2>1. b.step = "handshake" /\ UNCHANGED <<busState, cache>>
    BY <1>2, <1>8 DEF Handshake
  <2>2. CASE b.conn = "cut" \/ b.codec = Preferred
    <3>1. PICK d : d = [b EXCEPT !.step = "send",
                                 !.speaks = IF b.conn = "cut" THEN "none" ELSE Preferred]
      OBVIOUS
    <3>2. calls' = [calls EXCEPT ![c] = d]
      BY <1>1, <1>2, <1>3, <1>8, <2>2, <3>1 DEF Handshake, SdkCalls, Agreed
    <3>3. d \in SdkCalls /\ CallSpeaks(d)
      BY <1>3, <2>1, <2>2, <3>1 DEF SdkCalls, SdkSteps, CallSpeaks, Preferred, Codecs
    <3>4. busStops = 0 => CallUndisturbed(d)
      BY <1>3, <2>1, <3>1 DEF SdkCalls, CallUndisturbed
    <3> QED BY <1>1, <1>3, <2>1, <3>2, <3>3, <3>4, OneCallKeeps
  <2>3. CASE ~(b.conn = "cut" \/ b.codec = Preferred)
    BY <1>2, <1>3, <1>4, <1>8, <2>1, <2>3 DEF Handshake, Agreed, CallUndisturbed
  <2> QED BY <2>2, <2>3
<1>9. ASSUME SendPublish(c) \/ SendSubscribe(c) PROVE SdkIInv'
  BY <1>2, <1>3, <1>4, <1>9 DEF SendPublish, SendSubscribe, CallSpeaks, CallUndisturbed
<1>10. ASSUME calls' = [calls EXCEPT ![c].step = "await"], UNCHANGED <<busState, cache>>,
              b.step = "send"
       PROVE  SdkIInv'
  <2>1. PICK d : d = [b EXCEPT !.step = "await"]
    OBVIOUS
  <2>2. calls' = [calls EXCEPT ![c] = d]
    BY <1>1, <1>2, <1>3, <1>10, <2>1 DEF SdkCalls
  <2>3. d \in SdkCalls /\ CallSpeaks(d)
    BY <1>3, <1>10, <2>1 DEF SdkCalls, SdkSteps, CallSpeaks
  <2>4. busStops = 0 => CallUndisturbed(d)
    BY <1>3, <1>10, <2>1 DEF SdkCalls, CallUndisturbed
  <2> QED BY <1>1, <1>3, <1>10, <2>2, <2>3, <2>4, OneCallKeeps
<1>11. ASSUME SendRequest(c) PROVE SdkIInv'
  BY <1>2, <1>10, <1>11 DEF SendRequest
<1>12. ASSUME RequestFails(c) PROVE SdkIInv'
  <2>1. b.conn = "cut" /\ b.step = "send" /\ UNCHANGED <<busState, cache>>
    BY <1>2, <1>12 DEF RequestFails
  <2>2. busStops # 0
    BY <1>3, <2>1 DEF CallUndisturbed
  <2> QED BY <1>4, <1>10, <1>12, <2>1, <2>2 DEF RequestFails
<1>13. ASSUME ReadAnswer(c) PROVE SdkIInv'
  BY <1>2, <1>3, <1>4, <1>13 DEF ReadAnswer, CallSpeaks, CallUndisturbed
<1>14. ASSUME ReadEnd(c) PROVE SdkIInv'
  <2>1. b.conn = "cut" /\ b.step = "await" /\ UNCHANGED <<busState, cache>>
    BY <1>2, <1>14 DEF ReadEnd
  <2>2. busStops # 0
    BY <1>3, <2>1 DEF CallUndisturbed
  <2> QED BY <1>4, <1>14, <2>1, <2>2 DEF ReadEnd
<1>15. ASSUME BusExecutes(c) PROVE SdkIInv'
  <2>1. PICK d : d = [b EXCEPT !.done = TRUE, !.conn = "answered"]
    OBVIOUS
  <2>2. /\ calls' = [calls EXCEPT ![c] = d] /\ UNCHANGED <<busState, cache>>
        /\ b.conn = "open" /\ (b.step = "await" \/ b.result = "ok")
    BY <1>1, <1>2, <1>3, <1>15, <2>1 DEF BusExecutes, SdkCalls
  <2>3. d \in SdkCalls /\ CallSpeaks(d)
    BY <1>3, <2>1, <2>2 DEF SdkCalls, SdkSteps, CallSpeaks
  <2>4. busStops = 0 => CallUndisturbed(d)
    BY <1>3, <2>1, <2>2 DEF SdkCalls, CallUndisturbed
  <2> QED BY <1>1, <1>3, <2>2, <2>3, <2>4, OneCallKeeps
<1> QED
  BY <1>5, <1>6, <1>7, <1>8, <1>9, <1>11, <1>12, <1>13, <1>14, <1>15 DEF SdkStep

\* The bus stops: every connection that was open is cut.
LEMMA BusStopKeeps ==
  ASSUME SdkIInv, BusStopsHere
  PROVE  SdkIInv'
<1>1. calls \in Seq(SdkCalls) /\ busStops \in Nat
  BY DEF SdkIInv, SdkTyped
<1>2. calls' = [c \in DOMAIN calls |->
                   IF calls[c].conn = "open" THEN [calls[c] EXCEPT !.conn = "cut"] ELSE calls[c]]
  BY DEF BusStopsHere
<1>3. ASSUME NEW c \in DOMAIN calls PROVE calls'[c] \in SdkCalls /\ CallSpeaks(calls'[c])
  <2>1. PICK b : b = calls[c]
    OBVIOUS
  <2>2. PICK d : d = [b EXCEPT !.conn = "cut"]
    OBVIOUS
  <2>3. b \in SdkCalls /\ CallSpeaks(b)
    BY <2>1, CallIs
  <2>4. d \in SdkCalls /\ CallSpeaks(d)
    BY <2>2, <2>3 DEF SdkCalls, CallSpeaks
  <2>5. calls'[c] = b \/ calls'[c] = d
    BY <1>2, <2>1, <2>2
  <2> QED BY <2>3, <2>4, <2>5
<1>4. DOMAIN calls' = DOMAIN calls /\ DOMAIN calls = 1..Len(calls) /\ Len(calls) \in Nat
  BY <1>1, <1>2
<1>5. calls' \in Seq(SdkCalls) /\ Len(calls') = Len(calls)
  BY <1>2, <1>3, <1>4
<1>6. SdkTyped' /\ busStops' # 0
  <2>1. busStops' \in 0..MaxBusStops /\ busStops' # 0
    BY <1>1, SdkAssumption DEF BusStopsHere
  <2>2. busUp' = FALSE /\ UNCHANGED <<binary, cache>>
    BY DEF BusStopsHere
  <2> QED BY <1>5, <2>1, <2>2 DEF SdkIInv, SdkTyped
<1> QED BY <1>3, <1>4, <1>6 DEF SdkIInv, Undisturbed, CallSpeaks

\* The bus comes back, which it only does after a stop.
LEMMA BusStartKeeps ==
  ASSUME SdkIInv, BusStarts
  PROVE  SdkIInv'
  BY DEF SdkIInv, SdkTyped, BusStarts, Undisturbed, CallSpeaks

\* The calls of a client keep their codecs, whatever the bus does.
THEOREM SdkInductive == SdkSpec => []SdkIInv
<1>1. SdkInit => SdkIInv
  <2> SUFFICES ASSUME SdkInit PROVE SdkIInv
    OBVIOUS
  <2>1. DOMAIN calls = {} /\ calls \in Seq(SdkCalls) /\ Len(calls) = 0
    BY DEF SdkInit
  <2> QED BY <2>1, SdkAssumption DEF SdkInit, SdkIInv, SdkTyped, Undisturbed, Codecs
<1>2. SdkIInv /\ [SdkNext]_sdkVars => SdkIInv'
  <2> SUFFICES ASSUME SdkIInv, [SdkNext]_sdkVars PROVE SdkIInv'
    OBVIOUS
  <2>1. CASE UNCHANGED sdkVars
    BY <2>1 DEF sdkVars, SdkIInv, SdkTyped, CallSpeaks, Undisturbed, CallUndisturbed, Preferred
  <2> QED BY <2>1, SdkCallStarts, SdkStepKeeps, BusStopKeeps, BusStartKeeps DEF SdkNext
<1> QED BY <1>1, <1>2, PTL DEF SdkSpec

\* The bus never reads a message in another codec than it chose for the connection, and
\* while it has never stopped no call fails on the client's side, for any number of calls
\* and of stops of the bus.
THEOREM CodecIsAlwaysAgreed == SdkSpec => []CodecIsAgreed
<1>1. SdkIInv => CodecIsAgreed
  BY DEF SdkIInv, CodecIsAgreed, CallSpeaks, Undisturbed, CallUndisturbed
<1> QED BY <1>1, SdkInductive, PTL

------------------------------------------------------------------------------
(* The registry of agent files *)

FileStates == [state : {"absent", "good", "frozen", "broken"}, name : AgentName \cup {NoAgent}, version : Nat]

EntrySet == [path : Path, form : Forms, version : Nat]

FilesTyped ==
    /\ files \in [Path -> FileStates]
    /\ \A p \in Path : files[p].state = "absent" => files[p].name = NoAgent
    /\ \A p \in Path : files[p].state # "absent" => files[p].name \in AgentName
    /\ agents \in [AgentName -> EntrySet \cup {NoAgent}]
    /\ changes \in Seq(Path)
    /\ watching \in BOOLEAN /\ shared \in BOOLEAN
    /\ unseen \subseteq Path /\ absolute \subseteq Path
    /\ fileEdits \in 0..MaxChanges
    /\ toml \subseteq AgentName
    /\ tomlEdits \in -1..fileEdits

\* As long as no two files claimed one name, none do.
ClaimedOnce ==
    ~shared => \A n \in AgentName : \A p, q \in Claims(files, n) : p = q

\* An entry that is found under the path the watcher reports, and one that is not.
ByReport(n) == agents[n] # NoAgent /\ agents[n].form = "absolute"
ByScan(n) == agents[n] # NoAgent /\ agents[n].form = "relative"

\* Only relative paths are not found, and a path is found in one entry of the registry.
PathOnce ==
    /\ \A n \in AgentName : ByScan(n) => agents[n].path \notin absolute
    /\ ~shared => \A n, m \in AgentName :
        ByReport(n) /\ ByReport(m) /\ agents[n].path = agents[m].path => n = m

\* A name has file p as it is.
Has(n, p) == \E form \in Forms : agents[n] = FileEntry(p, form)

\* The registry has file p as it is.
Served(p) ==
    /\ files[p].state = "good" => Has(files[p].name, p)
    /\ files[p].state \in {"absent", "good"} =>
          \A n \in AgentName : ByReport(n) /\ agents[n].path = p => n = files[p].name

\* A file the registry does not have as it is has been reported, or was not seen.
OthersAreServed ==
    ~shared => \A p \in Path \ unseen : p \in Range(changes) \/ Served(p)

\* What cafe-agent-runtime left to cafe-agent-js is what the files say, until they change.
RuntimeIsCurrent == tomlEdits = fileEdits => toml = Shadowed

FilesIInv == FilesTyped /\ ClaimedOnce /\ PathOnce /\ OthersAreServed /\ RuntimeIsCurrent

-----------------------------------------------------------------------------

\* A finite set of numbers that is not empty has a largest.
LEMMA LargestClaim ==
  ASSUME NEW S \in SUBSET Path, S # {}
  PROVE  Max(S) \in S
<1>1. PICK N : N = MaxPath /\ N \in Nat
  BY FilesAssumption
<1>2. DEFINE T == {k \in Nat : N - k \in S}
<1>3. T # {}
  <2>1. PICK s \in S : TRUE
    OBVIOUS
  <2>2. N - s \in Nat /\ N - (N - s) = s
    BY <1>1, <2>1 DEF Path
  <2> QED BY <2>1, <2>2
<1>4. IsWellFoundedOn(OpToRel(<, Nat), Nat)
  BY NatLessThanWellFounded
<1>5. PICK k \in T : \A j \in T : ~(j < k)
  <2> HIDE DEF T
  <2>1. T \in SUBSET Nat
    BY DEF T
  <2>2. PICK k \in T : \A j \in T : ~(<<j, k>> \in OpToRel(<, Nat))
    BY <1>3, <1>4, <2>1, WFMin
  <2> QED BY <2>1, <2>2 DEF OpToRel
<1>6. N - k \in S /\ \A y \in S : N - k >= y
  <2>1. ASSUME NEW y \in S PROVE N - k >= y
    <3>1. N - y \in T
      BY <1>1 DEF Path
    <3> QED BY <1>1, <1>5, <3>1 DEF Path
  <2> QED BY <1>5, <2>1
<1> QED BY <1>6 DEF Max

\* The scan finds, of the files that claim a name, one that does.
LEMMA ScanFinds ==
  ASSUME FilesTyped
  PROVE  /\ Scanned \in [AgentName -> EntrySet \cup {NoAgent}]
         /\ \A n \in AgentName :
              \/ Claims(files, n) = {} /\ Scanned[n] = NoAgent
              \/ \E p \in Claims(files, n) : Scanned[n] = FileEntry(p, Configured(p))
<1>1. ASSUME NEW n \in AgentName
      PROVE  \/ Claims(files, n) = {} /\ Scanned[n] = NoAgent
             \/ \E p \in Claims(files, n) : Scanned[n] = FileEntry(p, Configured(p))
  <2>1. Claims(files, n) \in SUBSET Path
    BY DEF Claims
  <2> QED BY <2>1, LargestClaim DEF Scanned
<1>2. \A p \in Path : \A form \in Forms : FileEntry(p, form) \in EntrySet
  BY DEF FileEntry, EntrySet, FilesTyped, FileStates
<1>3. \A p \in Path : FileEntry(p, Configured(p)) \in EntrySet
  <2>1. \A p : Configured(p) \in Forms
    BY DEF Configured, Forms
  <2>. QED
    BY <1>2, <2>1
<1>4. \A n \in AgentName : Scanned[n] \in EntrySet \cup {NoAgent}
  <2>1. \A n : \A p \in Claims(files, n) : p \in Path
    BY DEF Claims
  <2>. QED
    BY <1>1, <1>3, <2>1
<1> QED BY <1>1, <1>4 DEF Scanned

\* A scan has every file as it is, once.
LEMMA ScanServes ==
  ASSUME FilesTyped, ClaimedOnce, ~shared
  PROVE  /\ \A n, m \in AgentName :
              Scanned[n] # NoAgent /\ Scanned[m] # NoAgent /\ Scanned[n].path = Scanned[m].path => n = m
         /\ \A p \in Path :
              /\ files[p].state = "good" => Scanned[files[p].name] = FileEntry(p, Configured(p))
              /\ \A n \in AgentName : Scanned[n] # NoAgent /\ Scanned[n].path = p => n = files[p].name
<1>1. \A p : \A form : FileEntry(p, form).path = p
  BY DEF FileEntry
<1>2. ASSUME NEW n \in AgentName, Scanned[n] # NoAgent PROVE Scanned[n].path \in Claims(files, n)
  <2>1. PICK p \in Claims(files, n) : Scanned[n] = FileEntry(p, Configured(p))
    BY <1>2, ScanFinds
  <2> QED BY <1>1, <2>1
<1>3. ASSUME NEW p \in Path, files[p].state = "good" PROVE Scanned[files[p].name] = FileEntry(p, Configured(p))
  <2>1. p \in Claims(files, files[p].name) /\ files[p].name \in AgentName
    BY <1>3 DEF Claims, FilesTyped
  <2> QED BY <2>1, ScanFinds DEF ClaimedOnce
<1> QED BY <1>2, <1>3 DEF Claims

\* A path is in the registry by the scan as it is configured.
LEMMA ScanForms ==
  ASSUME FilesTyped, NEW n \in AgentName, Scanned[n] # NoAgent, Scanned[n].path \in absolute
  PROVE  Scanned[n].form = "absolute"
<1>1. PICK p : Scanned[n] = FileEntry(p, Configured(p))
  BY ScanFinds
<1> QED BY <1>1 DEF FileEntry, Configured

\* Two members make a finite set larger than one.
LEMMA TwoAreMore ==
  ASSUME NEW S, IsFiniteSet(S), NEW a \in S, NEW b \in S, Cardinality(S) <= 1
  PROVE  a = b
<1> SUFFICES ASSUME a # b PROVE FALSE
  OBVIOUS
<1>1. Cardinality({a}) = 1 /\ IsFiniteSet({a})
  BY FS_Singleton
<1>2. Cardinality({a} \cup {b}) = 2 /\ IsFiniteSet({a} \cup {b})
  BY <1>1, FS_AddElement
<1>3. Cardinality({a} \cup {b}) <= Cardinality(S)
  BY <1>2, FS_Subset
<1>4. Cardinality(S) \in Nat
  BY FS_CardinalityType
<1> QED BY <1>2, <1>3, <1>4

\* Few enough files claim a name to be counted.
LEMMA ClaimsFinite ==
  ASSUME NEW fs, NEW n
  PROVE  IsFiniteSet(Claims(fs, n)) /\ Cardinality(Claims(fs, n)) \in Nat
<1>1. IsFiniteSet(1..MaxPath)
  BY FilesAssumption, FS_Interval
<1>2. Claims(fs, n) \subseteq 1..MaxPath
  BY DEF Claims, Path
<1> QED BY <1>1, <1>2, FS_Subset, FS_CardinalityType

-----------------------------------------------------------------------------

\* The scan at the start finds every file.
LEMMA FilesInitEstablishes == FilesInit => FilesIInv
<1> SUFFICES ASSUME FilesInit PROVE FilesIInv
  OBVIOUS
<1>1. /\ files \in [Path -> FileStates]
      /\ \A p \in Path : files[p].state = "absent" => files[p].name = NoAgent
      /\ \A p \in Path : files[p].state # "absent" => files[p].name \in AgentName
  BY DEF FilesInit, FileStates, NoFile
<1>2. FilesTyped
  <2>1. \A p \in Path : \A form \in Forms : FileEntry(p, form) \in EntrySet
    BY <1>1 DEF FileEntry, EntrySet, FileStates
  <2>2. ASSUME NEW n \in AgentName PROVE Scanned[n] \in EntrySet \cup {NoAgent}
    <3>1. Claims(files, n) \in SUBSET Path
      BY DEF Claims
    <3>2. \A p : Configured(p) \in Forms
      BY DEF Configured, Forms
    <3>3. \A p \in Path : FileEntry(p, Configured(p)) \in EntrySet
      BY <2>1, <3>2
    <3>4. Scanned[n] = NoAgent \/ \E p \in Path : Scanned[n] = FileEntry(p, Configured(p))
      BY <3>1, LargestClaim DEF Scanned
    <3> QED BY <3>3, <3>4
  <2>3. Scanned \in [AgentName -> EntrySet \cup {NoAgent}]
    BY <2>2 DEF Scanned
  <2>4. shared \in BOOLEAN
    BY Zenon DEF FilesInit
  <2>5. fileEdits \in 0..MaxChanges /\ tomlEdits \in -1..fileEdits /\ changes \in Seq(Path)
    BY FilesAssumption DEF FilesInit
  <2> QED BY <1>1, <2>3, <2>4, <2>5 DEF FilesInit, FilesTyped
<1>3. ClaimedOnce
  BY ClaimsFinite, TwoAreMore DEF FilesInit, ClaimedOnce
<1>4. PathOnce /\ OthersAreServed
  <2>1. agents = Scanned /\ \A p : Configured(p) \in Forms
    BY DEF FilesInit, Configured, Forms
  <2>. QED
    BY <1>2, <1>3, <2>1, ScanServes, ScanForms DEF OthersAreServed, PathOnce, Served, Has, ByReport, ByScan
<1>5. RuntimeIsCurrent
  BY DEF FilesInit, RuntimeIsCurrent
<1> QED BY <1>2, <1>3, <1>4, <1>5 DEF FilesIInv

\* A file is written, renamed or removed: the registry is behind until the change is handled.
LEMMA ChangeKeeps ==
  ASSUME FilesIInv, NEW p \in Path, NEW new \in FileStates,
         new.state = "absent" => new.name = NoAgent,
         new.state # "absent" => new.name \in AgentName,
         Change(p, new)
  PROVE  FilesIInv'
<1>1. FilesTyped
  BY DEF FilesIInv
<1>2. /\ files' = [files EXCEPT ![p] = new] /\ fileEdits' = fileEdits + 1
      /\ UNCHANGED <<agents, watching, absolute, toml, tomlEdits>>
      /\ shared' = (shared \/ \E n \in AgentName : Cardinality(Claims(files', n)) > 1)
  BY DEF Change, tomlVars
<1>3. /\ files' \in [Path -> FileStates]
      /\ \A q \in Path : files'[q].state = "absent" => files'[q].name = NoAgent
      /\ \A q \in Path : files'[q].state # "absent" => files'[q].name \in AgentName
      /\ \A q \in Path : q # p => files'[q] = files[q]
  BY <1>1, <1>2 DEF FilesTyped
<1>4. /\ changes' \in Seq(Path) /\ unseen' \subseteq Path
      /\ Range(changes) \subseteq Range(changes') /\ unseen \subseteq unseen'
      /\ p \in Range(changes') \cup unseen'
  <2>1. CASE watching
    <3>1. changes' = Append(changes, p) /\ unseen' = unseen /\ changes \in Seq(Path)
      BY <1>1, <2>1 DEF Change, FilesTyped
    <3>2. /\ changes' \in Seq(Path)
          /\ DOMAIN changes' = 1..Len(changes) + 1 /\ changes'[Len(changes) + 1] = p
          /\ \A i \in DOMAIN changes : i \in DOMAIN changes' /\ changes'[i] = changes[i]
          /\ Len(changes) \in Nat
      BY <3>1
    <3>3. Range(changes) \subseteq Range(changes') /\ p \in Range(changes')
      BY <3>2 DEF Range
    <3> QED BY <1>1, <3>1, <3>2, <3>3 DEF FilesTyped
  <2>2. CASE ~watching
    BY <1>1, <2>2 DEF Change, FilesTyped
  <2> QED BY <2>1, <2>2
<1>5. FilesTyped'
  <2>1. fileEdits' \in 0..MaxChanges /\ tomlEdits' \in -1..fileEdits'
    BY <1>1, <1>2, FilesAssumption DEF Change, FilesTyped
  <2>2. shared' \in BOOLEAN
    BY <1>2
  <2> QED BY <1>1, <1>2, <1>3, <1>4, <2>1, <2>2 DEF FilesTyped
<1>6. ~shared' => ~shared
  BY <1>2
<1>7. ClaimedOnce'
  <2> SUFFICES ASSUME ~shared', NEW n \in AgentName,
                      NEW q \in Claims(files', n), NEW r \in Claims(files', n)
               PROVE  q = r
    BY DEF ClaimedOnce
  <2>1. Cardinality(Claims(files', n)) <= 1
    <3>1. ~(Cardinality(Claims(files', n)) > 1)
      BY <1>2, Zenon
    <3> QED BY <3>1, ClaimsFinite
  <2> QED BY <2>1, ClaimsFinite, TwoAreMore
<1>8. PathOnce'
  BY <1>2, <1>6 DEF FilesIInv, PathOnce, ByReport, ByScan
<1>9. OthersAreServed'
  <2> SUFFICES ASSUME ~shared', NEW q \in Path \ unseen', q \notin Range(changes')
               PROVE  Served(q)'
    BY DEF OthersAreServed
  <2>1. q # p /\ Served(q)
    BY <1>4, <1>6 DEF FilesIInv, OthersAreServed
  <2> QED BY <1>2, <1>3, <2>1 DEF Served, Has, ByReport, FileEntry
<1>10. RuntimeIsCurrent'
  BY <1>1, <1>2 DEF RuntimeIsCurrent, FilesTyped
<1> QED BY <1>5, <1>7, <1>8, <1>9, <1>10 DEF FilesIInv

\* A step that leaves the files and what cafe-agent-runtime knows keeps what is said of them.
LEMMA RegistryKeeps ==
  ASSUME FilesIInv, UNCHANGED <<files, shared, fileEdits, absolute, toml, tomlEdits>>
  PROVE  ClaimedOnce' /\ RuntimeIsCurrent'
<1>1. Shadowed' = Shadowed
  BY DEF Shadowed
<1> QED BY <1>1 DEF FilesIInv, ClaimedOnce, RuntimeIsCurrent

\* The reported path is removed from the registry, or its entry made anew.
LEMMA HandleKeeps ==
  ASSUME FilesIInv, HandleChange
  PROVE  FilesIInv'
<1>1. FilesTyped
  BY DEF FilesIInv
<1>2. /\ changes \in Seq(Path) /\ changes # <<>>
      /\ UNCHANGED <<files, watching, unseen, shared, fileEdits, absolute, toml, tomlEdits>>
  BY <1>1 DEF HandleChange, FilesTyped, tomlVars
<1>3. PICK p \in Path : p = Head(changes)
  BY <1>2
<1>4. /\ changes' \in Seq(Path)
      /\ \A q \in Range(changes) : q = p \/ q \in Range(changes')
  <2>1. changes' = Tail(changes)
    BY DEF HandleChange
  <2>2. \A i \in DOMAIN changes : changes[i] = p \/ (i - 1 \in DOMAIN changes' /\ changes'[i - 1] = changes[i])
    BY <1>2, <1>3, <2>1
  <2>3. ASSUME NEW q \in Range(changes), q # p PROVE q \in Range(changes')
    <3>1. PICK i \in DOMAIN changes : changes[i] = q
      BY <2>3 DEF Range
    <3>2. i - 1 \in DOMAIN changes' /\ changes'[i - 1] = q
      BY <2>2, <2>3, <3>1
    <3> QED BY <3>2 DEF Range
  <2>4. changes' \in Seq(Path)
    BY <1>2, <2>1
  <2> QED BY <2>3, <2>4
<1>5. ClaimedOnce' /\ RuntimeIsCurrent'
  BY <1>2, RegistryKeeps
<1>6. ASSUME agents' \in [AgentName -> EntrySet \cup {NoAgent}], PathOnce',
             ~shared => Served(p)',
             ~shared => \A q \in Path : q # p /\ Served(q) => Served(q)'
      PROVE  FilesIInv'
  <2>1. FilesTyped'
    BY <1>1, <1>2, <1>4, <1>6 DEF FilesTyped
  <2>2. OthersAreServed'
    BY <1>2, <1>4, <1>6 DEF FilesIInv, OthersAreServed
  <2> QED BY <1>5, <1>6, <2>1, <2>2 DEF FilesIInv
<1>7. CASE files[p].state = "absent"
  <2> DEFINE of == Entries(p)
  <2>1. RemoveByPath(p)
    BY <1>3, <1>7 DEF HandleChange
  <2>2. CASE of = {}
    <3>1. agents' = agents
      BY <2>1, <2>2 DEF RemoveByPath
    <3>2. Served(p)'
      BY <1>2, <1>7, <2>2, <3>1 DEF Served, Entries, ByReport
    <3>3. PathOnce' /\ \A q \in Path : Served(q) => Served(q)'
      BY <1>2, <3>1 DEF FilesIInv, PathOnce, ByScan, Served, Has, ByReport, FileEntry
    <3> QED BY <1>1, <1>6, <3>1, <3>2, <3>3 DEF FilesTyped
  <2>3. CASE of # {}
    <3>1. PICK n \in of : agents' = [agents EXCEPT ![n] = NoAgent]
      BY <2>1, <2>3 DEF RemoveByPath
    <3>2. /\ agents' \in [AgentName -> EntrySet \cup {NoAgent}]
          /\ agents'[n] = NoAgent /\ n \in AgentName /\ ByReport(n) /\ agents[n].path = p
          /\ \A m \in AgentName : m # n => agents'[m] = agents[m]
      BY <1>1, <3>1 DEF FilesTyped, Entries, ByReport
    <3>3. PathOnce'
      BY <1>2, <3>2 DEF FilesIInv, PathOnce, ByReport, ByScan
    <3>4. ~shared => Served(p)'
      BY <1>2, <1>7, <3>2 DEF FilesIInv, PathOnce, Served, ByReport, ByScan
    <3>5. ASSUME NEW q \in Path, q # p, Served(q) PROVE Served(q)'
      <4>1. files[q].state = "good" => files[q].name \in AgentName
        BY <1>1 DEF FilesTyped
      <4>2. files[q].state = "good" => files[q].name # n
        <5>1. files[q].state = "good" => \E form \in Forms : agents[files[q].name] = FileEntry(q, form)
          BY <3>5 DEF Served, Has
        <5>2. \A form : FileEntry(q, form).path = q
          BY DEF FileEntry
        <5>3. files[q].state = "good" => agents[files[q].name].path = q
          BY <5>1, <5>2
        <5>. QED
          BY <3>2, <3>5, <5>3
      <4>3. \A m \in AgentName : ByReport(m)' => ByReport(m) /\ agents'[m] = agents[m]
        BY <3>2 DEF ByReport
      <4>4. files[q].state = "good" => Has(files[q].name, q)'
        BY <1>2, <3>2, <3>5, <4>1, <4>2 DEF Served, Has, FileEntry
      <4> QED BY <1>2, <3>5, <4>3, <4>4 DEF Served, Has
    <3> QED BY <1>6, <3>2, <3>3, <3>4, <3>5
  <2> QED BY <2>2, <2>3
<1>8. CASE files[p].state = "good"
  <2> DEFINE name == files[p].name
  <2>1. agents' = [n \in AgentName |-> IF n = name THEN FileEntry(p, "absolute")
                                       ELSE IF n \in Renamed(p) THEN NoAgent ELSE agents[n]]
    BY <1>3, <1>8 DEF HandleChange, ReloadFile
  <2>2. /\ name \in AgentName /\ FileEntry(p, "absolute") \in EntrySet
        /\ FileEntry(p, "absolute").path = p /\ FileEntry(p, "absolute").form = "absolute"
    BY <1>1, <1>8 DEF FilesTyped, FileEntry, EntrySet, FileStates, Forms
  <2> HIDE DEF name
  <2>3. /\ agents' \in [AgentName -> EntrySet \cup {NoAgent}]
        /\ agents'[name] = FileEntry(p, "absolute")
        /\ \A n \in AgentName : n # name => \/ agents'[n] = NoAgent
                                            \/ agents'[n] = agents[n]
        /\ \A n \in AgentName : n # name /\ agents[n].path # p => agents'[n] = agents[n]
        /\ \A n \in AgentName : n # name /\ ByReport(n)' => agents'[n].path # p
    BY <1>1, <2>1, <2>2 DEF FilesTyped, Renamed, Entries, ByReport, name
  <2>4. PathOnce'
    BY <1>2, <2>2, <2>3 DEF FilesIInv, PathOnce, ByReport, ByScan
  <2>5. Served(p)'
    <3>1. files'[p].name = name /\ FileEntry(p, "absolute")' = FileEntry(p, "absolute")
      BY <1>2 DEF name, FileEntry
    <3>2. Has(files[p].name, p)'
      BY <1>2, <2>3, <3>1 DEF Has, Forms, name
    <3> QED BY <1>2, <2>3, <3>1, <3>2 DEF Served
  <2>6. ASSUME NEW q \in Path, q # p, Served(q), ~shared PROVE Served(q)'
    <3>1. files[q].state = "good" =>
            files[q].name \in AgentName /\ files[q].name # name
      BY <1>1, <1>8, <2>2, <2>6 DEF FilesIInv, ClaimedOnce, Claims, FilesTyped, name
    <3>2. files'[q] = files[q] /\ \A form : FileEntry(q, form)' = FileEntry(q, form) /\ FileEntry(q, form).path = q
      BY <1>2 DEF FileEntry
    <3>3. files[q].state = "good" => Has(files[q].name, q)'
      BY <2>3, <2>6, <3>1, <3>2 DEF Served, Has
    <3>4. \A n \in AgentName : ByReport(n)' /\ agents'[n].path = q => ByReport(n) /\ agents[n].path = q
      BY <2>2, <2>3, <2>6 DEF ByReport
    <3> QED BY <2>6, <3>2, <3>3, <3>4 DEF Served
  <2> QED BY <1>6, <2>3, <2>4, <2>5, <2>6
<1>9. CASE files[p].state \notin {"absent", "good"}
  <2>1. agents' = agents
    BY <1>3, <1>9 DEF HandleChange
  <2>2. Served(p)'
    BY <1>2, <1>9 DEF Served
  <2>3. PathOnce' /\ \A q \in Path : Served(q) => Served(q)'
    BY <1>2, <2>1 DEF FilesIInv, PathOnce, ByScan, Served, Has, ByReport, FileEntry
  <2> QED BY <1>1, <1>6, <2>1, <2>2, <2>3 DEF FilesTyped
<1> QED BY <1>7, <1>8, <1>9

\* A full reload takes the registry to the files.
LEMMA ReloadAllKeeps ==
  ASSUME FilesIInv, ReloadAll
  PROVE  FilesIInv'
<1>1. FilesTyped /\ ClaimedOnce
  BY DEF FilesIInv
<1>2. /\ agents' = Scanned /\ unseen' = {}
      /\ UNCHANGED <<files, changes, watching, shared, fileEdits, absolute, toml, tomlEdits>>
  BY DEF ReloadAll, tomlVars
<1>3. FilesTyped' /\ ClaimedOnce' /\ RuntimeIsCurrent'
  BY <1>1, <1>2, ScanFinds, RegistryKeeps DEF FilesTyped
<1>4. \A p \in Path : \A form : FileEntry(p, form)' = FileEntry(p, form)
  BY <1>2 DEF FileEntry
<1>5. PathOnce'
  BY <1>1, <1>2, ScanServes, ScanForms DEF PathOnce, ByReport, ByScan
<1>6. \A p : Configured(p) \in Forms
  BY DEF Configured, Forms
<1>7. ~shared' => \A p \in Path : Served(p)'
  BY <1>1, <1>2, <1>4, <1>6, ScanServes DEF Served, Has, ByReport
<1> QED BY <1>3, <1>5, <1>7 DEF FilesIInv, OthersAreServed

\* The runtime shadows the agents that have a file at its start.
LEMMA RuntimeStartKeeps ==
  ASSUME FilesIInv, StartRuntime
  PROVE  FilesIInv'
<1>1. /\ toml' = Shadowed /\ Shadowed' = Shadowed /\ tomlEdits' = fileEdits
      /\ UNCHANGED <<absolute, files, agents, changes, watching, unseen, shared, fileEdits>>
  BY DEF StartRuntime, Shadowed
<1>2. FilesTyped'
  BY <1>1, FilesAssumption DEF FilesIInv, FilesTyped, Shadowed
<1> QED
  BY <1>1, <1>2
  DEF FilesIInv, ClaimedOnce, PathOnce, ByScan, OthersAreServed, Served, Has, ByReport, FileEntry, RuntimeIsCurrent

\* The watcher starts.
LEMMA FilesRestKeeps ==
  ASSUME FilesIInv, StartWatcher \/ UNCHANGED filesVars
  PROVE  FilesIInv'
<1>1. /\ UNCHANGED <<files, agents, changes, unseen, shared, fileEdits, absolute, toml, tomlEdits>>
      /\ watching' \in BOOLEAN
  BY DEF StartWatcher, filesVars, tomlVars, FilesIInv, FilesTyped
<1>2. FilesTyped' /\ Shadowed' = Shadowed
  BY <1>1 DEF FilesIInv, FilesTyped, Shadowed
<1> QED
  BY <1>1, <1>2
  DEF FilesIInv, ClaimedOnce, PathOnce, ByScan, OthersAreServed, Served, Has, ByReport, FileEntry, RuntimeIsCurrent

\* The registry has every file as it is that was not reported and not missed.
THEOREM FilesInductive == FilesSpec => []FilesIInv
<1>1. FilesIInv /\ [FilesNext]_filesVars => FilesIInv'
  <2> SUFFICES ASSUME FilesIInv, [FilesNext]_filesVars PROVE FilesIInv'
    OBVIOUS
  <2>1. ASSUME NEW p \in Path, RemoveFile(p) PROVE FilesIInv'
    <3>1. NoFile \in FileStates /\ NoFile.state = "absent" /\ NoFile.name = NoAgent
      BY DEF NoFile, FileStates
    <3> QED BY <2>1, <3>1, ChangeKeeps DEF RemoveFile
  <2>2. ASSUME NEW p \in Path, NEW c \in Content, WriteFile(p, c) PROVE FilesIInv'
    <3>1. PICK new : new = [state |-> c.state, name |-> c.name, version |-> fileEdits + 1]
      OBVIOUS
    <3>2. new \in FileStates /\ new.state # "absent" /\ new.name \in AgentName
      BY <3>1 DEF Content, FileStates, FilesIInv, FilesTyped
    <3> QED BY <2>2, <3>1, <3>2, ChangeKeeps DEF WriteFile
  <2> QED
    BY <2>1, <2>2, HandleKeeps, ReloadAllKeeps, RuntimeStartKeeps, FilesRestKeeps DEF FilesNext
<1> QED BY <1>1, FilesInitEstablishes, PTL DEF FilesSpec

\* An entry is found under the path the watcher reports, or was scanned with a relative one.
LEMMA FoundOrLost ==
  ASSUME FilesIInv, NEW n \in AgentName, agents[n] # NoAgent
  PROVE  ByReport(n) \/ (ByScan(n) /\ agents[n].path \notin absolute)
  BY DEF FilesIInv, FilesTyped, PathOnce, ByReport, ByScan, EntrySet, Forms

\* Once the reported changes are handled, who serves an agent is what the files say, for
\* any agents, files and changes of them.
THEOREM AgentsAlwaysFollow == FilesSpec => []AgentsFollowFiles
<1>1. FilesIInv => RegistryFollowsFiles
  <2> SUFFICES ASSUME FilesIInv, FilesSettled, NEW p \in Path \ unseen PROVE Served(p)
    BY FoundOrLost DEF RegistryFollowsFiles, Served, Has, ByScan
  <2>1. p \notin Range(changes)
    BY DEF FilesSettled, Range
  <2> QED BY <2>1 DEF FilesIInv, OthersAreServed, FilesSettled
<1>2. FilesIInv => NoAgentTwice
  <2> SUFFICES ASSUME FilesIInv, FilesSettled, unseen = {}, fileEdits = tomlEdits,
                      \A p \in Path : files[p].state \in {"absent", "good"},
                      NEW n \in toml, agents[n] # NoAgent
               PROVE  ByScan(n) /\ agents[n].path \notin absolute
    BY DEF NoAgentTwice, ByScan
  <2> SUFFICES ASSUME ByReport(n) PROVE FALSE
    BY DEF FilesIInv, FilesTyped, PathOnce, ByReport, ByScan, EntrySet, Forms
  <2>1. FilesTyped /\ n \in AgentName /\ Claims(files, n) = {}
    BY DEF FilesIInv, RuntimeIsCurrent, Shadowed
  <2>2. PICK p \in Path : p = agents[n].path
    BY <2>1 DEF FilesTyped, EntrySet
  <2>3. Served(p)
    BY DEF FilesIInv, OthersAreServed, FilesSettled, Range
  <2>4. n = files[p].name
    BY <2>1, <2>2, <2>3 DEF Served, ByReport
  <2> QED BY <2>1, <2>4, FilesAssumption DEF Claims, FilesTyped
<1> QED BY <1>1, <1>2, FilesInductive, PTL DEF AgentsFollowFiles

------------------------------------------------------------------------------
(* The operations of JavaScript agents *)

\* A set of numbers up to N that is not empty has a largest.
LEMMA LargestOf ==
  ASSUME NEW N \in Nat, NEW S \in SUBSET (1..N), S # {}
  PROVE  Max(S) \in S /\ \A y \in S : Max(S) >= y
<1> DEFINE T == {k \in Nat : N - k \in S}
<1>1. T # {}
  <2>1. PICK s \in S : TRUE
    OBVIOUS
  <2>2. N - s \in Nat /\ N - (N - s) = s
    BY <2>1
  <2> QED BY <2>1, <2>2
<1>2. PICK k \in T : \A j \in T : ~(j < k)
  <2> HIDE DEF T
  <2>1. T \in SUBSET Nat
    BY DEF T
  <2>2. PICK k \in T : \A j \in T : ~(<<j, k>> \in OpToRel(<, Nat))
    BY <1>1, <2>1, WFMin, NatLessThanWellFounded
  <2> QED BY <2>1, <2>2 DEF OpToRel
<1>3. N - k \in S /\ \A y \in S : N - k >= y
  <2>1. ASSUME NEW y \in S PROVE N - k >= y
    <3>1. N - y \in T
      OBVIOUS
    <3> QED BY <1>2, <3>1
  <2> QED BY <1>2, <2>1
<1> QED BY <1>3 DEF Max

\* A set of numbers that is not empty has a smallest.
LEMMA SmallestOf ==
  ASSUME NEW S \in SUBSET Nat, S # {}
  PROVE  Min(S) \in S /\ \A y \in S : Min(S) <= y
<1>1. PICK k \in S : \A j \in S : ~(<<j, k>> \in OpToRel(<, Nat))
  BY WFMin, NatLessThanWellFounded
<1>2. \A j \in S : ~(j < k)
  BY <1>1 DEF OpToRel
<1>3. \A j \in S : k <= j
  BY <1>2
<1> QED BY <1>3 DEF Min

-----------------------------------------------------------------------------

\* The positions up to n of the chunks that hold a config, and of texts of the model.
Configs(n) == {i \in 1..n : said[i].type = "null" /\ said[i].tag = "config" /\ ~said[i].transient}
Texts(n) == {i \in 1..n : said[i].type = "text" /\ said[i].role = "assistant" /\ said[i].tag = "llm"
                            /\ ~said[i].transient}

\* The last chunk of a kind is the largest of the numbers of that kind.
LEMMA LatestAre ==
  ASSUME NEW n \in Nat
  PROVE  /\ ConfigUpTo(n) = IF Configs(n) # {} THEN Max(Configs(n)) ELSE 0
         /\ TextUpTo(n) = IF Texts(n) # {} THEN Max(Texts(n)) ELSE 0
  BY DEF ConfigUpTo, TextUpTo, LatestUpTo, SelectLastInSubSeq, Configs, Texts

\* The last chunk of a kind up to a later point is not an earlier one.
LEMMA LatestGrow ==
  ASSUME NEW m \in Nat, NEW n \in Nat, m <= n
  PROVE  /\ ConfigUpTo(m) \in 0..m /\ ConfigUpTo(n) \in 0..n /\ ConfigUpTo(m) <= ConfigUpTo(n)
         /\ TextUpTo(m) \in 0..m /\ TextUpTo(n) \in 0..n /\ TextUpTo(m) <= TextUpTo(n)
<1>1. /\ Configs(m) \in SUBSET (1..m) /\ Configs(n) \in SUBSET (1..n) /\ Configs(m) \subseteq Configs(n)
      /\ Texts(m) \in SUBSET (1..m) /\ Texts(n) \in SUBSET (1..n) /\ Texts(m) \subseteq Texts(n)
  BY DEF Configs, Texts
<1>2. ASSUME NEW S \in SUBSET (1..m), NEW T \in SUBSET (1..n), S \subseteq T
      PROVE  /\ (IF S # {} THEN Max(S) ELSE 0) \in 0..m /\ (IF T # {} THEN Max(T) ELSE 0) \in 0..n
             /\ (IF S # {} THEN Max(S) ELSE 0) <= (IF T # {} THEN Max(T) ELSE 0)
  <2>1. S # {} => Max(S) \in S
    BY LargestOf
  <2>2. T # {} => Max(T) \in T /\ \A y \in T : Max(T) >= y
    BY LargestOf
  <2>3. CASE S = {}
    <3>1. T # {} => Max(T) \in 1..n
      BY <2>2
    <3>2. (IF T # {} THEN Max(T) ELSE 0) \in 0..n
      BY <3>1
    <3> QED BY <2>3, <3>2
  <2>4. CASE S # {}
    <3>1. T # {} /\ Max(S) \in 1..m /\ Max(T) \in 1..n /\ Max(S) <= Max(T)
      BY <1>2, <2>1, <2>2, <2>4
    <3> QED BY <2>4, <3>1
  <2> QED BY <2>3, <2>4
<1> QED BY <1>1, <1>2, LatestAre

ChunkTypes == {"text", "null", "other"}
Roles == {"none", "user", "assistant"}
Tags == {"plain", "llm", "complete", "config", "tick", "result", "tool"}
Told == {"output", "error", "completed", "timed out", "failed"}

Chunks == [type : ChunkTypes, role : Roles, tag : Tags, transient : BOOLEAN, op : Nat, info : Told \cup {""}]

Events == [trigger : Nat, text : Int]

FeedTyped ==
    /\ said \in Seq(Chunks)
    /\ flight \subseteq Chunks
    /\ feed \in [step : {"read", "text", "config", "deliver", "wait"}, at : Nat, text : Int]
    /\ feed.at <= Len(said)
    /\ slot \in Int
    /\ evs \in Seq(Events)
    /\ feed.step \in {"text", "config", "deliver"} => feed.at # 0

\* Only cafe-llm completes answers.
OneCompletes ==
    /\ \A i \in DOMAIN said : said[i].tag = "complete" => EventOf(said[i]) = "llm_complete"
    /\ \A c \in flight : c.tag # "complete"

\* The text that goes with a completion is not older than those published before it.
Timely(trigger, text) ==
    said[trigger].tag = "complete" /\ text # Failed => text >= TextUpTo(trigger)

\* The config snapshot is not older than the trigger.
Fresh(trigger) == slot # Failed => slot >= ConfigUpTo(trigger)

FeedIsCurrent ==
    /\ feed.step \in {"config", "deliver"} => Timely(feed.at, feed.text)
    /\ feed.step = "deliver" => Fresh(feed.at)

EventsCurrent ==
    \A k \in DOMAIN evs :
        /\ evs[k].trigger \in 1..Len(said)
        /\ Timely(evs[k].trigger, evs[k].text)
        /\ Fresh(evs[k].trigger)

FeedIInv == FeedTyped /\ OneCompletes /\ FeedIsCurrent /\ EventsCurrent

\* One more chunk of the session changes nothing about those before it.
LEMMA SaidGrows ==
  ASSUME FeedIInv, NEW c \in Chunks, said' = Append(said, c),
         c.tag = "complete" => EventOf(c) = "llm_complete",
         flight' \subseteq flight, UNCHANGED <<feed, slot, evs>>
  PROVE  FeedIInv'
<1>1. said \in Seq(Chunks) /\ Len(said) \in Nat
  BY DEF FeedIInv, FeedTyped
<1>2. /\ said' \in Seq(Chunks) /\ Len(said') = Len(said) + 1
      /\ \A i \in 1..Len(said) : i \in DOMAIN said' /\ said'[i] = said[i]
      /\ said'[Len(said) + 1] = c /\ DOMAIN said' = 1..Len(said) + 1
      /\ DOMAIN said = 1..Len(said)
  BY <1>1
<1>3. ASSUME NEW n \in 1..Len(said)
      PROVE  ConfigUpTo(n)' = ConfigUpTo(n) /\ TextUpTo(n)' = TextUpTo(n)
  <2>1. \A i \in 1..n : said'[i] = said[i]
    BY <1>1, <1>2
  <2>2. Configs(n)' = Configs(n) /\ Texts(n)' = Texts(n)
    BY <2>1 DEF Configs, Texts
  <2>3. ConfigUpTo(n)' = IF Configs(n)' # {} THEN Max(Configs(n)') ELSE 0
    BY DEF ConfigUpTo, LatestUpTo, SelectLastInSubSeq, Configs
  <2>4. TextUpTo(n)' = IF Texts(n)' # {} THEN Max(Texts(n)') ELSE 0
    BY DEF TextUpTo, LatestUpTo, SelectLastInSubSeq, Texts
  <2> QED BY <2>2, <2>3, <2>4, LatestAre
<1>4. FeedTyped'
  BY <1>1, <1>2 DEF FeedIInv, FeedTyped
<1>5. \A e : EventOf(e)' = EventOf(e)
  BY DEF EventOf
<1>6. OneCompletes'
  BY <1>2, <1>5 DEF FeedIInv, OneCompletes, EventOf
<1>7. \A n \in 1..Len(said) : \A t : (Timely(n, t) => Timely(n, t)') /\ (Fresh(n) => Fresh(n)')
  BY <1>2, <1>3 DEF Timely, Fresh
<1>8. FeedIsCurrent'
  <2>1. feed.step \in {"config", "deliver"} => feed.at \in 1..Len(said)
    BY <1>1 DEF FeedIInv, FeedTyped
  <2> QED BY <1>7, <2>1 DEF FeedIInv, FeedIsCurrent, Timely, Fresh
<1>9. EventsCurrent'
  <2> SUFFICES ASSUME NEW k \in DOMAIN evs
               PROVE  /\ evs[k].trigger \in 1..Len(said') /\ Timely(evs[k].trigger, evs[k].text)'
                      /\ Fresh(evs[k].trigger)'
    BY DEF EventsCurrent, Timely, Fresh
  <2>1. PICK e : e = evs[k]
    OBVIOUS
  <2>2. e.trigger \in 1..Len(said) /\ Timely(e.trigger, e.text) /\ Fresh(e.trigger)
    BY <2>1 DEF FeedIInv, EventsCurrent
  <2>3. Timely(e.trigger, e.text)' /\ Fresh(e.trigger)'
    BY <1>7, <2>2
  <2> QED BY <1>1, <1>2, <2>1, <2>2, <2>3 DEF Timely, Fresh
<1> QED BY <1>4, <1>6, <1>8, <1>9 DEF FeedIInv

\* Steps that change neither the session nor what the task of the feed has.
LEMMA FeedStays ==
  ASSUME FeedIInv, UNCHANGED <<said, feed, slot, evs>>, flight' \subseteq Chunks,
         \A c \in flight' : c.tag # "complete"
  PROVE  FeedIInv'
<1>1. \A n : ConfigUpTo(n)' = ConfigUpTo(n) /\ TextUpTo(n)' = TextUpTo(n)
  BY DEF ConfigUpTo, TextUpTo, LatestUpTo, SelectLastInSubSeq
<1>2. FeedTyped' /\ OneCompletes'
  BY DEF FeedIInv, FeedTyped, OneCompletes, EventOf
<1>3. FeedIsCurrent' /\ EventsCurrent'
  BY <1>1 DEF FeedIInv, FeedIsCurrent, EventsCurrent, Timely, Fresh
<1> QED BY <1>2, <1>3 DEF FeedIInv

\* The task of the feed goes on; the session stays as it is.
LEMMA FeedMoves ==
  ASSUME FeedIInv, FeedStep
  PROVE  FeedIInv'
<1>1. /\ said \in Seq(Chunks) /\ Len(said) \in Nat /\ FeedTyped
      /\ feed.at \in Nat /\ feed.at <= Len(said) /\ slot \in Int /\ feed.text \in Int
      /\ evs \in Seq(Events)
  BY DEF FeedIInv, FeedTyped
<1>2. UNCHANGED <<said, flight>>
  BY DEF FeedStep, FeedReads, FeedAssembles, FeedConfig, FeedDelivers, heard
<1>3. /\ \A n : ConfigUpTo(n)' = ConfigUpTo(n) /\ TextUpTo(n)' = TextUpTo(n)
      /\ OneCompletes'
  BY <1>2 DEF ConfigUpTo, TextUpTo, LatestUpTo, SelectLastInSubSeq, FeedIInv, OneCompletes, EventOf
<1>4. /\ \A n : \A t : Timely(n, t)' <=> Timely(n, t)
      /\ slot' = slot => \A n : Fresh(n)' <=> Fresh(n)
  BY <1>2, <1>3 DEF Timely, Fresh
<1>5. ASSUME slot' = slot, evs' = evs PROVE EventsCurrent'
  BY <1>2, <1>3, <1>5 DEF FeedIInv, EventsCurrent, Timely, Fresh
<1>6. CASE FeedReads
  <2> DEFINE I == {i \in feed.at + 1..Len(said) : EventOf(said[i]) # "none"}
  <2>1. PICK i : i = IF I # {} THEN Min(I) ELSE 0
    OBVIOUS
  <2>2. /\ i # 0 /\ UNCHANGED <<slot, evs>>
        /\ feed' = [at |-> i, text |-> 0,
                     step |-> IF EventOf(said[i]) = "llm_complete" THEN "text" ELSE "config"]
    BY <1>6, <2>1 DEF FeedReads, SelectInSubSeq
  <2>3. I \in SUBSET Nat
    BY <1>1
  <2>4. i \in I
    BY <2>1, <2>2, <2>3, SmallestOf
  <2>5. i \in 1..Len(said)
    BY <1>1, <2>4
  <2>6. FeedTyped'
    BY <1>1, <1>2, <2>2, <2>5 DEF FeedTyped
  <2>7. FeedIsCurrent'
    BY <1>2, <2>2, <2>5 DEF FeedIInv, OneCompletes, FeedIsCurrent, Timely
  <2> QED BY <1>3, <1>5, <2>2, <2>6, <2>7 DEF FeedIInv
<1>7. CASE FeedAssembles
  <2>1. /\ feed.step = "text" /\ UNCHANGED <<slot, evs>>
        /\ \/ feed' = [feed EXCEPT !.step = "config", !.text = TextUpTo(Len(said))]
           \/ feed' = [feed EXCEPT !.step = "config", !.text = Failed]
    BY <1>7 DEF FeedAssembles
  <2>2. /\ TextUpTo(Len(said)) \in Nat /\ TextUpTo(feed.at) <= TextUpTo(Len(said))
    <3>1. PICK m \in Nat, n \in Nat : m = feed.at /\ n = Len(said) /\ m <= n
      BY <1>1
    <3>2. TextUpTo(n) \in 0..n /\ TextUpTo(m) <= TextUpTo(n)
      BY <3>1, LatestGrow
    <3> QED BY <3>1, <3>2
  <2>3. /\ feed' \in [step : {"read", "text", "config", "deliver", "wait"}, at : Nat, text : Int]
        /\ feed'.step = "config" /\ feed'.at = feed.at
        /\ feed'.text = TextUpTo(Len(said)) \/ feed'.text = Failed
    <3>1. PICK t \in Int : /\ t = TextUpTo(Len(said)) \/ t = Failed
                           /\ feed' = [feed EXCEPT !.step = "config", !.text = t]
      <4>1. TextUpTo(Len(said)) \in Int /\ Failed \in Int
        BY <2>2 DEF Failed
      <4> QED BY <2>1, <4>1
    <3> QED BY <1>1, <3>1 DEF FeedTyped
  <2>4. FeedTyped'
    BY <1>1, <1>2, <2>1, <2>3 DEF FeedTyped
  <2>5. Timely(feed.at, feed'.text)
    BY <2>2, <2>3 DEF Timely
  <2>6. FeedIsCurrent'
    BY <1>2, <1>3, <2>3, <2>5 DEF FeedIsCurrent, Timely
  <2> QED BY <1>3, <1>5, <2>1, <2>4, <2>6 DEF FeedIInv
<1>8. CASE FeedConfig
  <2>1. /\ feed.step = "config" /\ feed' = [feed EXCEPT !.step = "deliver"] /\ evs' = evs
        /\ slot' = ConfigUpTo(Len(said)) \/ slot' = Failed
    BY <1>8 DEF FeedConfig, Snapshot
  <2>2. ConfigUpTo(Len(said)) \in Int /\ \A n \in 0..Len(said) : ConfigUpTo(n) <= ConfigUpTo(Len(said))
    BY <1>1, LatestGrow
  <2>3. slot' \in Int /\ \A n \in 0..Len(said) : slot' # Failed => slot' >= ConfigUpTo(n)
    BY <2>1, <2>2 DEF Failed
  <2>4. /\ feed' \in [step : {"read", "text", "config", "deliver", "wait"}, at : Nat, text : Int]
        /\ feed'.step = "deliver" /\ feed'.at = feed.at /\ feed'.text = feed.text
    BY <1>1, <2>1 DEF FeedTyped
  <2>5. FeedTyped'
    BY <1>1, <1>2, <2>1, <2>3, <2>4 DEF FeedTyped
  <2>6. FeedIsCurrent'
    BY <1>1, <1>2, <1>3, <2>1, <2>3, <2>4 DEF FeedIInv, FeedIsCurrent, Timely, Fresh
  <2>7. EventsCurrent'
    BY <1>1, <1>2, <1>3, <2>1, <2>3 DEF FeedIInv, EventsCurrent, Timely, Fresh
  <2> QED BY <1>3, <2>5, <2>6, <2>7 DEF FeedIInv
<1>9. CASE FeedDelivers
  <2>1. PICK e : e = [trigger |-> feed.at, text |-> feed.text]
    OBVIOUS
  <2>2. /\ feed.step = "deliver" /\ slot' = slot /\ evs' = Append(evs, e)
        /\ feed' = [feed EXCEPT !.step = IF lasting THEN "read" ELSE "wait"]
    BY <1>9, <2>1 DEF FeedDelivers
  <2>3. /\ feed' \in [step : {"read", "text", "config", "deliver", "wait"}, at : Nat, text : Int]
        /\ feed'.step \in {"read", "wait"} /\ feed'.at = feed.at
    BY <1>1, <2>2 DEF FeedTyped
  <2>4. e \in Events /\ e.trigger \in 1..Len(said) /\ Timely(e.trigger, e.text) /\ Fresh(e.trigger)
    BY <1>1, <2>1, <2>2 DEF Events, FeedTyped, FeedIInv, FeedIsCurrent
  <2>5. /\ evs' \in Seq(Events)
        /\ \A k \in DOMAIN evs' : evs'[k] = e \/ (k \in DOMAIN evs /\ evs'[k] = evs[k])
    BY <1>1, <2>2, <2>4
  <2>6. FeedTyped'
    BY <1>1, <1>2, <2>2, <2>3, <2>5 DEF FeedTyped
  <2>7. FeedIsCurrent'
    BY <2>3 DEF FeedIsCurrent
  <2>8. EventsCurrent'
    BY <1>2, <1>3, <2>2, <2>4, <2>5 DEF FeedIInv, EventsCurrent, Timely, Fresh
  <2> QED BY <1>3, <2>6, <2>7, <2>8 DEF FeedIInv
<1> QED BY <1>6, <1>7, <1>8, <1>9 DEF FeedStep

\* What a script publishes: it completes no answer.
LEMMA ScriptsComplete ==
  ASSUME NEW o \in Nat
  PROVE  /\ \A info \in Told : /\ ToolResult(o, info) \in Chunks /\ ToolResult(o, info).tag = "result"
                                 /\ ToolText(o, info) \in Chunks /\ ToolText(o, info).tag = "tool"
         /\ \A spec \in Specs : /\ BuildPublishChunk(spec, o) \in Chunks
                                /\ BuildPublishChunk(spec, o).tag \in {"plain", "config"}
                                /\ BuildPublishChunk(spec, o).op = o
<1>1. ASSUME NEW info \in Told
      PROVE  /\ ToolResult(o, info) \in Chunks /\ ToolResult(o, info).tag = "result"
             /\ ToolText(o, info) \in Chunks /\ ToolText(o, info).tag = "tool"
  BY DEF ToolResult, ToolText, Said, Chunks, ChunkTypes, Roles, Tags
<1>2. \A spec \in Specs : /\ spec.type \in ChunkTypes /\ spec.role \in Roles
                          /\ spec.tag \in {"plain", "config"} /\ spec.transient \in BOOLEAN
  <2>1. ASSUME NEW type \in ChunkTypes, NEW role \in Roles, NEW tag \in {"plain", "config"},
               NEW passing \in BOOLEAN, NEW spec,
               spec = [type |-> type, role |-> role, tag |-> tag, transient |-> passing]
        PROVE  /\ spec.type \in ChunkTypes /\ spec.role \in Roles
               /\ spec.tag \in {"plain", "config"} /\ spec.transient \in BOOLEAN
    BY <2>1
  <2>2. /\ {"text", "null", "other"} \subseteq ChunkTypes /\ {"none", "user"} \subseteq Roles
        /\ TRUE \in BOOLEAN /\ FALSE \in BOOLEAN
    BY DEF ChunkTypes, Roles
  <2> QED BY <2>1, <2>2 DEF Specs
<1>3. ASSUME NEW type \in ChunkTypes, NEW role \in Roles, NEW tag \in Tags, NEW passing \in BOOLEAN
      PROVE  /\ Said(type, role, tag, passing, o, "") \in Chunks
             /\ Said(type, role, tag, passing, o, "").tag = tag
             /\ Said(type, role, tag, passing, o, "").op = o
  BY DEF Said, Chunks
<1>4. ASSUME NEW spec \in Specs
      PROVE  /\ BuildPublishChunk(spec, o) \in Chunks
             /\ BuildPublishChunk(spec, o).tag \in {"plain", "config"}
             /\ BuildPublishChunk(spec, o).op = o
  <2>1. PICK role \in Roles : BuildPublishChunk(spec, o) = Said(spec.type, role, spec.tag, spec.transient, o, "")
    BY <1>2 DEF BuildPublishChunk, Roles
  <2>2. spec.tag \in Tags
    BY <1>2 DEF Tags
  <2>3. PICK type \in ChunkTypes, tag \in Tags, passing \in BOOLEAN :
            /\ type = spec.type /\ tag = spec.tag /\ passing = spec.transient
            /\ tag \in {"plain", "config"}
    BY <1>2, <2>2, Zenon
  <2>4. BuildPublishChunk(spec, o) = Said(type, role, tag, passing, o, "")
    BY <2>1, <2>3, Zenon
  <2>5. PICK chunk : chunk = Said(type, role, tag, passing, o, "")
    OBVIOUS
  <2>6. chunk \in Chunks /\ chunk.tag = tag /\ chunk.op = o
    BY <1>3, <2>5
  <2> QED BY <2>3, <2>4, <2>5, <2>6
<1> QED BY <1>1, <1>4

-----------------------------------------------------------------------------

Outcomes == [op : Nat, info : {"none", "ok", "err", "worded", "timeout", "lost"}]

Operated ==
    [kind : {"rpc", "tool", "publish"}, asked : BOOLEAN,
     step : {"called", "result", "text", "done", "dropped"}, got : Outcomes]

CallsTyped ==
    /\ ops \in Seq(Operated)
    /\ reports \in Seq(Seq(Chunks)) /\ Len(reports) = Len(ops)
    /\ flight \subseteq Chunks /\ unsent \subseteq Chunks
    /\ answers \in Seq([op : Nat, info : {"ok", "err", "worded"}])
    /\ \A c \in flight \cup unsent : c.op \in 1..Len(ops)

\* What a call got from the service, the service has answered to it.
AnswerIsOf(o) ==
    ops[o].got.info \in {"ok", "err", "worded"} /\ ops[o].asked =>
        Got(o, ops[o].got.info) \in ToSet(answers)

\* The two chunks that tell what a tool call got.
ResultFor(o, op) == ToolResult(o, ResultOf(op.got))
TextFor(o, op) == ToolText(o, WordingOf(op.got))

\* Those that are written by now.
WrittenBy(o, op) ==
    (IF op.step \in {"text", "done"} THEN {ResultFor(o, op)} ELSE {})
        \cup (IF op.step = "done" THEN {TextFor(o, op)} ELSE {})

Orders(r, t) == {<<>>, <<r>>, <<t>>, <<r, t>>, <<t, r>>}

\* Each of them is on its way, lost or in the session, and once in the session.
ToldOnce(o, op, rep, fly, lost) ==
    /\ op.step \in {"result", "text"} => op.kind = "tool"
    /\ op.kind = "tool" /\ op.step # "dropped" =>
          /\ rep \in Orders(ResultFor(o, op), TextFor(o, op))
          /\ fly \cup lost \cup ToSet(rep) = WrittenBy(o, op)
          /\ fly \cap ToSet(rep) = {}

TellsOf(S, o) == {c \in S : c.op = o /\ c.tag \in {"result", "tool"}}

TellsOnce(o) == ToldOnce(o, ops[o], reports[o], TellsOf(flight, o), TellsOf(unsent, o))

CallsIInv ==
    /\ CallsTyped
    /\ \A o \in DOMAIN ops : AnswerIsOf(o) /\ TellsOnce(o)

-----------------------------------------------------------------------------

\* What is appended to a report keeps its two chunks in one of their orders, each once.
LEMMA OrdersGrow ==
  ASSUME NEW r, NEW t, r # t, NEW rep \in Orders(r, t), NEW c \in {r, t}, c \notin ToSet(rep)
  PROVE  Append(rep, c) \in Orders(r, t) /\ ToSet(Append(rep, c)) = ToSet(rep) \cup {c}
<1>0. ASSUME NEW a, NEW b PROVE Append(<<a>>, b) = <<a, b>>
  <2>1. <<a>> \in Seq({a, b}) /\ Len(<<a>>) = 1 /\ <<a>>[1] = a
    OBVIOUS
  <2>2. /\ Append(<<a>>, b) \in Seq({a, b}) /\ Len(Append(<<a>>, b)) = 2
        /\ Append(<<a>>, b)[1] = a /\ Append(<<a>>, b)[2] = b
    BY <2>1
  <2>3. <<a, b>> \in Seq({a, b}) /\ Len(<<a, b>>) = 2 /\ <<a, b>>[1] = a /\ <<a, b>>[2] = b
    OBVIOUS
  <2>4. \A i \in 1..2 : Append(<<a>>, b)[i] = <<a, b>>[i]
    BY <2>2, <2>3
  <2> QED BY <2>2, <2>3, <2>4, SeqEqual
<1>1. CASE rep = <<>>
  BY <1>1 DEF Orders, ToSet
<1>2. CASE rep = <<r>>
  <2>1. 1 \in DOMAIN rep /\ rep[1] = r
    BY <1>2
  <2>2. c = t
    BY <2>1 DEF ToSet
  <2>3. Append(rep, c) = <<r, t>>
    BY <1>0, <1>2, <2>2
  <2>4. ToSet(rep) = {r} /\ ToSet(<<r, t>>) = {r, t}
    BY <1>2 DEF ToSet
  <2> QED BY <2>2, <2>3, <2>4 DEF Orders
<1>3. CASE rep = <<t>>
  <2>1. 1 \in DOMAIN rep /\ rep[1] = t
    BY <1>3
  <2>2. c = r
    BY <2>1 DEF ToSet
  <2>3. Append(rep, c) = <<t, r>>
    BY <1>0, <1>3, <2>2
  <2>4. ToSet(rep) = {t} /\ ToSet(<<t, r>>) = {r, t}
    BY <1>3 DEF ToSet
  <2> QED BY <2>2, <2>3, <2>4 DEF Orders
<1>4. CASE rep \in {<<r, t>>, <<t, r>>}
  <2>1. 1 \in DOMAIN rep /\ 2 \in DOMAIN rep /\ {rep[1], rep[2]} = {r, t}
    BY <1>4
  <2> QED BY <2>1 DEF ToSet
<1> QED BY <1>1, <1>2, <1>3, <1>4 DEF Orders

\* What a tool call writes: two chunks.
LEMMA TellsAre ==
  ASSUME NEW o \in Nat, NEW op \in Operated
  PROVE  /\ ResultFor(o, op) \in Chunks /\ ResultFor(o, op).tag = "result" /\ ResultFor(o, op).op = o
         /\ TextFor(o, op) \in Chunks /\ TextFor(o, op).tag = "tool" /\ TextFor(o, op).op = o
         /\ ResultFor(o, op) # TextFor(o, op)
<1>1. ResultOf(op.got) \in Told /\ WordingOf(op.got) \in Told
  BY DEF ResultOf, WordingOf, Told
<1>2. /\ ResultFor(o, op) \in Chunks /\ ResultFor(o, op).tag = "result"
      /\ TextFor(o, op) \in Chunks /\ TextFor(o, op).tag = "tool"
  BY <1>1, ScriptsComplete DEF ResultFor, TextFor
<1>3. ResultFor(o, op).op = o /\ TextFor(o, op).op = o
  BY DEF ResultFor, TextFor, ToolResult, ToolText, Said
<1> QED BY <1>2, <1>3

\* What is known of an operation.
LEMMA OperationIs ==
  ASSUME CallsIInv, NEW o \in DOMAIN ops
  PROVE  /\ ops[o] \in Operated /\ o \in 1..Len(ops) /\ o \in Nat /\ Len(ops) \in Nat
         /\ reports[o] \in Seq(Chunks) /\ o \in DOMAIN reports
         /\ AnswerIsOf(o) /\ TellsOnce(o)
<1>1. ops \in Seq(Operated) /\ reports \in Seq(Seq(Chunks)) /\ Len(reports) = Len(ops)
  BY DEF CallsIInv, CallsTyped
<1> QED BY <1>1 DEF CallsIInv

\* A step after which one operation has changed, and nothing of what the others wrote.
LEMMA OneOperationKeeps ==
  ASSUME CallsIInv, NEW o \in DOMAIN ops, NEW op \in Operated,
         ops' = [ops EXCEPT ![o] = op], UNCHANGED <<reports, answers>>,
         NEW fly \in SUBSET Chunks, flight' = flight \cup fly,
         NEW lost \in SUBSET Chunks, unsent' = unsent \cup lost,
         \A c \in fly \cup lost : c.op = o,
         op.got.info \in {"ok", "err", "worded"} /\ op.asked => Got(o, op.got.info) \in ToSet(answers),
         ToldOnce(o, op, reports[o], TellsOf(flight', o), TellsOf(unsent', o))
  PROVE  CallsIInv'
<1>1. ops \in Seq(Operated) /\ Len(ops) \in Nat /\ o \in 1..Len(ops)
  BY DEF CallsIInv, CallsTyped
<1>2. /\ ops' \in Seq(Operated) /\ Len(ops') = Len(ops) /\ DOMAIN ops' = DOMAIN ops
      /\ ops'[o] = op /\ \A p \in DOMAIN ops : p # o => ops'[p] = ops[p]
  BY <1>1
<1>3. CallsTyped'
  BY <1>1, <1>2 DEF CallsIInv, CallsTyped
<1>4. ASSUME NEW p \in DOMAIN ops, p # o PROVE AnswerIsOf(p)' /\ TellsOnce(p)'
  <2>1. AnswerIsOf(p) /\ TellsOnce(p)
    BY DEF CallsIInv
  <2>2. TellsOf(flight', p) = TellsOf(flight, p) /\ TellsOf(unsent', p) = TellsOf(unsent, p)
    BY <1>4 DEF TellsOf
  <2> QED BY <1>2, <1>4, <2>1, <2>2 DEF AnswerIsOf, TellsOnce
<1>5. AnswerIsOf(o)' /\ TellsOnce(o)'
  BY <1>2 DEF AnswerIsOf, TellsOnce
<1> QED BY <1>2, <1>3, <1>4, <1>5 DEF CallsIInv

\* A step that makes a new operation.
LEMMA NewOperationKeeps ==
  ASSUME CallsIInv, NEW op \in Operated,
         ops' = Append(ops, op), reports' = Append(reports, <<>>), UNCHANGED <<answers, unsent>>,
         NEW fly \in SUBSET Chunks, flight' = flight \cup fly,
         \A c \in fly : c.op = Len(ops) + 1 /\ c.tag \notin {"result", "tool"},
         op.got.info \in {"ok", "err", "worded"} => ~op.asked,
         op.kind = "tool" => op.step \in {"called", "result"},
         op.kind # "tool" => op.step \in {"called", "done"}
  PROVE  CallsIInv'
<1>1. /\ ops \in Seq(Operated) /\ Len(ops) \in Nat /\ DOMAIN ops = 1..Len(ops)
      /\ reports \in Seq(Seq(Chunks)) /\ Len(reports) = Len(ops)
      /\ <<>> \in Seq(Chunks)
  BY DEF CallsIInv, CallsTyped
<1>2. PICK new : new = Len(ops) + 1
  OBVIOUS
<1>3. /\ ops' \in Seq(Operated) /\ Len(ops') = new /\ DOMAIN ops' = 1..new
      /\ reports' \in Seq(Seq(Chunks)) /\ Len(reports') = new
      /\ ops'[new] = op /\ reports'[new] = <<>>
      /\ \A p \in DOMAIN ops : ops'[p] = ops[p] /\ reports'[p] = reports[p]
      /\ \A p \in DOMAIN ops' : p = new \/ p \in DOMAIN ops
      /\ new \in Nat /\ new \notin DOMAIN ops
  BY <1>1, <1>2
<1>4. CallsTyped'
  BY <1>1, <1>2, <1>3 DEF CallsIInv, CallsTyped
<1>5. ASSUME NEW p \in DOMAIN ops PROVE AnswerIsOf(p)' /\ TellsOnce(p)'
  <2>1. AnswerIsOf(p) /\ TellsOnce(p)
    BY DEF CallsIInv
  <2>2. TellsOf(flight', p) = TellsOf(flight, p)
    BY DEF TellsOf
  <2> QED BY <1>3, <2>1, <2>2 DEF AnswerIsOf, TellsOnce
<1>6. AnswerIsOf(new)' /\ TellsOnce(new)'
  <2>1. TellsOf(flight', new) = {} /\ TellsOf(unsent', new) = {}
    BY <1>1, <1>3 DEF TellsOf, CallsIInv, CallsTyped
  <2>2. ToSet(<<>>) = {}
    BY DEF ToSet
  <2>3. ToldOnce(new, op, <<>>, {}, {})
    BY <2>2 DEF ToldOnce, Orders, WrittenBy
  <2>4. AnswerIsOf(new)'
    BY <1>3 DEF AnswerIsOf
  <2>5. TellsOnce(new)'
    BY <1>3, <2>1, <2>3 DEF TellsOnce
  <2> QED BY <2>4, <2>5
<1> QED BY <1>3, <1>4, <1>5, <1>6 DEF CallsIInv

\* The bus takes a chunk: one that tells of a tool call goes to its reports.
LEMMA BusTakesKeeps ==
  ASSUME CallsIInv, NEW c \in flight, BusTakes(c)
  PROVE  CallsIInv'
<1>1. /\ ops \in Seq(Operated) /\ Len(ops) \in Nat /\ DOMAIN ops = 1..Len(ops)
      /\ reports \in Seq(Seq(Chunks)) /\ Len(reports) = Len(ops)
      /\ c \in Chunks /\ c.op \in DOMAIN ops
  BY DEF CallsIInv, CallsTyped
<1>2. flight' = flight \ {c} /\ UNCHANGED <<answers, unsent, ops>>
  BY DEF BusTakes
<1>3. PICK o : o = c.op
  OBVIOUS
<1>4. ASSUME reports' \in Seq(Seq(Chunks)), Len(reports') = Len(ops),
             \A p \in DOMAIN ops : TellsOnce(p)'
      PROVE  CallsIInv'
  BY <1>1, <1>2, <1>4 DEF CallsIInv, CallsTyped, AnswerIsOf
<1>5. CASE c.tag \in {"result", "tool"}
  <2>1. reports' = [reports EXCEPT ![o] = Append(reports[o], c)]
    BY <1>3, <1>5 DEF BusTakes
  <2>2. reports[o] \in Seq(Chunks) /\ o \in DOMAIN reports /\ Append(reports[o], c) \in Seq(Chunks)
    BY <1>1, <1>3
  <2>3. /\ reports' \in Seq(Seq(Chunks)) /\ Len(reports') = Len(ops)
        /\ reports'[o] = Append(reports[o], c)
        /\ \A p \in DOMAIN ops : p # o => reports'[p] = reports[p]
    BY <1>1, <2>1, <2>2
  <2>4. ASSUME NEW p \in DOMAIN ops, p # o PROVE TellsOnce(p)'
    <3>1. TellsOf(flight', p) = TellsOf(flight, p)
      BY <1>2, <1>3, <2>4 DEF TellsOf
    <3>2. TellsOnce(p)
      BY DEF CallsIInv
    <3> QED BY <1>2, <2>3, <2>4, <3>1, <3>2 DEF TellsOnce
  <2>5. TellsOnce(o)'
    <3>1. PICK op, rep, fly, lost : /\ op = ops[o] /\ rep = reports[o]
                                    /\ fly = TellsOf(flight, o) /\ lost = TellsOf(unsent, o)
      OBVIOUS
    <3>2. ToldOnce(o, op, rep, fly, lost) /\ op \in Operated /\ o \in Nat
      BY <1>1, <1>3, <3>1 DEF CallsIInv, TellsOnce
    <3>3. TellsOf(flight', o) = fly \ {c} /\ c \in fly
      BY <1>2, <1>3, <1>5, <3>1 DEF TellsOf
    <3>4. ASSUME op.kind = "tool", op.step # "dropped"
          PROVE  /\ Append(rep, c) \in Orders(ResultFor(o, op), TextFor(o, op))
                 /\ ToSet(Append(rep, c)) = ToSet(rep) \cup {c}
      <4>1. /\ rep \in Orders(ResultFor(o, op), TextFor(o, op))
            /\ c \in WrittenBy(o, op) /\ c \notin ToSet(rep)
        BY <3>2, <3>3, <3>4 DEF ToldOnce
      <4>2. c \in {ResultFor(o, op), TextFor(o, op)}
        BY <4>1 DEF WrittenBy
      <4>3. ResultFor(o, op) # TextFor(o, op)
        BY <3>2, TellsAre
      <4> QED BY <4>1, <4>2, <4>3, OrdersGrow
    <3>5. ToldOnce(o, op, Append(rep, c), fly \ {c}, lost)
      BY <3>2, <3>3, <3>4 DEF ToldOnce
    <3> QED BY <1>2, <2>3, <3>1, <3>3, <3>5 DEF TellsOnce
  <2> QED BY <1>4, <2>3, <2>4, <2>5
<1>6. CASE c.tag \notin {"result", "tool"}
  <2>1. reports' = reports
    BY <1>6 DEF BusTakes
  <2>2. \A p : TellsOf(flight', p) = TellsOf(flight, p)
    BY <1>2, <1>6 DEF TellsOf
  <2>3. \A p \in DOMAIN ops : TellsOnce(p)'
    BY <1>2, <2>1, <2>2 DEF CallsIInv, TellsOnce
  <2> QED BY <1>1, <1>4, <2>1, <2>3
<1> QED BY <1>5, <1>6

\* A call that waits comes to its end.
LEMMA EndsKeeps ==
  ASSUME CallsIInv, NEW o \in DOMAIN ops, NEW got \in Outcomes, ops[o].step = "called", Ends(o, got),
         got.info \in {"ok", "err", "worded"} => Got(o, got.info) \in ToSet(answers)
  PROVE  CallsIInv'
<1>1. PICK b : b = ops[o]
  OBVIOUS
<1>2. b \in Operated /\ b.step = "called" /\ TellsOnce(o)
  BY <1>1, OperationIs
<1>3. PICK d : d = [b EXCEPT !.step = Then(b.kind), !.got = got]
  OBVIOUS
<1>4. ops' = [ops EXCEPT ![o] = d] /\ UNCHANGED <<reports, answers, flight, unsent>>
  BY <1>1, <1>2, <1>3 DEF Ends, heard, Operated
<1>5. /\ d \in Operated /\ d.step = Then(b.kind) /\ d.kind = b.kind /\ d.got = got
      /\ d.step \in {"result", "done"} /\ (d.step = "result" <=> d.kind = "tool")
  BY <1>2, <1>3 DEF Operated, Then
<1>6. ToldOnce(o, d, reports[o], TellsOf(flight, o), TellsOf(unsent, o))
  <2>1. ToldOnce(o, b, reports[o], TellsOf(flight, o), TellsOf(unsent, o))
    BY <1>1, <1>2 DEF TellsOnce
  <2>2. WrittenBy(o, b) = {} /\ (d.kind = "tool" => WrittenBy(o, d) = {})
    BY <1>2, <1>5 DEF WrittenBy
  <2>3. d.kind = "tool" => /\ TellsOf(flight, o) \cup TellsOf(unsent, o) \cup ToSet(reports[o]) = {}
                           /\ reports[o] \in Orders(ResultFor(o, b), TextFor(o, b))
    BY <1>2, <1>5, <2>1, <2>2 DEF ToldOnce
  <2>4. d.kind = "tool" => reports[o] = <<>>
    <3>1. \A r : \A t : ToSet(<<r>>) # {} /\ ToSet(<<r, t>>) # {}
      BY DEF ToSet
    <3> QED BY <2>3, <3>1 DEF Orders
  <2> QED BY <1>5, <2>2, <2>3, <2>4 DEF ToldOnce, Orders
<1>7. PICK none \in SUBSET Chunks : none = {}
  OBVIOUS
<1>8. flight' = flight \cup none /\ unsent' = unsent \cup none
      /\ TellsOf(flight', o) = TellsOf(flight, o) /\ TellsOf(unsent', o) = TellsOf(unsent, o)
  BY <1>4, <1>7
<1> QED BY <1>4, <1>5, <1>6, <1>7, <1>8, OneOperationKeeps

\* A tool call tells the session what it got.
LEMMA TellKeeps ==
  ASSUME CallsIInv, NEW o \in DOMAIN ops, ToolTells(o) \/ ToolWrites(o)
  PROVE  CallsIInv'
<1>1. PICK b : b = ops[o]
  OBVIOUS
<1>2. b \in Operated /\ o \in Nat /\ TellsOnce(o) /\ AnswerIsOf(o) /\ b.step \in {"result", "text"}
  BY <1>1, OperationIs DEF ToolTells, ToolWrites
<1>3. b.kind = "tool" /\ ToldOnce(o, b, reports[o], TellsOf(flight, o), TellsOf(unsent, o))
  BY <1>1, <1>2 DEF TellsOnce, ToldOnce
<1>4. PICK d : d = [b EXCEPT !.step = IF b.step = "result" THEN "text" ELSE "done"]
  OBVIOUS
<1>5. PICK c : c = IF b.step = "result" THEN ResultFor(o, b) ELSE TextFor(o, b)
  OBVIOUS
<1>6. ops' = [ops EXCEPT ![o] = d] /\ UNCHANGED <<reports, answers>> /\ OneShot(c)
  <2>1. CASE ToolTells(o)
    BY <1>1, <1>2, <1>4, <1>5, <2>1 DEF ToolTells, heard, Operated, ResultFor
  <2>2. CASE ToolWrites(o)
    BY <1>1, <1>2, <1>4, <1>5, <2>2 DEF ToolWrites, heard, Operated, TextFor
  <2> QED BY <2>1, <2>2
<1>7. /\ d \in Operated /\ d.kind = "tool" /\ d.got = b.got /\ d.asked = b.asked
      /\ d.step = IF b.step = "result" THEN "text" ELSE "done"
  BY <1>2, <1>3, <1>4 DEF Operated
<1>8. /\ ResultFor(o, d) = ResultFor(o, b) /\ TextFor(o, d) = TextFor(o, b)
      /\ c \in Chunks /\ c.op = o /\ c.tag \in {"result", "tool"} /\ ResultFor(o, b) # TextFor(o, b)
  BY <1>2, <1>5, <1>7, TellsAre DEF ResultFor, TextFor
<1>9. PICK fly \in SUBSET Chunks, lost \in SUBSET Chunks :
        /\ flight' = flight \cup fly /\ unsent' = unsent \cup lost /\ fly \cup lost = {c}
  <2>1. {c} \in SUBSET Chunks /\ {} \in SUBSET Chunks
    BY <1>8
  <2>2. CASE flight' = flight \cup {c} /\ unsent' = unsent
    BY <2>1, <2>2
  <2>3. CASE unsent' = unsent \cup {c} /\ flight' = flight
    BY <2>1, <2>3
  <2> QED BY <1>6, <2>2, <2>3 DEF OneShot
<1>10. TellsOf(flight', o) = TellsOf(flight, o) \cup fly /\ TellsOf(unsent', o) = TellsOf(unsent, o) \cup lost
  BY <1>8, <1>9 DEF TellsOf
<1>11. WrittenBy(o, d) = WrittenBy(o, b) \cup {c} /\ c \notin WrittenBy(o, b)
  BY <1>2, <1>5, <1>7, <1>8 DEF WrittenBy
<1>12. ToldOnce(o, d, reports[o], TellsOf(flight', o), TellsOf(unsent', o))
  <2>1. /\ reports[o] \in Orders(ResultFor(o, d), TextFor(o, d))
        /\ TellsOf(flight, o) \cup TellsOf(unsent, o) \cup ToSet(reports[o]) = WrittenBy(o, b)
        /\ TellsOf(flight, o) \cap ToSet(reports[o]) = {}
    BY <1>2, <1>3, <1>8 DEF ToldOnce
  <2>2. (TellsOf(flight, o) \cup fly) \cap ToSet(reports[o]) = {}
    BY <1>9, <1>11, <2>1
  <2>3. (TellsOf(flight, o) \cup fly) \cup (TellsOf(unsent, o) \cup lost) \cup ToSet(reports[o]) = WrittenBy(o, d)
    BY <1>9, <1>11, <2>1
  <2> QED BY <1>7, <1>10, <2>1, <2>2, <2>3 DEF ToldOnce
<1>13. d.got.info \in {"ok", "err", "worded"} /\ d.asked => Got(o, d.got.info) \in ToSet(answers)
  BY <1>1, <1>2, <1>7 DEF AnswerIsOf
<1>14. \A x \in fly \cup lost : x.op = o
  BY <1>8, <1>9
<1> QED BY <1>6, <1>7, <1>9, <1>12, <1>13, <1>14, OneOperationKeeps

\* The runtime ends: what its operations have under way is dropped.
LEMMA ScriptEndsKeeps ==
  ASSUME CallsIInv, ScriptEnds
  PROVE  CallsIInv'
<1>1. /\ ops \in Seq(Operated) /\ Len(ops) \in Nat /\ DOMAIN ops = 1..Len(ops)
      /\ UNCHANGED <<reports, answers, flight, unsent>>
      /\ ops' = [o \in DOMAIN ops |->
                   IF ops[o].step = "done" THEN ops[o] ELSE [ops[o] EXCEPT !.step = "dropped"]]
  BY DEF CallsIInv, CallsTyped, ScriptEnds, heard
<1>2. ASSUME NEW o \in DOMAIN ops
      PROVE  ops'[o] \in Operated /\ AnswerIsOf(o)' /\ TellsOnce(o)'
  <2>1. PICK b, d : b = ops[o] /\ d = [b EXCEPT !.step = "dropped"]
    OBVIOUS
  <2>2. b \in Operated /\ AnswerIsOf(o) /\ TellsOnce(o)
    BY <2>1, OperationIs
  <2>3. d \in Operated /\ d.got = b.got /\ d.asked = b.asked /\ d.step = "dropped"
    BY <2>1, <2>2 DEF Operated
  <2>4. ops'[o] = b \/ ops'[o] = d
    BY <1>1, <2>1
  <2>5. AnswerIsOf(o)'
    BY <1>1, <2>1, <2>2, <2>3, <2>4 DEF AnswerIsOf
  <2>6. TellsOnce(o)'
    <3>1. ToldOnce(o, d, reports[o], TellsOf(flight, o), TellsOf(unsent, o))
      BY <2>3 DEF ToldOnce
    <3> QED BY <1>1, <2>1, <2>2, <2>4, <3>1 DEF TellsOnce
  <2> QED BY <2>2, <2>3, <2>4, <2>5, <2>6
<1>3. DOMAIN ops' = DOMAIN ops /\ ops' \in Seq(Operated) /\ Len(ops') = Len(ops)
  <2>1. DOMAIN ops' = 1..Len(ops) /\ ops' = [o \in 1..Len(ops) |-> ops'[o]]
    BY <1>1
  <2>2. \A o \in 1..Len(ops) : ops'[o] \in Operated
    BY <1>1, <1>2
  <2> QED BY <1>1, <2>1, <2>2
<1> QED BY <1>1, <1>2, <1>3 DEF CallsIInv, CallsTyped

\* A script calls an operation.
LEMMA ScriptCallsKeeps ==
  ASSUME CallsIInv,
         \/ \E kind \in {"rpc", "tool"} : Calls(kind) \/ CallFails(kind)
         \/ \E spec \in Specs : Publishes(spec)
  PROVE  CallsIInv'
<1>1. New \in Nat
  BY DEF CallsIInv, CallsTyped, New
<1>2. ASSUME NEW kind \in {"rpc", "tool"}, Calls(kind) PROVE CallsIInv'
  <2>1. PICK op : op = Called(kind)
    OBVIOUS
  <2>2. op \in Operated /\ op.step = "called" /\ op.got.info = "none"
    BY <2>1 DEF Called, Operated, NoOutcome, Got, Outcomes
  <2>3. /\ ops' = Append(ops, op) /\ reports' = Append(reports, <<>>)
        /\ UNCHANGED <<answers, unsent>> /\ flight' = flight \cup {}
    BY <1>2, <2>1 DEF Calls
  <2>4. {} \in SUBSET Chunks
    OBVIOUS
  <2> QED BY <2>2, <2>3, <2>4, NewOperationKeeps
<1>3. ASSUME NEW kind \in {"rpc", "tool"}, CallFails(kind) PROVE CallsIInv'
  <2>1. PICK op : op = [Called(kind) EXCEPT !.asked = FALSE, !.step = Then(kind), !.got = Got(New, "lost")]
    OBVIOUS
  <2>2. /\ op \in Operated /\ op.kind = kind /\ op.got.info = "lost"
        /\ op.step = Then(kind)
    BY <1>1, <2>1 DEF Called, Operated, NoOutcome, Got, Outcomes, Then
  <2>3. /\ ops' = Append(ops, op) /\ reports' = Append(reports, <<>>)
        /\ UNCHANGED <<answers, unsent>> /\ flight' = flight \cup {}
    BY <1>3, <2>1 DEF CallFails
  <2>4. {} \in SUBSET Chunks
    OBVIOUS
  <2> QED BY <2>2, <2>3, <2>4, NewOperationKeeps DEF Then
<1>4. ASSUME NEW spec \in Specs, Publishes(spec) PROVE CallsIInv'
  <2>1. ASSUME NEW info \in {"ok", "err"}, NEW op,
               op = [kind |-> "publish", asked |-> FALSE, step |-> "done", got |-> Got(New, info)]
        PROVE  /\ op \in Operated /\ op.kind = "publish" /\ op.step = "done" /\ ~op.asked
    BY <1>1, <2>1 DEF Operated, Got, Outcomes
  <2>2. PICK c : c = BuildPublishChunk(spec, New)
    OBVIOUS
  <2>3. c \in Chunks /\ c.op = New /\ c.tag \notin {"result", "tool"}
    BY <1>1, <2>2, ScriptsComplete
  <2>4. reports' = Append(reports, <<>>) /\ UNCHANGED <<answers, unsent>>
    BY <1>4 DEF Publishes
  <2>5. CASE /\ flight' = flight \cup {BuildPublishChunk(spec, New)}
             /\ ops' = Append(ops, [kind |-> "publish", asked |-> FALSE, step |-> "done", got |-> Got(New, "ok")])
    <3>1. PICK op : op = [kind |-> "publish", asked |-> FALSE, step |-> "done", got |-> Got(New, "ok")]
      OBVIOUS
    <3>2. PICK fly \in SUBSET Chunks : fly = {c}
      BY <2>3
    <3> QED BY <2>1, <2>2, <2>3, <2>4, <2>5, <3>1, <3>2, NewOperationKeeps DEF New
  <2>6. CASE /\ flight' = flight
             /\ ops' = Append(ops, [kind |-> "publish", asked |-> FALSE, step |-> "done", got |-> Got(New, "err")])
    <3>1. PICK op : op = [kind |-> "publish", asked |-> FALSE, step |-> "done", got |-> Got(New, "err")]
      OBVIOUS
    <3>2. PICK fly \in SUBSET Chunks : fly = {}
      OBVIOUS
    <3> QED BY <2>1, <2>4, <2>6, <3>1, <3>2, NewOperationKeeps
  <2> QED BY <1>4, <2>5, <2>6 DEF Publishes
<1> QED BY <1>2, <1>3, <1>4

\* An operation gets its outcome, or tells of it.
LEMMA OperationGoesOn ==
  ASSUME CallsIInv, NEW o \in DOMAIN ops, OpStep(o)
  PROVE  CallsIInv'
<1>1. o \in Nat
  BY OperationIs
<1>2. CASE CallAnswered(o)
  <2> DEFINE I == {i \in 1..Len(answers) : answers[i].op = o}
  <2>1. PICK i : i = IF I # {} THEN Min(I) ELSE 0
    OBVIOUS
  <2>2. ops[o].step = "called" /\ i # 0 /\ Ends(o, answers[i])
    BY <1>2, <2>1 DEF CallAnswered, SelectInSeq, IsAnswer
  <2>3. I \in SUBSET Nat
    OBVIOUS
  <2>4. i \in I
    BY <2>1, <2>2, <2>3, SmallestOf
  <2>5. PICK got : got = answers[i]
    OBVIOUS
  <2>6. got \in [op : Nat, info : {"ok", "err", "worded"}] /\ got.op = o /\ got \in ToSet(answers)
    <3>1. answers \in Seq([op : Nat, info : {"ok", "err", "worded"}]) /\ i \in DOMAIN answers
      BY <2>4 DEF CallsIInv, CallsTyped
    <3>2. got \in [op : Nat, info : {"ok", "err", "worded"}] /\ got \in ToSet(answers)
      <4>1. got \in ToSet(answers)
        BY <2>5, <3>1, Zenon DEF ToSet
      <4>2. got \in [op : Nat, info : {"ok", "err", "worded"}]
        <5> DEFINE S == [op : Nat, info : {"ok", "err", "worded"}]
        <5>1. answers \in Seq(S) /\ i \in 1..Len(answers)
          BY <3>1, <2>4
        <5> HIDE DEF S
        <5>2. answers[i] \in S
          BY <5>1, ElementOfSeq
        <5> QED BY <5>2, <2>5 DEF S
      <4> QED BY <4>1, <4>2
    <3> QED BY <2>4, <2>5, <3>2
  <2>7. got \in Outcomes /\ got = Got(o, got.info)
    BY <2>6 DEF Outcomes, Got
  <2> QED BY <2>2, <2>5, <2>6, <2>7, EndsKeeps
<1>3. CASE CallTimesOut(o)
  <2>1. PICK got : got = Got(o, "timeout")
    OBVIOUS
  <2>2. got \in Outcomes /\ got.info = "timeout"
    BY <1>1, <2>1 DEF Got, Outcomes
  <2> QED BY <1>3, <2>1, <2>2, EndsKeeps DEF CallTimesOut
<1>4. CASE CallCutOff(o)
  <2>1. PICK got : got = Got(o, "lost")
    OBVIOUS
  <2>2. got \in Outcomes /\ got.info = "lost"
    BY <1>1, <2>1 DEF Got, Outcomes
  <2> QED BY <1>4, <2>1, <2>2, EndsKeeps DEF CallCutOff
<1> QED BY <1>2, <1>3, <1>4, TellKeeps DEF OpStep

\* A service answers a request.
LEMMA ServiceAnswersKeeps ==
  ASSUME CallsIInv, NEW o \in DOMAIN ops, NEW info \in {"ok", "err", "worded"}, ServiceAnswers(o, info)
  PROVE  CallsIInv'
<1>1. o \in Nat
  BY OperationIs
<1>2. PICK a : a = Got(o, info)
  OBVIOUS
<1>3. /\ answers' = Append(answers, a) /\ UNCHANGED <<ops, reports, flight, unsent>>
      /\ a \in [op : Nat, info : {"ok", "err", "worded"}]
      /\ answers \in Seq([op : Nat, info : {"ok", "err", "worded"}])
  BY <1>1, <1>2 DEF ServiceAnswers, Got, CallsIInv, CallsTyped
<1>4. answers' \in Seq([op : Nat, info : {"ok", "err", "worded"}]) /\ ToSet(answers) \subseteq ToSet(answers')
  <2>1. /\ answers' \in Seq([op : Nat, info : {"ok", "err", "worded"}])
        /\ \A i \in DOMAIN answers : i \in DOMAIN answers' /\ answers'[i] = answers[i]
    BY <1>3
  <2> QED BY <2>1 DEF ToSet
<1> QED BY <1>3, <1>4 DEF CallsIInv, CallsTyped, AnswerIsOf, TellsOnce

\* The outcomes of the operations and what the session is told of them, in every state.
THEOREM CallsInductive == JsCallsSpec => []CallsIInv
<1>1. JsCallsInit => CallsIInv
  BY DEF JsCallsInit, CallsIInv, CallsTyped
<1>2. CallsIInv /\ [JsCallsNext]_jsCallVars => CallsIInv'
  <2> SUFFICES ASSUME CallsIInv, [JsCallsNext]_jsCallVars PROVE CallsIInv'
    OBVIOUS
  <2>1. ASSUME UNCHANGED <<ops, reports, answers, flight, unsent>> PROVE CallsIInv'
    BY <2>1 DEF CallsIInv, CallsTyped, AnswerIsOf, TellsOnce
  <2>2. CASE \E c \in {UserText, ModelText, ModelDone, ConfigChunk, Tick} : OthersSay(c)
    BY <2>1, <2>2 DEF OthersSay
  <2>3. CASE FeedStep
    BY <2>1, <2>3 DEF FeedStep, FeedReads, FeedAssembles, FeedConfig, FeedDelivers, heard
  <2>4. CASE UNCHANGED jsCallVars
    BY <2>1, <2>4 DEF jsCallVars
  <2> QED
    BY <2>2, <2>3, <2>4, BusTakesKeeps, ServiceAnswersKeeps, ScriptEndsKeeps, ScriptCallsKeeps,
       OperationGoesOn
    DEF JsCallsNext
<1> QED BY <1>1, <1>2, PTL DEF JsCallsSpec

\* An answer a call got is the answer to it, and what the session is told of a tool call,
\* once, is what the script was told, for any number of operations and lost connections.
THEOREM CallsAreAlwaysTold == JsCallsSpec => []CallsAreTold
<1>1. CallsIInv => CallsAreTold
  <2> SUFFICES ASSUME CallsIInv, NEW o \in DOMAIN ops,
                      ops[o].kind = "tool", ops[o].step = "done", ~OnItsWay(o)
               PROVE  /\ Len(reports[o]) = 2 /\ {c.tag : c \in ToSet(reports[o])} = {"result", "tool"}
                      /\ ops[o].got.info = "ok" <=>
                           \A c \in ToSet(reports[o]) : c.info \in {"output", "completed"}
    BY DEF CallsAreTold, CallsIInv, AnswerIsOf
  <2>1. PICK op, r, t, rep : /\ op = ops[o] /\ rep = reports[o]
                             /\ r = ResultFor(o, op) /\ t = TextFor(o, op)
    OBVIOUS
  <2>2. op \in Operated /\ o \in Nat /\ TellsOnce(o)
    BY <2>1, OperationIs
  <2>3. r # t /\ r.tag = "result" /\ t.tag = "tool"
    BY <2>1, <2>2, TellsAre
  <2>4. TellsOf(flight, o) = {} /\ TellsOf(unsent, o) = {}
    BY DEF OnItsWay, TellsOf
  <2>5. ToSet(rep) = {r, t} /\ rep \in Orders(r, t)
    BY <2>1, <2>2, <2>4 DEF TellsOnce, ToldOnce, WrittenBy
  <2>6. Len(rep) = 2
    <3>1. \A x : ToSet(<<x>>) = {x}
      BY DEF ToSet
    <3>2. ToSet(<<>>) = {}
      BY DEF ToSet
    <3> QED BY <2>3, <2>5, <3>1, <3>2 DEF Orders
  <2>7. r.info = ResultOf(op.got) /\ t.info = WordingOf(op.got)
    BY <2>1 DEF ResultFor, TextFor, ToolResult, ToolText, Said
  <2>8. op.got.info = "ok" <=> r.info \in {"output", "completed"} /\ t.info \in {"output", "completed"}
    BY <2>7 DEF ResultOf, WordingOf
  <2> QED BY <2>1, <2>3, <2>5, <2>6, <2>8
<1> QED BY <1>1, CallsInductive, PTL

\* The feed of events is current in every state.
THEOREM FeedInductive == JsCallsSpec => []FeedIInv
<1>1. JsCallsInit => FeedIInv
  BY DEF JsCallsInit, FeedIInv, FeedTyped, OneCompletes, FeedIsCurrent, EventsCurrent
<1>2. CallsIInv /\ FeedIInv /\ [JsCallsNext]_jsCallVars => FeedIInv'
  <2> SUFFICES ASSUME CallsIInv, FeedIInv, [JsCallsNext]_jsCallVars PROVE FeedIInv'
    OBVIOUS
  <2>1. ASSUME UNCHANGED <<said, feed, slot, evs, flight>> PROVE FeedIInv'
    BY <2>1, FeedStays DEF FeedIInv, FeedTyped, OneCompletes
  <2>2. ASSUME NEW c \in {UserText, ModelText, ModelDone, ConfigChunk, Tick}, OthersSay(c) PROVE FeedIInv'
    <3>1. c \in Chunks /\ (c.tag = "complete" => EventOf(c) = "llm_complete")
      <4>1. CASE c = ModelDone
        BY <4>1 DEF ModelDone, Said, Chunks, ChunkTypes, Roles, Tags, EventOf
      <4>2. CASE c = UserText
        BY <4>2 DEF UserText, Said, Chunks, ChunkTypes, Roles, Tags
      <4>3. CASE c = ModelText
        BY <4>3 DEF ModelText, Said, Chunks, ChunkTypes, Roles, Tags
      <4>4. CASE c = ConfigChunk
        BY <4>4 DEF ConfigChunk, Said, Chunks, ChunkTypes, Roles, Tags
      <4>5. CASE c = Tick
        BY <4>5 DEF Tick, Said, Chunks, ChunkTypes, Roles, Tags
      <4> QED BY <4>1, <4>2, <4>3, <4>4, <4>5
    <3>2. said' = Append(said, c) /\ UNCHANGED <<flight, feed, slot, evs>>
      BY <2>2 DEF OthersSay, feedVars
    <3> QED BY <3>1, <3>2, SaidGrows
  <2>3. ASSUME NEW c \in flight, BusTakes(c) PROVE FeedIInv'
    <3>1. c \in Chunks /\ c.tag # "complete" /\ flight' \subseteq flight /\ UNCHANGED <<feed, slot, evs>>
      BY <2>3 DEF FeedIInv, FeedTyped, OneCompletes, BusTakes, feedVars
    <3>2. said' = said \/ said' = Append(said, c)
      BY <2>3 DEF BusTakes
    <3>3. CASE said' = said
      BY <3>1, <3>3, FeedStays DEF FeedIInv, FeedTyped, OneCompletes
    <3> QED BY <3>1, <3>2, <3>3, SaidGrows
  <2>4. CASE ScriptEnds
    <3>1. UNCHANGED <<said, flight, slot, evs>> /\ feed' = IF lasting THEN feed ELSE [feed EXCEPT !.step = "read"]
      BY <2>4 DEF ScriptEnds, heard
    <3>2. CASE feed' = feed
      BY <2>1, <3>1, <3>2
    <3>3. CASE feed' = [feed EXCEPT !.step = "read"]
      <4>1. /\ feed' \in [step : {"read", "text", "config", "deliver", "wait"}, at : Nat, text : Int]
            /\ feed'.step = "read" /\ feed'.at = feed.at
        BY <3>3 DEF FeedIInv, FeedTyped
      <4>2. \A n : ConfigUpTo(n)' = ConfigUpTo(n) /\ TextUpTo(n)' = TextUpTo(n)
        BY <3>1 DEF ConfigUpTo, TextUpTo, LatestUpTo, SelectLastInSubSeq
      <4>3. FeedTyped' /\ OneCompletes' /\ FeedIsCurrent'
        BY <3>1, <4>1 DEF FeedIInv, FeedTyped, OneCompletes, FeedIsCurrent, EventOf
      <4>4. EventsCurrent'
        BY <3>1, <4>2 DEF FeedIInv, EventsCurrent, Timely, Fresh
      <4> QED BY <4>3, <4>4 DEF FeedIInv
    <3> QED BY <3>1, <3>2, <3>3
  <2>5. ASSUME NEW fly \in SUBSET Chunks, \A c \in fly : c.tag # "complete",
               flight' = flight \cup fly, UNCHANGED <<said, feed, slot, evs>>
        PROVE  FeedIInv'
    BY <2>5, FeedStays DEF FeedIInv, FeedTyped, OneCompletes
  <2>6. ASSUME NEW spec \in Specs, Publishes(spec) PROVE FeedIInv'
    <3>1. PICK c : c = BuildPublishChunk(spec, New)
      OBVIOUS
    <3>2. New \in Nat
      BY DEF CallsIInv, CallsTyped, New
    <3>3. {c} \in SUBSET Chunks /\ c.tag # "complete" /\ {} \in SUBSET Chunks
      BY <3>1, <3>2, ScriptsComplete
    <3>4. /\ flight' = flight \cup {c} \/ flight' = flight \cup {}
          /\ UNCHANGED <<said, feed, slot, evs>>
      BY <2>6, <3>1 DEF Publishes, feedVars
    <3> QED BY <2>5, <3>3, <3>4
  <2>7. ASSUME NEW o \in DOMAIN ops, ToolTells(o) \/ ToolWrites(o) PROVE FeedIInv'
    <3>1. PICK c : /\ c = ResultFor(o, ops[o]) \/ c = TextFor(o, ops[o])
                   /\ OneShot(c)
      BY <2>7 DEF ToolTells, ToolWrites, ResultFor, TextFor
    <3>2. {c} \in SUBSET Chunks /\ c.tag # "complete" /\ {} \in SUBSET Chunks
      BY <3>1, OperationIs, TellsAre
    <3>3. /\ flight' = flight \cup {c} \/ flight' = flight \cup {}
          /\ UNCHANGED <<said, feed, slot, evs>>
      BY <2>7, <3>1 DEF OneShot, ToolTells, ToolWrites, heard, feedVars
    <3> QED BY <2>5, <3>2, <3>3
  <2>8. CASE \/ \E o \in DOMAIN ops, info \in {"ok", "err", "worded"} : ServiceAnswers(o, info)
             \/ \E kind \in {"rpc", "tool"} : Calls(kind) \/ CallFails(kind)
             \/ UNCHANGED jsCallVars
    BY <2>1, <2>8 DEF ServiceAnswers, Calls, CallFails, feedVars, jsCallVars
  <2>9. ASSUME NEW o \in DOMAIN ops, CallAnswered(o) \/ CallTimesOut(o) \/ CallCutOff(o) PROVE FeedIInv'
    <3>1. \E got : Ends(o, got)
      BY <2>9 DEF CallAnswered, CallTimesOut, CallCutOff
    <3> QED BY <2>1, <3>1 DEF Ends, heard, feedVars
  <2> QED
    BY <2>2, <2>3, <2>4, <2>6, <2>7, <2>8, <2>9, FeedMoves DEF JsCallsNext, OpStep
<1> QED BY <1>1, <1>2, CallsInductive, PTL DEF JsCallsSpec

\* Every event comes with a text and a config that are not older than its chunk, for any
\* number of chunks, operations and lost connections.
THEOREM EventsAreAlwaysCurrent == JsCallsSpec => []EventsAreCurrent
<1>1. FeedIInv => EventsAreCurrent
  BY DEF FeedIInv, EventsCurrent, EventsAreCurrent, Timely, Fresh
<1> QED BY <1>1, FeedInductive, PTL

------------------------------------------------------------------------------
(* The narrator of books *)

EpSteps == {"restore", "gate", "idle", "load", "set", "state", "move", "text", "tts", "dead"}

Pieces == [kind : {"blob", "state", "text", "creds"}, book : {0} \cup Books, at : Nat, started : BOOLEAN]

Places == {i \in 1..Len(told) : told[i].kind = "state"}
LastPlace == told[Max(Places)]
LastBlob == told[Max(Blobs)]
Number == Cardinality(Blobs)

\* A chapter of book b, or the first of a book without any.
Place(b, n) == n \in Nat /\ (n = 0 \/ n < Chapters(b))

EpTyped ==
    /\ told \in Seq(Pieces)
    /\ narration \in [book : {0} \cup Books, current : Nat, started : BOOLEAN,
                      path : {0} \cup Books, blob : Nat]
    /\ epStep \in EpSteps
    /\ awaited \subseteq 1..Number
    /\ onDisk \subseteq Books

\* Which command is at which step, and what a process knows that starts.
CommandFits ==
    /\ cmd.verb \in {"load", "chapter", "next", "prev", "none"}
    /\ cmd.verb = "load" => cmd.arg \in Books
    /\ cmd.verb = "chapter" => cmd.arg = 2
    /\ epStep \in {"move", "text"} => cmd.verb \in {"chapter", "next", "prev"}
    /\ epStep \in {"load", "set"} => cmd.verb = "load"
    /\ epStep = "restore" => narration = NotLoaded /\ awaited = {}

\* A place is one of a book.
ToldIsKnown ==
    \A i \in 1..Len(told) :
        /\ told[i].kind \in {"blob", "state"} => told[i].book \in Books
        /\ told[i].kind = "state" => Place(told[i].book, told[i].at)
        /\ told[i].kind = "creds" => told[i].at \in 1..Number

NarrationIsKnown ==
    narration.book # 0 => narration.path = narration.book /\ Place(narration.book, narration.current)

\* A place is published after a blob; and once the last book can be fetched from the binary
\* store, the last place is one in it.
PlaceIsOfBlob ==
    /\ Places # {} => Blobs # {}
    /\ \A i \in 1..Len(told) : told[i].kind = "creds" /\ told[i].at = Number =>
          Places # {} /\ LastPlace.book = LastBlob.book

\* The place of the process is the one published last, until a command moves it.
PlaceIsTold ==
    epStep \in {"gate", "idle", "load", "set", "move", "tts"} /\ narration.book # 0 =>
        /\ Places # {} /\ LastPlace.book = narration.book /\ LastPlace.at = narration.current
        /\ LastPlace.started = narration.started

\* A move stays in the book, and !next goes one chapter on once one was read.
MovesOn ==
    epStep \in {"text", "state"} /\ cmd.verb # "load" =>
        /\ narration.book # 0 /\ Places # {} /\ LastPlace.book = narration.book
        /\ cmd.verb = "next" =>
              narration.current = IF LastPlace.started THEN LastPlace.at + 1 ELSE LastPlace.at

\* The book that is loaded is the one whose blob was published last.
LoadsBlob ==
    /\ epStep = "set" => Blobs # {} /\ LastBlob.book = cmd.arg /\ Number \notin awaited
    /\ epStep = "state" /\ cmd.verb = "load" => Blobs # {} /\ narration.book = LastBlob.book
    /\ epStep # "set" /\ Number \in awaited => narration.book = LastBlob.book

EpIInv ==
    /\ EpTyped /\ CommandFits /\ ToldIsKnown /\ NarrationIsKnown
    /\ PlaceIsOfBlob /\ PlaceIsTold /\ MovesOn /\ LoadsBlob

-----------------------------------------------------------------------------

\* The smaller of two numbers.
LEMMA OfTwo ==
  ASSUME NEW a \in Int, NEW b \in Int, a <= b
  PROVE  Min({a, b}) = a
<1>1. \E x \in {a, b} : \A y \in {a, b} : x <= y
  OBVIOUS
<1>2. Min({a, b}) \in {a, b} /\ \A y \in {a, b} : Min({a, b}) <= y
  BY <1>1 DEF Min
<1> QED BY <1>2

\* A number that is not taken below zero.
LEMMA FromZero ==
  ASSUME NEW k \in Int
  PROVE  Max({k, 0}) = IF 0 <= k THEN k ELSE 0
<1>1. \E x \in {k, 0} : \A y \in {k, 0} : x >= y
  OBVIOUS
<1>2. Max({k, 0}) \in {k, 0} /\ \A y \in {k, 0} : Max({k, 0}) >= y
  BY <1>1 DEF Max
<1> QED BY <1>2

\* The blobs are counted, and the last one is one.
LEMMA BlobsAre ==
  ASSUME told \in Seq(Pieces)
  PROVE  /\ Number \in Nat /\ (Number # 0 <=> Blobs # {})
         /\ Blobs # {} => Max(Blobs) \in Blobs
         /\ Places # {} => Max(Places) \in Places
<1>1. Len(told) \in Nat /\ Blobs \in SUBSET (1..Len(told)) /\ Places \in SUBSET (1..Len(told))
  BY DEF Blobs, Places
<1>2. IsFiniteSet(Blobs)
  <2>1. IsFiniteSet(1..Len(told))
    BY <1>1, FS_Interval
  <2> QED BY <1>1, <2>1, FS_Subset
<1> QED BY <1>1, <1>2, FS_CardinalityType, FS_EmptySet, LargestOf DEF Number

\* A chunk that is published is the last of its kind.
LEMMA ToldGrows ==
  ASSUME told \in Seq(Pieces), NEW c \in Pieces, told' = Append(told, c)
  PROVE  /\ told' \in Seq(Pieces) /\ Len(told') = Len(told) + 1 /\ Len(told) \in Nat
         /\ told'[Len(told) + 1] = c /\ \A i \in 1..Len(told) : told'[i] = told[i]
         /\ c.kind = "state" => Places' # {} /\ LastPlace' = c
         /\ c.kind # "state" => Places' = Places /\ (Places # {} => LastPlace' = LastPlace)
         /\ c.kind = "blob" => Blobs' # {} /\ LastBlob' = c /\ Number' = Number + 1
         /\ c.kind # "blob" => Blobs' = Blobs /\ Number' = Number /\ (Blobs # {} => LastBlob' = LastBlob)
<1> PICK n \in Nat : n = Len(told)
  OBVIOUS
<1>1. /\ told' \in Seq(Pieces) /\ Len(told') = n + 1 /\ told'[n + 1] = c
      /\ \A i \in 1..n : told'[i] = told[i]
  OBVIOUS
<1>2. Blobs \in SUBSET (1..n) /\ Places \in SUBSET (1..n)
  BY DEF Blobs, Places
<1>3. /\ c.kind = "state" => Places' = Places \cup {n + 1}
      /\ c.kind # "state" => Places' = Places
  BY <1>1 DEF Places
<1>4. /\ c.kind = "blob" => Blobs' = Blobs \cup {n + 1}
      /\ c.kind # "blob" => Blobs' = Blobs
  BY <1>1 DEF Blobs
<1>5. ASSUME NEW S \in SUBSET (1..n) PROVE Max(S \cup {n + 1}) = n + 1
  <2>1. PICK T : T = S \cup {n + 1}
    OBVIOUS
  <2>2. n + 1 \in Nat /\ T \in SUBSET (1..(n + 1)) /\ T # {} /\ n + 1 \in T
    <3>1. \A t \in T : t \in 1..(n + 1)
      BY <2>1
    <3>2. T \subseteq 1..(n + 1)
      BY <3>1
    <3>3. n + 1 \in Nat /\ n + 1 \in T
      BY <2>1
    <3> QED BY <3>2, <3>3
  <2>3. Max(T) \in T /\ Max(T) >= n + 1
    BY <2>2, LargestOf
  <2>4. Max(T) \in 1..(n + 1)
    BY <2>2, <2>3
  <2> QED BY <2>1, <2>3, <2>4
<1>6. /\ c.kind = "state" => Places' # {} /\ LastPlace' = c
      /\ c.kind # "state" => Places' = Places /\ (Places # {} => LastPlace' = LastPlace)
  <2>1. c.kind = "state" => Max(Places') = n + 1
    BY <1>2, <1>3, <1>5
  <2>2. c.kind # "state" /\ Places # {} => Max(Places') = Max(Places) /\ Max(Places) \in 1..n
    BY <1>2, <1>3, BlobsAre
  <2> QED BY <1>1, <1>3, <2>1, <2>2 DEF LastPlace
<1>7. /\ c.kind = "blob" => Blobs' # {} /\ LastBlob' = c /\ Number' = Number + 1
      /\ c.kind # "blob" => Blobs' = Blobs /\ Number' = Number /\ (Blobs # {} => LastBlob' = LastBlob)
  <2>1. c.kind = "blob" => Max(Blobs') = n + 1
    BY <1>2, <1>4, <1>5
  <2>2. c.kind # "blob" /\ Blobs # {} => Max(Blobs') = Max(Blobs) /\ Max(Blobs) \in 1..n
    BY <1>2, <1>4, BlobsAre
  <2>3. c.kind = "blob" => Number' = Number + 1
    <3>1. IsFiniteSet(Blobs) /\ n + 1 \notin Blobs
      <4>1. IsFiniteSet(1..n) /\ n + 1 \notin 1..n
        BY FS_Interval
      <4> QED BY <1>2, <4>1, FS_Subset
    <3> QED BY <1>4, <3>1, FS_AddElement DEF Number
  <2>4. c.kind # "blob" => Number' = Number
    BY <1>4 DEF Number
  <2> QED BY <1>1, <1>4, <2>1, <2>2, <2>3, <2>4 DEF LastBlob
<1> QED BY <1>1, <1>6, <1>7

\* What a step that publishes nothing leaves of the session.
LEMMA ToldStays ==
  ASSUME UNCHANGED told
  PROVE  /\ Places' = Places /\ LastPlace' = LastPlace /\ Blobs' = Blobs
         /\ LastBlob' = LastBlob /\ Number' = Number
  BY DEF Places, LastPlace, Blobs, LastBlob, Number

-----------------------------------------------------------------------------

\* At the start nothing was told of any book, and nothing is loaded.
LEMMA EpInitEstablishes == EpInit => EpIInv
<1> SUFFICES ASSUME EpInit PROVE EpIInv
  OBVIOUS
<1>1. told \in Seq(Pieces) /\ Len(told) = 0 /\ Blobs = {} /\ Places = {}
  BY DEF EpInit, Blobs, Places
<1>2. narration = NotLoaded /\ epStep = "restore" /\ cmd = NoCommand /\ awaited = {} /\ onDisk = Books
  BY DEF EpInit
<1>3. EpTyped
  BY <1>1, <1>2 DEF EpTyped, NotLoaded, Books, EpSteps
<1> QED
  BY <1>1, <1>2, <1>3
  DEF EpIInv, CommandFits, ToldIsKnown, NarrationIsKnown, PlaceIsOfBlob, PlaceIsTold, MovesOn,
      LoadsBlob, NotLoaded, NoCommand, Books

\* The narrator is where it was, publishes nothing and asks for nothing: it takes a command,
\* is done with one, or the gate opens.
LEMMA QuietKeeps ==
  ASSUME EpIInv, UNCHANGED <<told, narration>>, onDisk' \subseteq Books, awaited' \subseteq awaited,
         CommandFits', epStep' \in EpSteps,
         epStep' # epStep => /\ epStep' \in {"idle", "load", "move", "dead"}
                             /\ epStep \in {"gate", "idle", "load", "move", "tts", "text"}
                             /\ epStep = "text" => epStep' = "dead",
         epStep' = epStep => UNCHANGED cmd
  PROVE  EpIInv'
<1>1. /\ Places' = Places /\ LastPlace' = LastPlace /\ Blobs' = Blobs
      /\ LastBlob' = LastBlob /\ Number' = Number /\ Len(told') = Len(told)
  BY ToldStays
<1>2. EpTyped'
  BY <1>1 DEF EpIInv, EpTyped
<1>3. ToldIsKnown' /\ NarrationIsKnown' /\ PlaceIsOfBlob'
  BY <1>1 DEF EpIInv, ToldIsKnown, NarrationIsKnown, PlaceIsOfBlob, Place, Chapters
<1>4. PlaceIsTold' /\ MovesOn' /\ LoadsBlob'
  BY <1>1 DEF EpIInv, PlaceIsTold, MovesOn, LoadsBlob
<1> QED BY <1>2, <1>3, <1>4 DEF EpIInv

\* The steps that only go from one to the next.
LEMMA QuietSteps ==
  ASSUME EpIInv,
         \/ EpGateOpens \/ EpTtsEnds
         \/ \E c \in Commands : EpTakes(c)
         \/ \E n \in due : EpCredentials(n)
         \/ \E n \in 1..Len(blobStore) : EpUploaded(n)
         \/ \E p \in onDisk : FileGoes(p)
         \/ UNCHANGED epVars
  PROVE  EpIInv'
<1>1. CASE EpGateOpens
  BY <1>1, QuietKeeps DEF EpGateOpens, GoesOn, uploadVars, userVars, EpIInv, EpTyped, EpSteps, CommandFits
<1>2. CASE EpTtsEnds
  BY <1>2, QuietKeeps DEF EpTtsEnds, EpAnswers, NoCommand, uploadVars, userVars, EpIInv, EpTyped, EpSteps, CommandFits
<1>3. ASSUME NEW c \in Commands, EpTakes(c) PROVE EpIInv'
  <2>1. c.verb \in {"load", "chapter", "next", "prev"} /\ (c.verb = "load" => c.arg \in Books)
        /\ (c.verb = "chapter" => c.arg = 2)
    BY DEF Commands
  <2>2. /\ UNCHANGED <<told, narration, awaited, onDisk>> /\ cmd' = c
        /\ epStep = "idle" /\ epStep' = IF c.verb = "load" THEN "load" ELSE "move"
    BY <1>3 DEF EpTakes, GoesOn, uploadVars
  <2>3. CommandFits' /\ epStep' \in EpSteps
    BY <2>1, <2>2 DEF CommandFits, EpSteps
  <2> QED BY <2>2, <2>3, QuietKeeps DEF EpIInv, EpTyped
<1>4. CASE \E n \in due : EpCredentials(n)
  BY <1>4, QuietKeeps DEF EpCredentials, userVars, EpIInv, EpTyped, CommandFits
<1>5. CASE \E n \in 1..Len(blobStore) : EpUploaded(n)
  BY <1>5, QuietKeeps DEF EpUploaded, userVars, EpIInv, EpTyped, CommandFits
<1>6. CASE \E p \in onDisk : FileGoes(p)
  BY <1>6, QuietKeeps DEF FileGoes, uploadVars, EpIInv, EpTyped, CommandFits
<1>7. CASE UNCHANGED epVars
  BY <1>7, QuietKeeps DEF epVars, EpIInv, EpTyped, CommandFits
<1> QED BY <1>1, <1>2, <1>3, <1>4, <1>5, <1>6, <1>7

\* A process dies: the next one knows nothing yet.
LEMMA EpCrashKeeps ==
  ASSUME EpIInv, EpCrash
  PROVE  EpIInv'
<1>1. /\ Places' = Places /\ LastPlace' = LastPlace /\ Blobs' = Blobs
      /\ LastBlob' = LastBlob /\ Number' = Number /\ Len(told') = Len(told) /\ told' = told
  BY ToldStays DEF EpCrash
<1>2. /\ narration' = NotLoaded /\ epStep' = "restore" /\ cmd' = NoCommand /\ awaited' = {}
      /\ onDisk' = onDisk
  BY DEF EpCrash
<1>3. EpTyped' /\ CommandFits'
  BY <1>1, <1>2 DEF EpIInv, EpTyped, EpSteps, CommandFits, NotLoaded, NoCommand, Books
<1>4. ToldIsKnown' /\ PlaceIsOfBlob'
  BY <1>1 DEF EpIInv, ToldIsKnown, PlaceIsOfBlob, Place, Chapters
<1>5. NarrationIsKnown' /\ PlaceIsTold' /\ MovesOn' /\ LoadsBlob'
  BY <1>2 DEF NarrationIsKnown, PlaceIsTold, MovesOn, LoadsBlob, NotLoaded
<1> QED BY <1>3, <1>4, <1>5 DEF EpIInv


\* A chunk that is no place, no blob and no credentials, or credentials of a blob that was
\* awaited, leaves what is said of the session as it is.
LEMMA TextKeeps ==
  ASSUME EpIInv, NEW c \in Pieces, told' = Append(told, c), c.kind \in {"text", "creds"},
         c.kind = "creds" => c.at \in awaited /\ epStep = "idle"
  PROVE  /\ ToldIsKnown' /\ PlaceIsOfBlob' /\ told' \in Seq(Pieces)
         /\ Places' = Places /\ (Places # {} => LastPlace' = LastPlace)
         /\ Blobs' = Blobs /\ (Blobs # {} => LastBlob' = LastBlob) /\ Number' = Number
<1>0. told \in Seq(Pieces)
  BY DEF EpIInv, EpTyped
<1>1. /\ told' \in Seq(Pieces) /\ Len(told') = Len(told) + 1 /\ Len(told) \in Nat
      /\ told'[Len(told) + 1] = c /\ \A i \in 1..Len(told) : told'[i] = told[i]
      /\ Places' = Places /\ (Places # {} => LastPlace' = LastPlace)
      /\ Blobs' = Blobs /\ (Blobs # {} => LastBlob' = LastBlob) /\ Number' = Number
  BY <1>0, ToldGrows
<1>2. ToldIsKnown'
  BY <1>1 DEF EpIInv, EpTyped, ToldIsKnown, Place, Chapters
<1>3. c.kind = "creds" /\ c.at = Number => Places # {} /\ LastPlace.book = LastBlob.book /\ Blobs # {}
  <2>1. SUFFICES ASSUME c.kind = "creds", c.at = Number
                 PROVE  Places # {} /\ LastPlace.book = LastBlob.book /\ Blobs # {}
    OBVIOUS
  <2>2. Number \in awaited /\ narration.book = LastBlob.book /\ epStep = "idle" /\ Number # 0
    BY <2>1, <1>0, BlobsAre DEF EpIInv, EpTyped, LoadsBlob
  <2>3. Blobs # {} /\ LastBlob.book \in Books
    BY <2>2, <1>0, BlobsAre DEF EpIInv, ToldIsKnown, LastBlob, Blobs
  <2> QED BY <2>2, <2>3 DEF EpIInv, PlaceIsTold, Books
<1>4. PlaceIsOfBlob'
  BY <1>1, <1>3 DEF EpIInv, PlaceIsOfBlob
<1> QED BY <1>1, <1>2, <1>4

\* !load publishes the blob, which nobody can fetch yet, or answers that there is no file.
LEMMA LoadsKeeps ==
  ASSUME EpIInv, EpLoads
  PROVE  EpIInv'
<1>0. told \in Seq(Pieces) /\ epStep = "load" /\ cmd.verb = "load" /\ cmd.arg \in Books
  BY DEF EpIInv, EpTyped, EpLoads, CommandFits
<1>1. CASE cmd.arg \notin onDisk
  <2>1. /\ UNCHANGED <<told, narration, awaited, onDisk>> /\ epStep' = "idle" /\ cmd' = NoCommand
    BY <1>1 DEF EpLoads, EpAnswers, userVars
  <2> QED BY <2>1, <1>0, QuietKeeps DEF EpIInv, EpTyped, EpSteps, CommandFits, NoCommand
<1>2. CASE cmd.arg \in onDisk
  <2>1. PICK c : c = BlobChunk(cmd.arg)
    OBVIOUS
  <2>2. c \in Pieces /\ c.kind = "blob" /\ c.book = cmd.arg
    BY <2>1, <1>0 DEF BlobChunk, Pieces
  <2>3. told' = Append(told, c) /\ epStep' = "set" /\ UNCHANGED <<cmd, narration, awaited, onDisk>>
    BY <1>2, <2>1 DEF EpLoads, userVars
  <2>4. /\ told' \in Seq(Pieces) /\ Len(told') = Len(told) + 1 /\ Len(told) \in Nat
        /\ told'[Len(told) + 1] = c /\ \A i \in 1..Len(told) : told'[i] = told[i]
        /\ Places' = Places /\ (Places # {} => LastPlace' = LastPlace)
        /\ Blobs' # {} /\ LastBlob' = c /\ Number' = Number + 1 /\ Number \in Nat
    BY <1>0, <2>2, <2>3, ToldGrows, BlobsAre
  <2>5. EpTyped' /\ CommandFits'
    BY <1>0, <2>3, <2>4 DEF EpIInv, EpTyped, EpSteps, CommandFits
  <2>6. ToldIsKnown'
    BY <1>0, <2>2, <2>4 DEF EpIInv, ToldIsKnown, Place, Chapters
  <2>7. PlaceIsOfBlob'
    <3>1. \A i \in 1..Len(told') : told'[i].kind = "creds" => told'[i].at # Number'
      BY <2>2, <2>4 DEF EpIInv, ToldIsKnown
    <3> QED BY <2>4, <3>1 DEF PlaceIsOfBlob
  <2>8. NarrationIsKnown' /\ PlaceIsTold' /\ MovesOn'
    BY <1>0, <2>3, <2>4 DEF EpIInv, NarrationIsKnown, Place, Chapters, PlaceIsTold, MovesOn
  <2>9. LoadsBlob'
    BY <2>2, <2>3, <2>4 DEF EpIInv, EpTyped, LoadsBlob
  <2> QED BY <2>5, <2>6, <2>7, <2>8, <2>9 DEF EpIInv
<1> QED BY <1>1, <1>2

\* The new book from its first chapter on.
LEMMA SetsKeeps ==
  ASSUME EpIInv, EpSets
  PROVE  EpIInv'
<1>1. /\ Places' = Places /\ LastPlace' = LastPlace /\ Blobs' = Blobs
      /\ LastBlob' = LastBlob /\ Number' = Number /\ told' = told
  BY ToldStays DEF EpSets
<1>2. told \in Seq(Pieces) /\ epStep = "set" /\ cmd.verb = "load" /\ cmd.arg \in Books
  BY DEF EpIInv, EpTyped, EpSets, GoesOn, CommandFits
<1>3. /\ epStep' = "state" /\ awaited' = awaited \cup {Number} /\ UNCHANGED <<cmd, onDisk>>
  BY DEF EpSets, GoesOn, Number, userVars
<1>4. PICK s \in BOOLEAN : s = narration.started
  BY DEF EpIInv, EpTyped
<1>5. narration' = [book |-> cmd.arg, current |-> 0, started |-> s, path |-> cmd.arg, blob |-> Number]
  BY <1>4, Zenon DEF EpSets, NotLoaded, Number
<1>6. Blobs # {} /\ LastBlob.book = cmd.arg /\ Number \in Nat /\ Number # 0
  BY <1>2, BlobsAre DEF EpIInv, LoadsBlob
<1>7. EpTyped'
  <2>1. narration' \in [book : {0} \cup Books, current : Nat, started : BOOLEAN,
                         path : {0} \cup Books, blob : Nat]
    BY <1>2, <1>4, <1>5, <1>6
  <2>2. awaited' \subseteq 1..Number'
    <3>1. ASSUME NEW n \in awaited' PROVE n \in 1..Number
      BY <1>3, <1>6, <3>1 DEF EpIInv, EpTyped
    <3> QED BY <1>1, <3>1
  <2> QED BY <1>1, <1>2, <1>3, <2>1, <2>2 DEF EpIInv, EpTyped, EpSteps
<1>8. CommandFits' /\ NarrationIsKnown'
  BY <1>2, <1>3, <1>5 DEF EpIInv, CommandFits, NarrationIsKnown, Place
<1>9. ToldIsKnown' /\ PlaceIsOfBlob'
  BY <1>1 DEF EpIInv, ToldIsKnown, PlaceIsOfBlob, Place, Chapters
<1>10. PlaceIsTold' /\ MovesOn' /\ LoadsBlob'
  BY <1>1, <1>2, <1>3, <1>5, <1>6 DEF PlaceIsTold, MovesOn, LoadsBlob
<1> QED BY <1>7, <1>8, <1>9, <1>10 DEF EpIInv

\* The place is published, of the book that was loaded or of the one that goes on.
LEMMA PublishesKeeps ==
  ASSUME EpIInv, EpPublishesState
  PROVE  EpIInv'
<1>0. told \in Seq(Pieces) /\ epStep = "state"
  BY DEF EpIInv, EpTyped, EpPublishesState
<1>1. PICK c : c = StateChunk
  OBVIOUS
<1>2. /\ narration.book \in Books /\ narration.path = narration.book
      /\ Place(narration.book, narration.current)
  <2>1. narration.book \in Books
    <3>1. CASE cmd.verb = "load"
      BY <1>0, <3>1, BlobsAre DEF EpIInv, LoadsBlob, LastBlob, Blobs, ToldIsKnown
    <3>2. CASE cmd.verb # "load"
      BY <1>0, <3>2 DEF EpIInv, EpTyped, MovesOn
    <3> QED BY <3>1, <3>2
  <2> QED BY <2>1 DEF EpIInv, NarrationIsKnown, Books
<1>2a. PICK s \in BOOLEAN : s = narration.started
  BY DEF EpIInv, EpTyped
<1>3. /\ c \in Pieces /\ c.kind = "state" /\ c.book = narration.book /\ c.at = narration.current
      /\ c.started = s
  <2>1. c = [kind |-> "state", book |-> narration.path, at |-> narration.current, started |-> s]
    BY <1>1, <1>2a, Zenon DEF StateChunk
  <2> QED BY <1>2, <2>1 DEF Pieces, Place
<1>4. /\ told' = Append(told, c) /\ UNCHANGED <<narration, awaited, onDisk>>
      /\ cmd.verb = "load" => epStep' = "idle" /\ cmd' = NoCommand
      /\ cmd.verb # "load" => epStep' = "tts" /\ cmd' = cmd
  BY <1>1 DEF EpPublishesState, EpAnswers, uploadVars, userVars
<1>5. /\ told' \in Seq(Pieces) /\ Len(told') = Len(told) + 1 /\ Len(told) \in Nat
      /\ told'[Len(told) + 1] = c /\ \A i \in 1..Len(told) : told'[i] = told[i]
      /\ Places' # {} /\ LastPlace' = c
      /\ Blobs' = Blobs /\ (Blobs # {} => LastBlob' = LastBlob) /\ Number' = Number
  BY <1>0, <1>3, <1>4, ToldGrows
<1>6. Blobs # {}
  BY <1>0 DEF EpIInv, LoadsBlob, MovesOn, PlaceIsOfBlob
<1>7. EpTyped' /\ CommandFits'
  BY <1>0, <1>4, <1>5 DEF EpIInv, EpTyped, EpSteps, CommandFits, NoCommand
<1>8. ToldIsKnown'
  BY <1>2, <1>3, <1>5 DEF EpIInv, ToldIsKnown, Place, Chapters
<1>9. PlaceIsOfBlob'
  <2>1. ASSUME NEW i \in 1..Len(told), told[i].kind = "creds", told[i].at = Number
        PROVE  narration.book = LastBlob.book
    BY <1>0, <2>1 DEF EpIInv, PlaceIsOfBlob, MovesOn, LoadsBlob
  <2> QED BY <1>3, <1>5, <1>6, <2>1 DEF PlaceIsOfBlob
<1>10. NarrationIsKnown' /\ PlaceIsTold' /\ MovesOn'
  BY <1>2, <1>2a, <1>3, <1>4, <1>5 DEF NarrationIsKnown, Place, Chapters, PlaceIsTold, MovesOn
<1>11. LoadsBlob'
  BY <1>0, <1>4, <1>5, <1>6 DEF EpIInv, LoadsBlob
<1> QED BY <1>7, <1>8, <1>9, <1>10, <1>11 DEF EpIInv


\* !next, !prev and !chapter go to a chapter of the book, or nowhere.
LEMMA MovesKeeps ==
  ASSUME EpIInv, EpMoves
  PROVE  EpIInv'
<1>0. told \in Seq(Pieces) /\ epStep = "move" /\ cmd.verb \in {"chapter", "next", "prev"}
  BY DEF EpIInv, EpTyped, EpMoves, CommandFits
<1>1. CASE Target = {}
  <2>1. /\ UNCHANGED <<told, narration, awaited, onDisk>> /\ epStep' = "idle" /\ cmd' = NoCommand
    BY <1>1 DEF EpMoves, EpAnswers, uploadVars, userVars
  <2> QED BY <2>1, <1>0, QuietKeeps DEF EpIInv, EpTyped, EpSteps, CommandFits, NoCommand
<1>2. CASE Target # {}
  <2>1. PICK n : n = CHOOSE k \in Target : TRUE
    OBVIOUS
  <2>2. n \in Target
    BY <1>2, <2>1
  <2>3. narration.book \in Books /\ narration.current \in Nat /\ Place(narration.book, narration.current)
    BY <1>2 DEF Target, EpIInv, EpTyped, NarrationIsKnown, Books
  <2>4. /\ Place(narration.book, n)
        /\ cmd.verb = "next" =>
              n = IF narration.started THEN narration.current + 1 ELSE narration.current
    <3>1. CASE cmd.verb = "next"
      <4>1. n \in NextChapter
        BY <2>2, <2>3, <3>1 DEF Target, Books
      <4>2. CASE ~narration.started
        <5>1. NextChapter = {narration.current}
          BY <4>2, Zenon DEF NextChapter
        <5> QED BY <2>3, <4>1, <4>2, <5>1
      <4>3. CASE narration.started /\ narration.current + 1 < Chapters(narration.book)
        <5>1. NextChapter = {narration.current + 1}
          BY <4>3, Zenon DEF NextChapter
        <5> QED BY <2>3, <4>1, <4>3, <5>1 DEF Place
      <4>4. CASE narration.started /\ ~(narration.current + 1 < Chapters(narration.book))
        <5>1. NextChapter = {}
          BY <4>4, Zenon DEF NextChapter
        <5> QED BY <4>1, <5>1
      <4> QED BY <4>2, <4>3, <4>4
    <3>2. CASE cmd.verb = "prev"
      <4>1. n \in PrevChapter
        BY <2>2, <2>3, <3>2 DEF Target, Books
      <4>2. n = narration.current - 1 /\ narration.current > 0
        BY <4>1 DEF PrevChapter
      <4> QED BY <2>3, <3>2, <4>2 DEF Place, Chapters, Books
    <3>3. CASE cmd.verb = "chapter"
      <4>1. n \in GivenChapter
        BY <2>2, <2>3, <3>3 DEF Target, Books
      <4>2. cmd.arg = 2
        BY <3>3 DEF EpIInv, CommandFits
      <4> QED BY <3>3, <4>1, <4>2 DEF GivenChapter, Place
    <3> QED BY <1>0, <3>1, <3>2, <3>3
  <2>5. /\ narration' = [narration EXCEPT !.current = n, !.started = TRUE]
        /\ epStep' = "text" /\ UNCHANGED <<told, cmd, awaited, onDisk>>
    BY <1>2, <2>1 DEF EpMoves, uploadVars, userVars
  <2>6. /\ narration' \in [book : {0} \cup Books, current : Nat, started : BOOLEAN,
                           path : {0} \cup Books, blob : Nat]
        /\ narration'.book = narration.book /\ narration'.path = narration.path
        /\ narration'.current = n
    BY <2>4, <2>5 DEF EpIInv, EpTyped, Place
  <2>7. /\ Places' = Places /\ LastPlace' = LastPlace /\ Blobs' = Blobs
        /\ LastBlob' = LastBlob /\ Number' = Number
    BY <2>5, ToldStays
  <2>8. EpTyped' /\ CommandFits'
    BY <1>0, <2>5, <2>6, <2>7 DEF EpIInv, EpTyped, EpSteps, CommandFits
  <2>9. ToldIsKnown' /\ PlaceIsOfBlob'
    BY <2>5, <2>7 DEF EpIInv, ToldIsKnown, PlaceIsOfBlob, Place, Chapters
  <2>10. NarrationIsKnown'
    BY <2>4, <2>6 DEF EpIInv, NarrationIsKnown, Place, Chapters
  <2>11. MovesOn'
    <3>1. /\ Places # {} /\ LastPlace.book = narration.book /\ LastPlace.at = narration.current
          /\ LastPlace.started = narration.started
      BY <1>0, <2>3 DEF EpIInv, PlaceIsTold, Books
    <3>2. cmd.verb = "next" => n = IF LastPlace.started THEN LastPlace.at + 1 ELSE LastPlace.at
      BY <2>4, <3>1, Zenon
    <3> QED BY <2>3, <2>5, <2>6, <2>7, <3>1, <3>2 DEF MovesOn, Books
  <2>12. PlaceIsTold' /\ LoadsBlob'
    BY <1>0, <2>5, <2>6, <2>7 DEF EpIInv, PlaceIsTold, LoadsBlob
  <2> QED BY <2>8, <2>9, <2>10, <2>11, <2>12 DEF EpIInv
<1> QED BY <1>1, <1>2

\* The chapter is read aloud, or the task ends because there is none.
LEMMA ReadsKeeps ==
  ASSUME EpIInv, EpReads
  PROVE  EpIInv'
<1>0. /\ told \in Seq(Pieces) /\ epStep = "text" /\ cmd.verb \in {"chapter", "next", "prev"}
      /\ UNCHANGED <<narration, cmd, awaited, onDisk>>
  BY DEF EpIInv, EpTyped, EpReads, CommandFits, uploadVars, userVars
<1>1. CASE UNCHANGED told /\ epStep' = "dead"
  BY <1>0, <1>1, QuietKeeps DEF EpIInv, EpTyped, EpSteps, CommandFits
<1>2. CASE told' = Append(told, TextChunk) /\ epStep' = "state"
  <2>1. PICK c : c = TextChunk
    OBVIOUS
  <2>2. c \in Pieces /\ c.kind = "text"
    BY <2>1 DEF TextChunk, Pieces, EpIInv, EpTyped
  <2>3. /\ ToldIsKnown' /\ PlaceIsOfBlob' /\ told' \in Seq(Pieces)
        /\ Places' = Places /\ (Places # {} => LastPlace' = LastPlace)
        /\ Blobs' = Blobs /\ (Blobs # {} => LastBlob' = LastBlob) /\ Number' = Number
    BY <1>2, <2>1, <2>2, TextKeeps
  <2>4. EpTyped' /\ CommandFits' /\ NarrationIsKnown'
    BY <1>0, <1>2, <2>3 DEF EpIInv, EpTyped, EpSteps, CommandFits, NarrationIsKnown, Place, Chapters
  <2>5. Blobs # {}
    BY <1>0 DEF EpIInv, MovesOn, PlaceIsOfBlob
  <2>6. PlaceIsTold' /\ MovesOn' /\ LoadsBlob'
    BY <1>0, <1>2, <2>3, <2>5 DEF EpIInv, PlaceIsTold, MovesOn, LoadsBlob
  <2> QED BY <2>3, <2>4, <2>6 DEF EpIInv
<1> QED BY <1>1, <1>2 DEF EpReads

\* The credentials of a blob that was awaited are published, those of another process are not.
LEMMA UploadsKeeps ==
  ASSUME EpIInv, NEW n \in posted, EpUploads(n)
  PROVE  EpIInv'
<1>0. /\ told \in Seq(Pieces) /\ epStep = "idle" /\ awaited' = awaited \ {n}
      /\ UNCHANGED <<narration, epStep, cmd, onDisk>>
  BY DEF EpIInv, EpTyped, EpUploads, userVars
<1>1. CASE n \notin awaited
  BY <1>0, <1>1, QuietKeeps DEF EpUploads, EpIInv, EpTyped, EpSteps, CommandFits
<1>2. CASE n \in awaited
  <2>1. PICK c : c = CredentialsChunk(n)
    OBVIOUS
  <2>2. c \in Pieces /\ c.kind = "creds" /\ c.at = n /\ told' = Append(told, c)
    <3>1. n \in Nat
      BY <1>2 DEF EpIInv, EpTyped
    <3> QED BY <1>2, <2>1, <3>1 DEF CredentialsChunk, Pieces, EpUploads
  <2>3. /\ ToldIsKnown' /\ PlaceIsOfBlob' /\ told' \in Seq(Pieces)
        /\ Places' = Places /\ (Places # {} => LastPlace' = LastPlace)
        /\ Blobs' = Blobs /\ (Blobs # {} => LastBlob' = LastBlob) /\ Number' = Number
    BY <1>0, <1>2, <2>2, TextKeeps
  <2>4. EpTyped' /\ CommandFits' /\ NarrationIsKnown'
    BY <1>0, <2>3 DEF EpIInv, EpTyped, EpSteps, CommandFits, NarrationIsKnown, Place, Chapters
  <2>5. Blobs # {}
    BY <1>0, <1>2, BlobsAre DEF EpIInv, EpTyped
  <2>6. PlaceIsTold' /\ MovesOn' /\ LoadsBlob'
    BY <1>0, <2>3, <2>5 DEF EpIInv, PlaceIsTold, MovesOn, LoadsBlob
  <2> QED BY <2>3, <2>4, <2>6 DEF EpIInv
<1> QED BY <1>1, <1>2


\* A process that starts again is at the place published last, or without a book.
LEMMA RestoresPlace ==
  ASSUME EpIInv, EpRestores
  PROVE  /\ (Places # {} /\ LastPlace.book \in onDisk) => narration'.book = LastPlace.book
         /\ \/ narration' = NotLoaded
            \/ /\ Places # {} /\ LastPlace.book \in Books /\ Place(LastPlace.book, LastPlace.at)
               /\ \E s \in BOOLEAN, n \in Nat :
                     /\ s = LastPlace.started
                     /\ narration' = [book |-> LastPlace.book, current |-> LastPlace.at, started |-> s,
                                      path |-> LastPlace.book, blob |-> n]
<1>0. /\ told \in Seq(Pieces) /\ epStep = "restore" /\ narration = NotLoaded /\ onDisk \subseteq Books
      /\ Number \in Nat /\ (Places # {} => Blobs # {})
  BY BlobsAre DEF EpIInv, EpTyped, EpRestores, GoesOn, CommandFits, PlaceIsOfBlob
<1>1. CASE Blobs = {}
  BY <1>0, <1>1 DEF EpRestores
<1>2. CASE Blobs # {}
  <2>1. PICK blob \in 1..Len(told) : blob = Max(Blobs)
    BY <1>0, <1>2, BlobsAre DEF Blobs
  <2>2. PICK fetched \in BOOLEAN :
          /\ fetched => \E i \in 1..Len(told) : told[i].kind = "creds" /\ told[i].at = Number
          /\ \E book : /\ book = Found(blob, fetched)
                        /\ narration' =
                             IF book = 0 THEN narration ELSE
                             [LatestState EXCEPT !.book = book, !.blob = Number,
                                !.current = Min({LatestState.current, Max({Chapters(book) - 1, 0})})]
    BY <1>2, <2>1, Zenon DEF EpRestores, Number
  <2>6. PICK book :
          /\ book = Found(blob, fetched)
          /\ narration' =
               IF book = 0 THEN narration ELSE
               [LatestState EXCEPT !.book = book, !.blob = Number,
                  !.current = Min({LatestState.current, Max({Chapters(book) - 1, 0})})]
    BY <2>2, Zenon
  <2>3. Places = {} => LatestState.path = 0
    BY Zenon DEF LatestState, Places, NotLoaded
  <2>4. CASE Places = {}
    <3>1. ~fetched
      BY <2>2, <2>4 DEF EpIInv, PlaceIsOfBlob
    <3>2. LatestState.path \notin onDisk
      BY <1>0, <2>3, <2>4 DEF Books
    <3>3. book = 0
      BY <2>6, <3>1, <3>2, Zenon DEF Found
    <3> QED BY <1>0, <2>6, <2>4, <3>3
  <2>5. CASE Places # {}
    <3>1. /\ LastPlace \in Pieces /\ LastPlace.book \in Books /\ Place(LastPlace.book, LastPlace.at)
      BY <1>0, <2>5, BlobsAre DEF EpIInv, ToldIsKnown, LastPlace, Places
    <3>2. PICK s \in BOOLEAN : s = LastPlace.started
      BY <3>1 DEF Pieces
    <3>3. LatestState = [book |-> 0, current |-> LastPlace.at, started |-> s,
                         path |-> LastPlace.book, blob |-> 0]
      <4>1. LatestState = [NotLoaded EXCEPT !.path = LastPlace.book, !.current = LastPlace.at,
                                            !.started = LastPlace.started]
        BY <2>5, Zenon DEF LatestState, Places, LastPlace
      <4>2. LatestState = [NotLoaded EXCEPT !.path = LastPlace.book, !.current = LastPlace.at,
                                            !.started = s]
        BY <4>1, <3>2, Zenon
      <4> QED BY <4>2 DEF NotLoaded
    <3>4. book = LastPlace.book \/ (book = 0 /\ LastPlace.book \notin onDisk)
      <4>1. CASE fetched
        <5>1. book = told[blob].book
          BY <2>6, <4>1, Zenon DEF Found
        <5>2. LastPlace.book = LastBlob.book
          BY <2>2, <4>1 DEF EpIInv, PlaceIsOfBlob
        <5>3. LastBlob = told[blob]
          BY <2>1 DEF LastBlob
        <5> QED BY <5>1, <5>2, <5>3
      <4>2. CASE ~fetched /\ LatestState.path \in onDisk
        <5>1. book = LatestState.path
          BY <2>6, <4>2, Zenon DEF Found
        <5> QED BY <5>1, <3>3
      <4>3. CASE ~fetched /\ LatestState.path \notin onDisk
        <5>1. book = 0
          BY <2>6, <4>3, Zenon DEF Found
        <5> QED BY <5>1, <4>3, <3>3
      <4> QED BY <4>1, <4>2, <4>3
    <3>5. CASE book = 0
      BY <1>0, <2>6, <3>1, <3>4, <3>5 DEF Books
    <3>6. CASE book = LastPlace.book
      <4>1. book # 0 /\ Chapters(book) \in Nat
        BY <3>1, <3>6 DEF Books, Chapters
      <4>2. Min({LastPlace.at, Max({Chapters(book) - 1, 0})}) = LastPlace.at
        <5>1. PICK last \in Int : last = LastPlace.at
          BY <3>1 DEF Place
        <5>2. PICK top \in Int : top = Max({Chapters(book) - 1, 0}) /\ last <= top
          <6>1. Chapters(book) - 1 \in Int /\ last \in Nat /\ (last = 0 \/ last < Chapters(book))
            BY <3>1, <3>6, <4>1, <5>1 DEF Place
          <6>2. Max({Chapters(book) - 1, 0}) = IF 0 <= Chapters(book) - 1 THEN Chapters(book) - 1 ELSE 0
            BY <6>1, FromZero
          <6> QED BY <4>1, <6>1, <6>2
        <5>3. Min({last, top}) = last
          BY <5>2, OfTwo
        <5> QED BY <5>1, <5>2, <5>3
      <4>3. narration' = [book |-> LastPlace.book, current |-> LastPlace.at, started |-> s,
                          path |-> LastPlace.book, blob |-> Number]
        BY <2>6, <3>3, <3>6, <4>1, <4>2
      <4>4. \E t \in BOOLEAN, n \in Nat :
               /\ t = LastPlace.started
               /\ narration' = [book |-> LastPlace.book, current |-> LastPlace.at, started |-> t,
                                path |-> LastPlace.book, blob |-> n]
        BY <1>0, <3>2, <4>3, Zenon
      <4>5. narration'.book = LastPlace.book
        BY <4>3
      <4> QED BY <2>5, <3>1, <4>4, <4>5, Zenon
    <3> QED BY <3>4, <3>5, <3>6
  <2> QED BY <2>4, <2>5
<1> QED BY <1>1, <1>2

\* A restart reads the narration back from what was told last.
LEMMA RestoresKeeps ==
  ASSUME EpIInv, EpRestores
  PROVE  EpIInv'
<1>0. /\ told \in Seq(Pieces) /\ epStep' = "gate" /\ awaited = {}
      /\ UNCHANGED <<told, cmd, awaited, onDisk>>
  BY DEF EpIInv, EpTyped, EpRestores, GoesOn, CommandFits, uploadVars, userVars
<1>1. /\ Places' = Places /\ LastPlace' = LastPlace /\ Blobs' = Blobs
      /\ LastBlob' = LastBlob /\ Number' = Number
  BY <1>0, ToldStays
<1>2. \/ narration' = NotLoaded
      \/ \E s \in BOOLEAN, n \in Nat :
            /\ s = LastPlace.started
            /\ Places # {} /\ LastPlace.book \in Books /\ Place(LastPlace.book, LastPlace.at)
            /\ narration' = [book |-> LastPlace.book, current |-> LastPlace.at, started |-> s,
                             path |-> LastPlace.book, blob |-> n]
  BY RestoresPlace, Zenon
<1>3. /\ narration' \in [book : {0} \cup Books, current : Nat, started : BOOLEAN,
                         path : {0} \cup Books, blob : Nat]
      /\ narration'.book # 0 =>
            /\ narration'.path = narration'.book /\ narration'.book = LastPlace.book
            /\ narration'.current = LastPlace.at /\ Places # {}
            /\ LastPlace.started = narration'.started
            /\ Place(narration'.book, narration'.current)
  <2>1. CASE narration' = NotLoaded
    BY <2>1 DEF NotLoaded
  <2>2. ASSUME NEW s \in BOOLEAN, NEW n \in Nat, s = LastPlace.started,
               Places # {}, LastPlace.book \in Books, Place(LastPlace.book, LastPlace.at),
               narration' = [book |-> LastPlace.book, current |-> LastPlace.at, started |-> s,
                             path |-> LastPlace.book, blob |-> n]
        PROVE  /\ narration' \in [book : {0} \cup Books, current : Nat, started : BOOLEAN,
                                  path : {0} \cup Books, blob : Nat]
               /\ narration'.path = narration'.book /\ narration'.book = LastPlace.book
               /\ narration'.current = LastPlace.at /\ LastPlace.started = narration'.started
               /\ Place(narration'.book, narration'.current)
    <3>1. LastPlace.at \in Nat /\ LastPlace.book \in {0} \cup Books
      BY <2>2 DEF Place
    <3> QED BY <2>2, <3>1
  <2> QED BY <1>2, <2>1, <2>2
<1>4. EpTyped' /\ CommandFits'
  BY <1>0, <1>1, <1>3 DEF EpIInv, EpTyped, EpSteps, CommandFits
<1>5. ToldIsKnown' /\ PlaceIsOfBlob'
  BY <1>0, <1>1 DEF EpIInv, ToldIsKnown, PlaceIsOfBlob, Place, Chapters
<1>6. NarrationIsKnown' /\ MovesOn' /\ LoadsBlob'
  BY <1>0, <1>1, <1>3 DEF NarrationIsKnown, MovesOn, LoadsBlob, Place, Chapters
<1>7. PlaceIsTold'
  BY <1>1, <1>3, Zenon DEF PlaceIsTold
<1> QED BY <1>4, <1>5, <1>6, <1>7 DEF EpIInv

\* What each step of the narrator may rely on: between two commands the book and the chapter in
\* hand are those published last, a move stays in the book, and a load is of the blob published
\* last.
THEOREM EpInductive == EpSpec => []EpIInv
<1>1. EpIInv /\ [EpNext]_epVars => EpIInv'
  BY QuietSteps, EpCrashKeeps, LoadsKeeps, SetsKeeps, PublishesKeeps, MovesKeeps, ReadsKeeps,
     UploadsKeeps, RestoresKeeps
  DEF EpNext
<1> QED BY <1>1, EpInitEstablishes, PTL DEF EpSpec

\* Reading goes on where the session says it is: the place published after a load is the one
\* published last for the book, and !next reads the chapter there or, once one was read, the one
\* after it, whatever crash, book or jump came in between (cafe-epub, restore_state and the
\* commands); not the first !next after a load by a process that has read before.
THEOREM NarrationAlwaysResumes == EpSpec => NarrationResumes
<1>1. EpIInv /\ [EpNext]_epVars => [ResumesInPlace /\ ReadsOn]_epVars
  <2> SUFFICES ASSUME EpIInv, [EpNext]_epVars, ~(UNCHANGED epVars)
               PROVE  ResumesInPlace /\ ReadsOn
    OBVIOUS
  <2>0. told \in Seq(Pieces) /\ Len(told) \in Nat /\ ToldAs("state") = Places
    BY DEF EpIInv, EpTyped, ToldAs, Places
  <2>1. ResumesInPlace
    <3> SUFFICES ASSUME epStep = "restore", epStep' = "gate", Places # {}
                 PROVE  /\ LastPlace.book \in onDisk => narration'.book = LastPlace.book
                        /\ narration'.book # 0 =>
                              /\ narration'.path = LastPlace.book /\ narration'.book = LastPlace.book
                              /\ narration'.current = LastPlace.at
                              /\ narration'.started = LastPlace.started
      BY <2>0, Zenon DEF ResumesInPlace, LastPlace
    <3>1. EpRestores
      BY DEF EpNext, GoesOn, EpGateOpens, EpTakes, EpLoads, EpSets, EpPublishesState, EpMoves, EpReads,
             EpTtsEnds, EpCredentials, EpUploads, EpUploaded, FileGoes, EpCrash
    <3>2. CASE narration' = NotLoaded
      BY <3>1, <3>2, RestoresPlace DEF NotLoaded
    <3>3. ASSUME NEW s \in BOOLEAN, NEW n \in Nat, s = LastPlace.started,
                 narration' = [book |-> LastPlace.book, current |-> LastPlace.at, started |-> s,
                               path |-> LastPlace.book, blob |-> n]
          PROVE  /\ narration'.path = LastPlace.book /\ narration'.book = LastPlace.book
                 /\ narration'.current = LastPlace.at /\ narration'.started = LastPlace.started
      BY <3>3
    <3> QED BY <3>1, <3>2, <3>3, RestoresPlace
  <2>2. ReadsOn
    <3> SUFFICES ASSUME told' # told, told'[Len(told')].kind = "text", cmd.verb = "next"
                 PROVE  told'[Len(told')].at = IF LastPlace.started THEN LastPlace.at + 1 ELSE LastPlace.at
      BY <2>0, Zenon DEF ReadsOn, NextReads, LastPlace
    <3>1. ASSUME NEW c \in Pieces, told' = Append(told, c) PROVE c.kind = "text"
      BY <2>0, <3>1
    <3>2. EpReads
      <4>1. ASSUME EpLoads PROVE FALSE
        <5>1. BlobChunk(cmd.arg) \in Pieces /\ BlobChunk(cmd.arg).kind = "blob"
          BY <4>1 DEF EpLoads, EpIInv, CommandFits, BlobChunk, Pieces
        <5>2. told' = Append(told, BlobChunk(cmd.arg))
          BY <4>1, Zenon DEF EpLoads
        <5> QED BY <3>1, <5>1, <5>2
      <4>2. ASSUME EpPublishesState PROVE FALSE
        <5>1. PICK c : c = StateChunk
          OBVIOUS
        <5>2. c \in Pieces /\ c.kind = "state"
          <6>1. PICK s \in BOOLEAN : s = narration.started
            BY DEF EpIInv, EpTyped
          <6>2. c = [kind |-> "state", book |-> narration.path, at |-> narration.current, started |-> s]
            BY <5>1, <6>1, Zenon DEF StateChunk
          <6> QED BY <6>2 DEF Pieces, EpIInv, EpTyped
        <5> QED BY <3>1, <4>2, <5>1, <5>2 DEF EpPublishesState
      <4>3. ASSUME NEW n \in posted, EpUploads(n) PROVE FALSE
        <5>1. n \in awaited /\ told' = Append(told, CredentialsChunk(n))
          BY <4>3 DEF EpUploads
        <5>2. CredentialsChunk(n) \in Pieces /\ CredentialsChunk(n).kind = "creds"
          BY <5>1 DEF CredentialsChunk, Pieces, EpIInv, EpTyped
        <5> QED BY <3>1, <5>1, <5>2
      <4> QED
        BY <4>1, <4>2, <4>3, Zenon
        DEF EpNext, EpRestores, EpGateOpens, EpTakes, EpSets, EpMoves, EpTtsEnds, EpCredentials, EpUploaded,
            FileGoes, EpCrash
    <3>3. /\ TextChunk \in Pieces /\ TextChunk.at = narration.current
          /\ told' = Append(told, TextChunk)
      BY <3>2 DEF EpReads, TextChunk, Pieces, EpIInv, EpTyped
    <3>4. told'[Len(told')] = TextChunk
      BY <2>0, <3>3
    <3>5. narration.current = IF LastPlace.started THEN LastPlace.at + 1 ELSE LastPlace.at
      BY <3>2 DEF EpReads, EpIInv, MovesOn
    <3> QED BY <3>3, <3>4, <3>5
  <2> QED BY <2>1, <2>2
<1> QED BY <1>1, EpInductive, PTL DEF EpSpec, NarrationResumes

=============================================================================
