---------------------------- MODULE KnowledgeBase ----------------------------
(***************************************************************************)
(* cafe-knowledgebase: the handlers of its session workers over one table  *)
(* (a namespace) of rows.  Every call has a session of its own, as those   *)
(* of cafe-mcp-bridge and cafe-knowledgebase-index have, so that calls run *)
(* side by side.  An index call writes a row for the document and one per  *)
(* chunk of its text, with the embedding server asked before each.  A text *)
(* is the lengths of its paragraphs, a byte its paragraph and number, and  *)
(* "wide" says which bytes go on with a character of several.              *)
(***************************************************************************)
EXTENDS Integers, Sequences, FiniteSets, FiniteSetsExt, Selections

CONSTANTS
    Docs,          \* the ids of documents
    Uploads,       \* what index calls may ask for: a document, its text and how to cut it
    MaxKbCalls,    \* bound on the calls
    MaxKbCrashes   \* bound on the crashes of the evaluator

Job == [text : Seq(Nat), wide : SUBSET (Nat \X Nat), size : Nat, overlap : Nat]

ASSUME KbAssumption ==
    /\ Uploads \subseteq [doc : Docs, job : Job]
    /\ MaxKbCalls \in Nat /\ MaxKbCrashes \in Nat

VARIABLES
    table,     \* the rows of the namespace, in the order they were added
    opened,    \* does its table exist?
    kbCalls,   \* the calls made so far
    kbCrashes

kbVars == <<table, opened, kbCalls, kbCrashes>>

FullDoc == -1     \* CHUNK_INDEX_FULL_DOC
Around == 1       \* context_chunks of a search

Asks == {[kind |-> "index", doc |-> u.doc, job |-> u.job] : u \in Uploads}
            \cup [kind : {"delete"}, doc : Docs] \cup [kind : {"search", "context", "list"}]

-----------------------------------------------------------------------------
(* chunk_text *)

Gap == <<<<0, 0>>, <<0, 0>>>>                  \* the two newlines between paragraphs
Dots == <<<<0, 1>>, <<0, 1>>, <<0, 1>>>>
Blank == <<<<0, 2>>>>                          \* a text without a character to show

Paragraph(text, p) == [i \in 1..text[p] |-> <<p, i>>]

\* From the start of a piece of a paragraph to the start of the next.
StepOf(job) == job.size - job.overlap

\* The k-th piece of a paragraph, from 0, and the characters before it.
Piece(job, chars, k) ==
    SubSeq(chars, k * StepOf(job) + 1, Min({k * StepOf(job) + job.size, Len(chars)}))
Bridge(job, chars, k) ==
    SubSeq(chars, Max({0, k * StepOf(job) - job.overlap}) + 1, k * StepOf(job))

\* The first piece that reaches the end.
LastPiece(job, chars) ==
    Min({k \in 0..Len(chars) : k * StepOf(job) + job.size >= Len(chars)})

\* A paragraph longer than a chunk: pieces that overlap, all but the very first chunk with
\* the characters before it and dots in front.
HardSplit(job, chars, first) ==
    [n \in 1..LastPiece(job, chars) + 1 |->
        IF job.overlap > 0 /\ (n > 1 \/ ~first)
        THEN Bridge(job, chars, n - 1) \o Dots \o Piece(job, chars, n - 1)
        ELSE Piece(job, chars, n - 1)]

IsFull(job, acc, chars) == acc.current # <<>> /\ Len(acc.current) + Len(chars) + 2 > job.size

\* Chunks so far and the one that is being filled, with one more paragraph.
WithParagraph(job, acc, p) ==
    LET chars == Paragraph(job.text, p)
        flushed == IF acc.current = <<>> THEN acc.chunks ELSE Append(acc.chunks, acc.current)
        full == IsFull(job, acc, chars)
        tail == IF job.overlap > 0 /\ job.overlap < Len(acc.current)
                THEN SubSeq(acc.current, Len(acc.current) - job.overlap + 1, Len(acc.current))
                ELSE <<>>
        kept == IF full THEN tail ELSE acc.current
    IN  CASE chars = <<>> -> acc
          [] Len(chars) > job.size ->
               [chunks |-> flushed \o HardSplit(job, chars, flushed = <<>>), current |-> <<>>]
          [] OTHER ->
               [chunks |-> IF full THEN flushed ELSE acc.chunks,
                current |-> (IF kept = <<>> THEN <<>> ELSE kept \o Gap) \o chars]

\* Chunks and the one being filled, after each paragraph.
Filled(job) ==
    LET filled[p \in 0..Len(job.text)] ==
            IF p = 0 THEN [chunks |-> <<>>, current |-> <<>>]
            ELSE WithParagraph(job, filled[p - 1], p)
    IN  filled

ChunkText(job) ==
    LET acc == Filled(job)[Len(job.text)]
    IN  IF acc.current # <<>> THEN Append(acc.chunks, acc.current)
        ELSE IF acc.chunks = <<>> /\ job.text # <<>> THEN <<Blank>>
        ELSE acc.chunks

\* The loop over the pieces of a long paragraph makes no progress.
TurnsInPlace(job, p) == job.overlap >= job.size /\ job.text[p] > job.size
NeverEnds(job) == \E p \in 1..Len(job.text) : TurnsInPlace(job, p)

\* A slice that begins or ends inside a character panics: at the ends of a piece, before the
\* bytes that lead up to it, or before the end of a full chunk that goes into the next.
CutsInside(job, acc, p) ==
    LET bytes == Paragraph(job.text, p)
        pieces == IF TurnsInPlace(job, p) THEN {0} ELSE 0..LastPiece(job, bytes)
        Inside(b, n) == n + 1 \in DOMAIN b /\ b[n + 1] \in job.wide
        ends == {k * StepOf(job) + job.size : k \in pieces}
        starts == {k * StepOf(job) : k \in pieces} \ {0}
    IN  \/ /\ Len(bytes) > job.size
           /\ \E n \in ends \cup starts \cup {Max({0, n - job.overlap}) : n \in starts} : Inside(bytes, n)
        \/ /\ bytes # <<>> /\ Len(bytes) <= job.size /\ IsFull(job, acc, bytes)
           /\ 0 < job.overlap /\ job.overlap < Len(acc.current)
           /\ Inside(acc.current, Len(acc.current) - job.overlap)

Panics(job) ==
    \E p \in 1..Len(job.text) :
        /\ \A q \in 1..p - 1 : ~TurnsInPlace(job, q)
        /\ CutsInside(job, Filled(job)[p - 1], p)

-----------------------------------------------------------------------------
(* The calls *)

NoAnswer == [hit |-> <<>>, before |-> <<>>, after |-> <<>>]
KbSteps == {"embed", "ensure", "create", "write", "search", "neighbours", "delete", "list"}
Answered(c) == kbCalls[c].step = "answered"

\* done: history, the calls answered before this one was made; deleted: history, was the
\* document of an index call deleted, and when?
KbCall(ask) == [ask |-> ask, step |-> "sent", part |-> FullDoc, answer |-> NoAnswer,
              done |-> {c \in 1..Len(kbCalls) : Answered(c)}, deleted |-> "no"]

IsIndex(c) == kbCalls[c].ask.kind = "index"

GoesTo(c, from, to) == kbCalls[c].step = from /\ kbCalls' = [kbCalls EXCEPT ![c].step = to]

\* Published without retention, or replayed before HistoryComplete: it is for workers that
\* are there, and the caller learns nothing if there are none.
KbRequests ==
    /\ Len(kbCalls) < MaxKbCalls
    /\ \E ask \in Asks : kbCalls' = Append(kbCalls, KbCall(ask))
    /\ UNCHANGED <<table, opened, kbCrashes>>

KbMisses(c) ==
    /\ GoesTo(c, "sent", "lost")
    /\ UNCHANGED <<table, opened, kbCrashes>>

KbTakes(c) ==
    /\ GoesTo(c, "sent", CASE kbCalls[c].ask.kind \in {"index", "search", "context"} -> "embed"
                           [] OTHER -> kbCalls[c].ask.kind)
    /\ UNCHANGED <<table, opened, kbCrashes>>

\* embed_text, for the query or the next row of a document.
KbEmbeds(c) ==
    /\ GoesTo(c, "embed", IF IsIndex(c) THEN "ensure" ELSE "search")
    /\ UNCHANGED <<table, opened, kbCrashes>>

\* ensure_table looks for the table, and makes it if it was not there, ...
KbEnsures(c) ==
    /\ GoesTo(c, "ensure", IF opened THEN "write" ELSE "create")
    /\ UNCHANGED <<table, opened, kbCrashes>>

\* ... which fails if another call made it in between.
KbCreates(c) ==
    /\ GoesTo(c, "create", IF opened THEN "failed" ELSE "write")
    /\ opened' = TRUE
    /\ UNCHANGED <<table, kbCrashes>>

\* The row of the document or of a chunk, and what comes next; a panic ends the worker of
\* the session, which answers nothing.
KbWrites(c) ==
    LET call == kbCalls[c]
        job == call.ask.job
        next == IF call.part = FullDoc /\ Panics(job) THEN "lost"
                ELSE IF call.part = FullDoc /\ NeverEnds(job) THEN "stuck"
                ELSE IF call.part + 1 < Len(ChunkText(job)) THEN "embed"
                ELSE "answered"
    IN  /\ call.step = "write"
        /\ table' = Append(table, [doc |-> call.ask.doc, part |-> call.part, by |-> c])
        /\ kbCalls' = [kbCalls EXCEPT ![c].step = next,
                                      ![c].part = IF next = "embed" THEN @ + 1 ELSE @]
        /\ UNCHANGED <<opened, kbCrashes>>

\* An error of the embedding server or the database: what was written stays.
KbFails(c) ==
    /\ kbCalls[c].step \in KbSteps \ {"neighbours"}
    /\ GoesTo(c, kbCalls[c].step, "failed")
    /\ UNCHANGED <<table, opened, kbCrashes>>

\* The nearest row, whichever it is; only search_with_context goes on with its neighbours.
KbSearches(c) ==
    /\ opened
    /\ kbCalls[c].step = "search"
    /\ IF table = <<>>
       THEN kbCalls' = [kbCalls EXCEPT ![c].step = "answered"]
       ELSE \E i \in 1..Len(table) :
                kbCalls' = [kbCalls EXCEPT
                               ![c].step = IF kbCalls[c].ask.kind = "search" THEN "answered" ELSE "neighbours",
                               ![c].answer.hit = <<table[i]>>]
    /\ UNCHANGED <<table, opened, kbCrashes>>

\* The chunks of a document by their index, those of one index in the order of the table.
ChunksOf(doc) ==
    LET found == {i \in 1..Len(table) : table[i].doc = doc /\ table[i].part # FullDoc}
        Before(i, j) == table[i].part < table[j].part \/ (table[i].part = table[j].part /\ i < j)
        Place(i) == Cardinality({j \in found : Before(j, i)}) + 1
    IN  [n \in 1..Cardinality(found) |-> table[CHOOSE i \in found : Place(i) = n]]

\* get_chunk_context: a second look at the table; an error of it counts as no neighbours.
KbReadsNeighbours(c) ==
    LET hit == kbCalls[c].answer.hit[1]
        chunks == ChunksOf(hit.doc)
        at == {n \in 1..Len(chunks) : chunks[n].part = hit.part}
        pos == Min(at)
    IN  /\ kbCalls[c].step = "neighbours"
        /\ kbCalls' = [kbCalls EXCEPT
                ![c].step = "answered",
                ![c].answer.before = IF at = {} THEN <<>>
                                     ELSE SubSeq(chunks, Max({1, pos - Around}), pos - 1),
                ![c].answer.after = IF at = {} THEN <<>>
                                    ELSE SubSeq(chunks, pos + 1, Min({pos + Around, Len(chunks)}))]
        /\ UNCHANGED <<table, opened, kbCrashes>>

\* Mutant of Deleted: the predicate names the document only, not the parent of its chunks.
DeletedDocOnly(row, doc) == row.doc = doc /\ row.part = FullDoc

\* delete_predicate: doc_id or parent_doc_id.
Deleted(row, doc) == row.doc = doc

KbDeletes(c) ==
    LET doc == kbCalls[c].ask.doc
        Touched(d) == IsIndex(d) /\ kbCalls[d].ask.doc = doc /\ kbCalls[d].step # "sent"
    IN  /\ opened
        /\ kbCalls[c].step = "delete"
        /\ table' = Selected(table, {i \in 1..Len(table) : ~Deleted(table[i], doc)})
        /\ kbCalls' = [d \in 1..Len(kbCalls) |->
               CASE d = c -> [kbCalls[d] EXCEPT !.step = "answered"]
                 [] d # c /\ Touched(d) ->
                      [kbCalls[d] EXCEPT !.deleted = IF kbCalls[d].step \in KbSteps
                                                     THEN "during" ELSE "after"]
                 [] OTHER -> kbCalls[d]]
        /\ UNCHANGED <<opened, kbCrashes>>

KbLists(c) ==
    /\ opened
    /\ GoesTo(c, "list", "answered")
    /\ UNCHANGED <<table, opened, kbCrashes>>

\* A request of before the crash is replayed to the next process and skipped there.
KbCrash ==
    /\ kbCrashes < MaxKbCrashes
    /\ kbCrashes' = kbCrashes + 1
    /\ kbCalls' = [c \in 1..Len(kbCalls) |->
                      IF kbCalls[c].step \in KbSteps \cup {"sent", "stuck"}
                      THEN [kbCalls[c] EXCEPT !.step = "lost"] ELSE kbCalls[c]]
    /\ UNCHANGED <<table, opened>>

-----------------------------------------------------------------------------

KbInit == table = <<>> /\ opened = FALSE /\ kbCalls = <<>> /\ kbCrashes = 0

KbNext ==
    \/ KbRequests \/ KbCrash
    \/ \E c \in 1..Len(kbCalls) :
          \/ KbMisses(c) \/ KbTakes(c) \/ KbEmbeds(c) \/ KbFails(c)
          \/ KbEnsures(c) \/ KbCreates(c) \/ KbWrites(c)
          \/ KbSearches(c) \/ KbReadsNeighbours(c) \/ KbDeletes(c) \/ KbLists(c)

KbSpec == KbInit /\ [][KbNext]_kbVars

-----------------------------------------------------------------------------

KbTypeOK ==
    /\ \A i \in 1..Len(table) :
          table[i].doc \in Docs /\ table[i].part >= FullDoc /\ table[i].by \in 1..Len(kbCalls)
    /\ opened \in BOOLEAN /\ kbCrashes \in 0..MaxKbCrashes
    /\ \A c \in 1..Len(kbCalls) :
          kbCalls[c].step \in KbSteps \cup {"sent", "stuck", "answered", "failed", "lost"}

RowsOf(c, part) == {i \in 1..Len(table) : table[i].by = c /\ table[i].part = part}

\* The chunks of an answered call hold every byte of its text.
Covers(job) ==
    \A p \in 1..Len(job.text) : \A i \in 1..job.text[p] :
        \E n \in 1..Len(ChunkText(job)) : \E k \in 1..Len(ChunkText(job)[n]) :
            ChunkText(job)[n][k] = <<p, i>>

\* The row of the document and of each of its chunks are there once, ...
IndexedOnce(c) ==
    /\ \A part \in FullDoc..Len(ChunkText(kbCalls[c].ask.job)) - 1 :
           Cardinality(RowsOf(c, part)) = 1
    /\ Covers(kbCalls[c].ask.job)

\* ... and the neighbours of a chunk are the chunks before and after it.
FoundInContext(c) ==
    LET answer == kbCalls[c].answer
        hit == answer.hit[1]
    IN  /\ hit.part > 0 => answer.before = <<[hit EXCEPT !.part = @ - 1]>>
        /\ 0 <= hit.part /\ hit.part + 1 < Len(ChunkText(kbCalls[hit.by].ask.job))
              => answer.after = <<[hit EXCEPT !.part = @ + 1]>>

\* Does only d write and nobody delete the document of d?
Alone(d) ==
    /\ kbCalls[d].deleted = "no"
    /\ \A e \in 1..Len(kbCalls) \ {d} : IsIndex(e) => kbCalls[e].ask.doc # kbCalls[d].ask.doc

\* Whatever calls run side by side, fail or are cut off by a crash: what an index call that was
\* answered wrote is found in full, each row of it once, until the document is deleted; a
\* deletion takes everything of the calls that had ended; and what is found with its context
\* is found where it stands.  The rows of another call for the document are there as well
\* (DocIdIsKey, below), as are those of a call that goes on after the deletion.
KnowledgeIsKept ==
    \A c \in 1..Len(kbCalls) :
        /\ IsIndex(c) /\ Answered(c) /\ kbCalls[c].deleted = "no" => IndexedOnce(c)
        /\ IsIndex(c) /\ kbCalls[c].deleted = "after" => \A i \in 1..Len(table) : table[i].by # c
        /\ LET call == kbCalls[c]
           IN  call.ask.kind = "context" /\ Answered(c) /\ call.answer.hit # <<>>
                 => LET d == call.answer.hit[1].by
                    IN  d \in call.done /\ Alone(d) => FoundInContext(c)

\* ADR-111: doc_id is the primary key.  (It is not: a document that is indexed again is
\* there twice.)
DocIdIsKey ==
    \A i, j \in 1..Len(table) :
        table[i].doc = table[j].doc /\ table[i].part = table[j].part => i = j

\* ADR-111: a long paragraph is split by character count, so that no text stops the worker
\* between the row of the document and its answer.  (It is split by bytes.)
SplitsByCharacter ==
    [][\A c \in 1..Len(kbCalls) :
          kbCalls[c].step = "write" /\ kbCalls'[c].step = "lost" => kbCrashes' # kbCrashes]_kbVars

=============================================================================
