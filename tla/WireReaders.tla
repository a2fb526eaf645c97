---------------------------- MODULE WireReaders ----------------------------
(***************************************************************************)
(* Readers of a byte stream that arrives cut anywhere.  The sender writes  *)
(* frames, each ended by a separator; the network delivers the bytes in    *)
(* pieces; the reader gives its caller what each frame says.  A frame is   *)
(* one character of two bytes, its number and a half, and may be damaged   *)
(* or an error event.  The readers differ in what they buffer and when     *)
(* they decode.                                                            *)
(***************************************************************************)
EXTENDS Integers, Sequences, SequencesExt, FiniteSets, Selections

CONSTANTS
    MaxFrames   \* how many frames a stream may have

ASSUME WireAssumption == MaxFrames \in Nat

VARIABLES
    reader,   \* which reader
    frames,   \* frames[i]: "text", "error" or "bad", what the i-th frame sent is
    wire,     \* bytes on their way
    buffer,   \* bytes the reader keeps
    got,      \* what it gave its caller
    reading   \* "open", "done", or "failed"

wireVars == <<reader, frames, wire, buffer, got, reading>>

Newline == <<0, 0>>
Garbled == <<0, 1>>

\* Two bytes of text and the separator: "\n\n" for an event stream, else "\n".
Separator == IF reader \in {"openai", "opencode"} THEN <<Newline, Newline>> ELSE <<Newline>>
Bytes(i) == <<<<i, 1>>, <<i, 2>>>> \o Separator

Encoded(n) ==
    LET sent[i \in 0..n] == IF i = 0 THEN <<>> ELSE sent[i - 1] \o Bytes(i)
    IN  sent[n]

\* from_utf8_lossy: half a character becomes a replacement character.
Lossy(bytes) ==
    [k \in DOMAIN bytes |->
        IF \/ bytes[k] \in {Newline, Garbled}
           \/ bytes[k][2] = 1 /\ k < Len(bytes) /\ bytes[k + 1] = <<bytes[k][1], 2>>
           \/ bytes[k][2] = 2 /\ k > 1 /\ bytes[k - 1] = <<bytes[k][1], 1>>
        THEN bytes[k] ELSE Garbled]

\* Mutant of Kept: what a piece leaves over is dropped.
Dropped(bytes) == <<>>

\* The bytes that stay in the buffer until more arrive.
Kept(bytes) == bytes

\* Where the first separator in the buffer ends, 0 if there is none.
FrameEnd(bytes) ==
    LET ends == {k \in Len(Separator)..Len(bytes) :
                    SubSeq(bytes, k - Len(Separator) + 1, k) = Separator}
    IN IF ends = {} THEN 0 ELSE CHOOSE k \in ends : \A j \in ends : k <= j

\* The frame a line is, or "bad" if it is not exactly one.
Meaning(line) ==
    IF \E i \in 1..Len(frames) : line = Bytes(i)
    THEN LET i == line[1][1] IN [frame |-> i, kind |-> frames[i]]
    ELSE [frame |-> 0, kind |-> "bad"]

\* The first complete frame of what is left, if there is one, becomes a line.
CutOne(c) ==
    LET end == FrameEnd(c.left)
    IN IF end = 0 THEN c
       ELSE [lines |-> Append(c.lines, SubSeq(c.left, 1, end)),
             left |-> SubSeq(c.left, end + 1, Len(c.left))]

\* All complete frames of the buffer, and what is left of it.
CutInFrames(bytes) ==
    LET cut[n \in 0..Len(bytes)] ==
            IF n = 0 THEN [lines |-> <<>>, left |-> bytes] ELSE CutOne(cut[n - 1])
    IN  cut[Len(bytes)]

Read(lines) == [k \in 1..Len(lines) |-> Meaning(lines[k])]

TextOf(lines) == Selected(Read(lines), {k \in 1..Len(lines) : Meaning(lines[k]).kind = "text"})

Kinds(lines) == {Meaning(lines[k]).kind : k \in DOMAIN lines}

-----------------------------------------------------------------------------

\* OpenAiBackend: the bytes are buffered and decoded a frame at a time; what cannot be
\* read, an error event included, is passed over.
OpenAiReads(piece) ==
    LET c == CutInFrames(buffer \o piece)
    IN /\ buffer' = Kept(c.left)
       /\ got' = got \o TextOf(c.lines)
       /\ UNCHANGED reading

\* OpencodeGoBackend: an error event ends the stream, and the text that came in the same
\* piece before it is not passed on.
OpenCodeReads(piece) ==
    LET c == CutInFrames(buffer \o piece)
    IN IF "error" \in Kinds(c.lines)
       THEN reading' = "failed" /\ buffer' = <<>> /\ UNCHANGED got
       ELSE /\ buffer' = Kept(c.left)
            /\ got' = got \o TextOf(c.lines)
            /\ UNCHANGED reading

\* OllamaBackend: every piece is taken to be whole lines.
OllamaReads(piece) ==
    LET c == CutInFrames(Lossy(piece))
        last == IF c.left = <<>> THEN <<>> ELSE <<c.left \o Separator>>
    IN /\ got' = got \o TextOf(c.lines \o last)
       /\ UNCHANGED <<buffer, reading>>

\* stream_chat and subscribe_session of the HTTP client: a piece is decoded as it comes
\* and buffered as text; a frame that cannot be read is passed over.
SseReads(piece) ==
    LET c == CutInFrames(buffer \o Lossy(piece))
    IN /\ buffer' = Kept(c.left)
       /\ got' = got \o TextOf(c.lines)
       /\ UNCHANGED reading

\* BusReader and Frames with the JSON codec: one that cannot be read ends the connection.
BusReads(piece) ==
    LET c == CutInFrames(buffer \o piece)
        bad == {k \in DOMAIN c.lines : Meaning(c.lines[k]).kind = "bad"}
        good == IF bad = {} THEN c.lines
                ELSE SubSeq(c.lines, 1, (CHOOSE k \in bad : \A j \in bad : k <= j) - 1)
    IN /\ got' = got \o Read(good)
       /\ IF bad = {}
          THEN buffer' = Kept(c.left) /\ UNCHANGED reading
          ELSE buffer' = <<>> /\ reading' = "failed"

\* The network delivers the next bytes.
Deliver(n) ==
    /\ reading = "open"
    /\ n \in 1..Len(wire)
    /\ wire' = SubSeq(wire, n + 1, Len(wire))
    /\ LET piece == SubSeq(wire, 1, n)
       IN CASE reader = "openai"   -> OpenAiReads(piece)
            [] reader = "opencode" -> OpenCodeReads(piece)
            [] reader = "ollama"   -> OllamaReads(piece)
            [] reader = "sse"      -> SseReads(piece)
            [] reader = "bus"      -> BusReads(piece)
    /\ UNCHANGED <<reader, frames>>

\* The sender closes the stream: half a frame is not given to anybody.
StreamCloses ==
    /\ reading = "open" /\ wire = <<>>
    /\ reading' = "done"
    /\ UNCHANGED <<reader, frames, wire, buffer, got>>

\* The connection breaks: an error for the caller.
StreamBreaks ==
    /\ reading = "open" /\ wire # <<>>
    /\ reading' = "failed"
    /\ UNCHANGED <<reader, frames, wire, buffer, got>>

-----------------------------------------------------------------------------

WireInit(readers) ==
    /\ reader \in readers
    /\ frames \in UNION {[1..n -> {"text", "error", "bad"}] : n \in 0..MaxFrames}
    /\ wire = Encoded(Len(frames))
    /\ buffer = <<>> /\ got = <<>> /\ reading = "open"

WireNext ==
    \/ \E n \in 1..Len(wire) : Deliver(n)
    \/ StreamCloses \/ StreamBreaks

WireSpec ==
    WireInit({"openai", "opencode", "ollama", "sse", "bus"}) /\ [][WireNext]_wireVars

-----------------------------------------------------------------------------

WireTypeOK ==
    /\ reader \in {"openai", "opencode", "ollama", "sse", "bus"}
    /\ reading \in {"open", "done", "failed"}
    /\ \A k \in DOMAIN got : got[k].frame \in 0..MaxFrames

\* The bus takes every frame up to one that is damaged, a backend those that hold text.
Sent == [i \in DOMAIN frames |-> [frame |-> i, kind |-> frames[i]]]
Readable == Selected(Sent, {i \in DOMAIN frames : frames[i] = "text"})
BusReadable == Selected(Sent, {i \in DOMAIN frames : \A j \in 1..i : frames[j] # "bad"})

\* What a reader that keeps bytes gives its caller does not depend on where the network
\* cut the stream: what is readable, in order, and all of it once a stream has ended well.
CutsDoNotShow ==
    LET due == IF reader = "bus" THEN BusReadable ELSE Readable
    IN reader \in {"openai", "opencode", "bus"} =>
        /\ IsPrefix(got, due)
        /\ reading = "done" => got = due

=============================================================================
