----------------------------- MODULE DiceWorker -----------------------------
(***************************************************************************)
(* The task of cafe-dice, cafe-rot13, cafe-web-fetch or cafe-rss for one   *)
(* session: an RPC service that handles one request after the other and    *)
(* publishes each of its chunks over a connection of its own.  An agent    *)
(* of the repository calls at most one of them, and one task stands for    *)
(* whichever it is.                                                        *)
(***************************************************************************)
EXTENDS SessionLog

CONSTANT
    Dice        \* run_session of cafe-dice, or of the service that stands in its place

ASSUME DiceAssumption == Dice \in Reader

DiceActs(c) ==
    c.kind = "request" /\ c.info \in {"dice-detector", "dice.roll", "rot13", "web-fetch", "rss-fetch"}

DiceChunk(kind, id, info) == [kind |-> kind, id |-> id, info |-> info]

\* cafe-rot13: the answer, and the text once more for whoever reads along.
Rot13Replies(c) == {{DiceChunk("response", c.id, "ok"), DiceChunk("note", c.id, "")}}

\* cafe-web-fetch: the page as a text and then the answer that names it, or an error if
\* there is no URL or it cannot be fetched.
FetchReplies(c) ==
    {{DiceChunk("note", c.id, ""), DiceChunk("response", c.id, "ok")},
     {DiceChunk("response", c.id, "err")}}

\* cafe-rss: the items of the feed are in the answer.
RssReplies(c) == {{DiceChunk("response", c.id, "ok")}, {DiceChunk("response", c.id, "err")}}

\* What the service publishes for a request: the detector a tool call if the text is a
\* roll, and its answer; the roll its total or an error.
Replies(c) ==
    CASE c.info = "dice-detector" ->
            {{DiceChunk("toolcall", c.id, "dice.roll"), DiceChunk("response", c.id, "ok")},
             {DiceChunk("response", c.id, "ok")}}
      [] c.info = "dice.roll" ->
            {{DiceChunk("response", c.id, "ok")}, {DiceChunk("response", c.id, "err")}}
      [] c.info = "rot13" -> Rot13Replies(c)
      [] c.info = "web-fetch" -> FetchReplies(c)
      [] c.info = "rss-fetch" -> RssReplies(c)

\* Only what arrives after HistoryComplete is handled (ADR-123).
DiceGate(i) == Live(Dice, i)

DiceReads(i) ==
    /\ at[Dice] >= 0
    /\ pos' = [pos EXCEPT ![Dice] = i]
    /\ UNCHANGED <<log, at>>

DiceIgnore(i) == DiceReads(i) /\ ~DiceGate(i) /\ UNCHANGED net

DiceAnswer(i) ==
    /\ DiceReads(i)
    /\ DiceGate(i)
    /\ \E reply \in Replies(log[i]) : net' = net \cup reply

DiceNext ==
    \/ Subscribe(Dice)
    \/ \E i \in Upcoming(Dice, DiceActs) : DiceIgnore(i) \/ DiceAnswer(i)

=============================================================================
