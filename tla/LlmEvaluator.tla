---------------------------- MODULE LlmEvaluator ----------------------------
(***************************************************************************)
(* The evaluator of cafe-llm for one session (evaluator.rs).  The main     *)
(* loop handles one request after the other; a second task with a          *)
(* subscription of its own watches for abort signals, because the main     *)
(* loop reads nothing while it streams an answer.  Both set one flag.  All *)
(* chunks of the evaluator go over the connection of its subscription, so  *)
(* that the bus takes them in their order, some time later.                *)
(***************************************************************************)
EXTENDS SessionLog

CONSTANTS
    Llm,        \* the main loop of run_session
    Listener,   \* the task that watches for abort signals
    Texts       \* what a text may contain: "plain", or the tool it calls ("mcp": any of those)

ASSUME LlmAssumption == {Llm, Listener} \subseteq Reader /\ Llm # Listener

VARIABLES
    gen,        \* the llm.invoke that is handled: [call, streaming, text], or Idle
    abort,      \* the value of the watch channel abort_tx
    out         \* what the evaluator wrote and the bus has not taken

llmVars == <<gen, abort, out>>

Idle == [call |-> 0, streaming |-> FALSE, text |-> "none"]
Reason == {"stop", "error", "abort"}

LlmChunk(kind, id, info) == [kind |-> kind, id |-> id, info |-> info]

\* What the main loop acts on; everything else it takes off its channel and drops.
LlmActs(c) ==
    c.kind = "abort" \/ (c.kind = "request" /\ c.info \in {"llm", "llm.prompt"})

\* Mutant of Ungated: requests are handled wherever they come from.
ActsOnReplay(i) == TRUE

\* May a request at i be dispatched?  Only after HistoryComplete (ADR-123).
Ungated(i) == Live(Llm, i)

LlmReads(i) ==
    /\ gen = Idle
    /\ at[Llm] >= 0
    /\ pos' = [pos EXCEPT ![Llm] = i]
    /\ UNCHANGED <<log, net, at>>

\* The main loop takes an abort signal while it generates nothing.
LlmAbort(i) ==
    /\ LlmReads(i)
    /\ log[i].kind = "abort"
    /\ abort' = TRUE
    /\ UNCHANGED <<gen, out>>

\* A request from before the replay ended is ignored.
LlmIgnore(i) ==
    /\ LlmReads(i)
    /\ log[i].kind = "request"
    /\ ~Ungated(i)
    /\ UNCHANGED llmVars

\* llm.invoke: the history is read, the abort flag reset and the backend asked.
\* (get_history fails only when the session is gone.)
LlmInvoke(i) ==
    /\ LlmReads(i)
    /\ log[i].kind = "request"
    /\ log[i].info = "llm"
    /\ Ungated(i)
    /\ abort' = FALSE
    /\ gen' = [call |-> log[i].id, streaming |-> FALSE, text |-> "none"]
    /\ UNCHANGED out

\* llm.prompt: one call of the backend, one answer and nothing for the history.
LlmPrompt(i) ==
    /\ LlmReads(i)
    /\ log[i].kind = "request"
    /\ log[i].info = "llm.prompt"
    /\ Ungated(i)
    /\ \E info \in {"ok", "err"} :
           out' = Append(out, LlmChunk("response", log[i].id, info))
    /\ UNCHANGED <<gen, abort>>

\* Mutant of Failure: the caller is not told.
ErrorChunk(k) == <<LlmChunk("done", k, "error")>>

\* An error chunk for the history, then the error response.
Failure(k) == <<LlmChunk("done", k, "error"), LlmChunk("response", k, "err")>>

\* backend.complete fails.
LlmFails ==
    /\ gen # Idle
    /\ ~gen.streaming
    /\ out' = out \o Failure(gen.call)
    /\ gen' = Idle
    /\ UNCHANGED <<logVars, abort>>

\* The backend starts to stream (the start chunk and the tokens are transient and
\* nobody in the model reads them).
LlmStart ==
    /\ gen # Idle
    /\ ~gen.streaming
    /\ gen' = [gen EXCEPT !.streaming = TRUE]
    /\ UNCHANGED <<logVars, abort, out>>

\* A token; the text it adds to may contain a tool call.
LlmToken(text) ==
    /\ gen.streaming
    /\ gen.text = "none"
    /\ gen' = [gen EXCEPT !.text = text]
    /\ UNCHANGED <<logVars, abort, out>>

\* Mutant of Answer: the completion is announced before the text is published.
DoneFirst(g, reason) ==
    <<LlmChunk("done", g.call, reason)>>
    \o (IF g.text = "none" THEN <<>> ELSE <<LlmChunk("text", g.call, g.text)>>)
    \o <<LlmChunk("response", g.call, "ok")>>

\* What handle_llm_response publishes when stream g has ended for a reason.
Answer(g, reason) ==
    (IF g.text = "none" THEN <<>> ELSE <<LlmChunk("text", g.call, g.text)>>)
    \o <<LlmChunk("done", g.call, reason), LlmChunk("response", g.call, "ok")>>

StreamEnds(reason) ==
    /\ gen.streaming
    /\ out' = out \o Answer(gen, reason)
    /\ gen' = Idle
    /\ UNCHANGED <<logVars, abort>>

\* The backend ends its stream, properly or with an error.
LlmEnds == StreamEnds("stop") \/ StreamEnds("error")

\* run_stream_loop sees the abort flag.
LlmAborted == abort /\ StreamEnds("abort")

\* Mutant of Signalled: the listener has a channel of its own.
Unheard(flag) == flag

IsAbort(c) == c.kind = "abort"

\* The flag once the listener has taken an abort signal.
Signalled(flag) == TRUE

\* The listener takes an abort signal, replayed or live.
ListenerAbort(i) ==
    /\ at[Listener] >= 0
    /\ pos' = [pos EXCEPT ![Listener] = i]
    /\ abort' = Signalled(abort)
    /\ UNCHANGED <<log, net, at, gen, out>>

\* run_session subscribes for its main loop first, then for the listener.
LlmSubscribe(p) ==
    /\ p = Llm \/ (p = Listener /\ at[Llm] >= 0)
    /\ Subscribe(p)
    /\ UNCHANGED llmVars

\* The bus takes the next chunk from the evaluator's connection.
LlmFlush ==
    /\ out # <<>>
    /\ log' = Append(log, Head(out))
    /\ out' = Tail(out)
    /\ UNCHANGED <<net, at, pos, gen, abort>>

-----------------------------------------------------------------------------

LlmInit == gen = Idle /\ abort = FALSE /\ out = <<>>

LlmReadsOne(i) == LlmAbort(i) \/ LlmIgnore(i) \/ LlmInvoke(i) \/ LlmPrompt(i)

LlmNext ==
    \/ \E p \in {Llm, Listener} : LlmSubscribe(p)
    \/ \E i \in Upcoming(Llm, LlmActs) : LlmReadsOne(i)
    \/ \E i \in Upcoming(Listener, IsAbort) : ListenerAbort(i)
    \/ LlmFails \/ LlmStart \/ LlmEnds \/ LlmAborted \/ LlmFlush
    \/ \E text \in Texts : LlmToken(text)

LlmTypeOK ==
    /\ gen \in [call : Nat, streaming : BOOLEAN, text : Texts \cup {"none"}]
    /\ abort \in BOOLEAN
    /\ out \in Seq(Chunk)

=============================================================================
