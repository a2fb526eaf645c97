------------------------------ MODULE TuiClient ------------------------------
(***************************************************************************)
(* cafe-tui and what is behind it: the screen with its modes and keys, the *)
(* HTTP calls it waits for, and one task per message that streams the      *)
(* answer back through POST /chat of cafe-server, which publishes the      *)
(* message, subscribes, and passes on what comes until the first           *)
(* completion.  All tasks write to one channel; the screen knows nothing   *)
(* of where a chunk comes from.                                            *)
(***************************************************************************)
EXTENDS Selections, Integers, Sequences, SequencesExt, FiniteSets

CONSTANTS
    MaxSent,       \* bound on the messages sent and the sessions, together
    MaxCutoffs     \* bound on the streams that break

ASSUME TuiAssumption ==
    /\ MaxSent \in Nat /\ MaxCutoffs \in Nat

VARIABLES
    rooms,      \* the log of every session created so far
    open,       \* the sessions that exist, in the order of the list
    todo,       \* todo[s]: what cafe-llm still has to publish of its answer
    unanswered, \* unanswered[s]: messages it has not begun to answer
    streams,    \* the tasks of stream_chat with their handler in the server
    screen,     \* App.messages, as a set: neither order nor number matter
    streaming,  \* App.streaming
    mode,       \* App.mode; "create" is the agent picker of /new
    active,     \* the session of active_session_idx, 0 if the list is empty
    raw         \* App.raw_mode

serverVars == <<rooms, open, todo, unanswered>>
appVars == <<screen, streaming, mode, active, raw>>
tuiVars == <<serverVars, streams, appVars>>

\* A chunk: what it is and its id; a tombstone has the ids it is for.
Shown(kind, id) == [kind |-> kind, id |-> id]

\* What cafe-llm publishes for a message: a token; then, one after the other and as one step
\* here, the whole text, the tombstone for the tokens and the completion.  Or an error, which
\* is a completion too.
Answers(id) == {
    << <<Shown("piece", id)>>, <<Shown("text", id), Shown("tombstone", id), Shown("done", id)>> >>,
    << <<Shown("error", id)>> >> }

Transient(c) == c.kind \in {"piece", "tombstone"}

\* Mutant of Completes: the whole text is taken for the end.
TextCompletes(c) == c.kind \in {"text", "error"}

Completes(c) == c.kind \in {"done", "error"}

Exists(s) == s \in ToSet(open)
History(s) ==
    IF Exists(s) THEN Selected(rooms[s], {n \in 1..Len(rooms[s]) : ~Transient(rooms[s][n])}) ELSE <<>>

-----------------------------------------------------------------------------
(* The bus, cafe-llm and cafe-server *)

\* The agent of the session has the message answered, one after the other.
AnswerBegins(s) ==
    /\ unanswered[s] # <<>> /\ todo[s] = <<>> /\ Exists(s)
    /\ \E answer \in Answers(Head(unanswered[s])) : todo' = [todo EXCEPT ![s] = answer]
    /\ unanswered' = [unanswered EXCEPT ![s] = Tail(@)]
    /\ UNCHANGED <<rooms, open, streams, appVars>>

AnswerGoesOn(s) ==
    /\ todo[s] # <<>>
    /\ rooms' = IF Exists(s) THEN [rooms EXCEPT ![s] = @ \o Head(todo[s])] ELSE rooms
    /\ todo' = [todo EXCEPT ![s] = Tail(@)]
    /\ UNCHANGED <<open, unanswered, streams, appVars>>

\* chat: the message is published over a connection of its own, which the bus reads when it
\* does ...
BusTakesMessage(k) ==
    /\ ~streams[k].taken
    /\ LET s == streams[k].room
       IN  IF Exists(s)
           THEN /\ rooms' = [rooms EXCEPT ![s] = Append(@, Shown("user", k))]
                /\ unanswered' = [unanswered EXCEPT ![s] = Append(@, k)]
           ELSE UNCHANGED <<rooms, unanswered>>
    /\ streams' = [streams EXCEPT ![k].taken = TRUE]
    /\ UNCHANGED <<open, todo, appVars>>

\* ... and then the session is subscribed to; the replay is skipped.  (A session that is
\* gone is answered by an error before HistoryComplete, which is skipped, too.)
ChatSubscribes(k) ==
    /\ streams[k].step = "posted"
    /\ streams' = [streams EXCEPT ![k].step = "listening", ![k].pos = Len(rooms[streams[k].room])]
    /\ UNCHANGED <<serverVars, appVars>>

\* The server stops, or the network is gone: stream_chat returns and nobody is told.
StreamIsCut(k) ==
    /\ streams[k].step \notin {"over", "cut"}
    /\ Cardinality({j \in DOMAIN streams : streams[j].step = "cut"}) < MaxCutoffs
    /\ streams' = [streams EXCEPT ![k].step = "cut", ![k].pos = 0]
    /\ UNCHANGED <<serverVars, appVars>>

-----------------------------------------------------------------------------
(* The loop of run_app: the channel *)

Tombstoned(id) == screen \ {Shown("piece", id)}

\* The next chunk of a stream gets through the SSE channel and stream_chat to the channel of
\* the screen, which takes it from there.  (How long it was under way is as good as how long
\* it was not sent: the channel is any merge of the streams.)  Everything but empty null
\* chunks is pushed; tokens and the whole text are marked as streaming, and the completion,
\* with which the stream ends, takes the mark back.
Drains(k) ==
    /\ streams[k].step = "listening"
    /\ streams[k].pos < Len(rooms[streams[k].room])
    /\ LET pos == streams[k].pos + 1
           c == rooms[streams[k].room][pos]
       IN  /\ streams' = IF Completes(c) THEN [streams EXCEPT ![k].step = "over", ![k].pos = 0]
                         ELSE [streams EXCEPT ![k].pos = pos]
           /\ screen' = IF c.kind = "tombstone" THEN Tombstoned(c.id) ELSE screen \cup {c}
           /\ streaming' = CASE c.kind \in {"piece", "text"} -> TRUE
                             [] Completes(c)                 -> FALSE
                             [] OTHER                        -> streaming
    /\ UNCHANGED <<serverVars, mode, active, raw>>

-----------------------------------------------------------------------------
(* The loop of run_app: the keyboard *)

MoreSent == Len(streams) + Len(rooms) < MaxSent

\* Enter does nothing while an answer is streaming.
Enter == mode = "normal" /\ ~streaming

\* load_history: the messages and errors of the active session, or everything.
Loaded(s, all) ==
    {c \in ToSet(History(s)) : all \/ c.kind \in {"user", "text", "error"}}

SendsMessage ==
    /\ Enter /\ active # 0 /\ MoreSent
    /\ screen' = screen \cup {Shown("user", Len(streams) + 1)}
    /\ streams' = Append(streams, [room |-> active, step |-> "posted", taken |-> FALSE, pos |-> 0])
    /\ UNCHANGED <<serverVars, streaming, mode, active, raw>>

OpensSessions ==
    /\ Enter
    /\ mode' = "sessions"
    /\ UNCHANGED <<serverVars, streams, screen, streaming, active, raw>>

\* Up and Down change the active session at once, Esc keeps it.
Moves(s) ==
    /\ mode = "sessions"
    /\ \E i, j \in DOMAIN open : open[i] = active /\ open[j] = s /\ j \in {i - 1, i + 1}
    /\ active' = s
    /\ UNCHANGED <<serverVars, streams, screen, streaming, mode, raw>>

Escapes ==
    /\ mode \in {"sessions", "create"}
    /\ mode' = "normal"
    /\ UNCHANGED <<serverVars, streams, screen, streaming, active, raw>>

SwitchesSession ==
    /\ mode = "sessions"
    /\ mode' = "normal"
    /\ screen' = IF active = 0 THEN {} ELSE Loaded(active, raw)
    /\ UNCHANGED <<serverVars, streams, streaming, active, raw>>

OpensAgents ==
    /\ Enter
    /\ mode' = "create"
    /\ UNCHANGED <<serverVars, streams, screen, streaming, active, raw>>

NewRoom(log) ==
    /\ MoreSent
    /\ rooms' = Append(rooms, log)
    /\ todo' = Append(todo, <<>>) /\ unanswered' = Append(unanswered, <<>>)
    /\ open' = Append(open, Len(rooms) + 1)
    /\ active' = Len(rooms) + 1

CreatesSession ==
    /\ mode = "create"
    /\ NewRoom(<<>>)
    /\ mode' = "normal"
    /\ screen' = {}
    /\ UNCHANGED <<streams, streaming, raw>>

ForksSession ==
    /\ Enter /\ active # 0
    /\ NewRoom(History(active))
    /\ screen' = Loaded(active, raw)
    /\ UNCHANGED <<streams, streaming, mode, raw>>

AsksToDelete ==
    /\ Enter
    /\ mode' = "confirm"
    /\ UNCHANGED <<serverVars, streams, screen, streaming, active, raw>>

Refuses ==
    /\ mode = "confirm"
    /\ mode' = "normal"
    /\ UNCHANGED <<serverVars, streams, screen, streaming, active, raw>>

\* The first session of the list becomes active, whichever the user picks then.
DeletesSession ==
    /\ mode = "confirm"
    /\ IF active = 0
       THEN mode' = "normal" /\ UNCHANGED <<open, screen, active>>
       ELSE /\ open' = RemoveFirst(open, active)
            /\ screen' = {}
            /\ active' = IF open' = <<>> THEN 0 ELSE open'[1]
            /\ mode' = IF open' = <<>> THEN "create" ELSE "sessions"
    /\ UNCHANGED <<rooms, todo, unanswered, streams, streaming, raw>>

Clears ==
    /\ Enter
    /\ screen' = {}
    /\ UNCHANGED <<serverVars, streams, streaming, mode, active, raw>>

\* Ctrl-R, also while an answer is streaming.
TogglesRaw ==
    /\ mode = "normal"
    /\ raw' = ~raw
    /\ screen' = IF active = 0 THEN screen ELSE Loaded(active, ~raw)
    /\ UNCHANGED <<serverVars, streams, streaming, mode, active>>

-----------------------------------------------------------------------------

\* The session that --new made, or the one that was there.
TuiInit ==
    /\ rooms = << <<>> >> /\ open = <<1>> /\ todo = << <<>> >> /\ unanswered = << <<>> >>
    /\ streams = <<>>
    /\ screen = {} /\ streaming = FALSE /\ mode = "normal" /\ active = 1
    /\ raw = FALSE

Chats(k) ==
    BusTakesMessage(k) \/ ChatSubscribes(k) \/ Drains(k) \/ StreamIsCut(k)

Presses ==
    \/ SendsMessage \/ OpensSessions \/ Escapes \/ SwitchesSession \/ OpensAgents
    \/ CreatesSession \/ ForksSession \/ AsksToDelete \/ Refuses \/ DeletesSession
    \/ Clears \/ TogglesRaw
    \/ \E s \in ToSet(open) : Moves(s)

TuiNext ==
    \/ \E s \in DOMAIN rooms : AnswerBegins(s) \/ AnswerGoesOn(s)
    \/ \E k \in DOMAIN streams : Chats(k)
    \/ Presses

TuiSpec == TuiInit /\ [][TuiNext]_tuiVars

-----------------------------------------------------------------------------

TuiTypeOK ==
    /\ ToSet(open) \subseteq DOMAIN rooms /\ IsInjective(open)
    /\ active \in ToSet(open) \cup {0} /\ (active = 0) = (open = <<>>)
    /\ streaming \in BOOLEAN /\ raw \in BOOLEAN
    /\ mode \in {"normal", "sessions", "create", "confirm"}
    /\ \A k \in DOMAIN streams : streams[k].room \in DOMAIN rooms

\* When every stream has ended by itself and the screen has drained it all, it is free again
\* and shows no token of an answer whose text it got: however many messages were sent before
\* the first token came, and whatever sessions were switched to, forked or deleted meanwhile.
\* (A stream that is cut, or whose session is deleted, leaves both behind.)
ScreenSettles ==
    (\A k \in DOMAIN streams : streams[k].step = "over") =>
        /\ ~streaming
        /\ \A m \in screen : m.kind # "piece"

=============================================================================
