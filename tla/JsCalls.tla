------------------------------- MODULE JsCalls -------------------------------
(***************************************************************************)
(* An agent of cafe-agent-js in one session: the events its run_session    *)
(* task makes of chunks, with the text and the config they are delivered   *)
(* with, and the operations its script has under way, as many at a time as *)
(* it likes: rpc (cafe.invoke, cafe.rpc), tool (cafe.tool) and publish     *)
(* (cafe.publish, publishText, annotate).  Every operation has connections *)
(* of its own to the bus, which nobody waits for.  JsHost says when a      *)
(* runtime is spawned and torn down.                                       *)
(***************************************************************************)
EXTENDS Integers, Sequences, SequencesExt, FiniteSets

CONSTANTS
    MaxActs,       \* bound on the chunks others publish and the operations together
    MaxLost        \* bound on the connections that fail

ASSUME JsCallsAssumption == MaxActs \in Nat /\ MaxLost \in Nat

VARIABLES
    said,      \* the session's chunks that make events or configs, in the order of the bus
    answers,   \* its responses, in the order of the bus
    reports,   \* reports[o]: what it was told of operation o, in the order of the bus
    flight,    \* chunks written to connections the bus has not read
    unsent,    \* history: chunks whose connection could not be made
    lasting,   \* is the agent stateful?
    feed,      \* where the run_session task is, and the event in its hands
    slot,      \* the config snapshot: its last config chunk, 0 for none, Failed
    evs,       \* the events delivered to the runtime
    script,    \* the runtime: "none", "running" or "over"
    ops,       \* the operations called so far
    losses     \* connections that failed

jsCallVars == <<said, answers, reports, flight, unsent, lasting, feed, slot, evs, script, ops, losses>>
feedVars == <<feed, slot, evs>>
heard == <<said, answers, reports>>

Failed == -1

Said(type, role, tag, transient, op, info) ==
    [type |-> type, role |-> role, tag |-> tag, transient |-> transient, op |-> op, info |-> info]

\* The session's other chunks: user messages, configs, ticks, answers of cafe-llm.
UserText == Said("text", "user", "plain", FALSE, 0, "")
ModelText == Said("text", "assistant", "llm", FALSE, 0, "")
ModelDone == Said("null", "assistant", "complete", FALSE, 0, "")
ConfigChunk == Said("null", "none", "config", FALSE, 0, "")
Tick == Said("null", "none", "tick", FALSE, 0, "")

\* What a call gets: the response to an operation, or the end of the wait for it.
Got(o, info) == [op |-> o, info |-> info]
NoOutcome == Got(0, "none")

\* The last chunk up to n that passes the test, 0 if there is none.
LatestUpTo(n, Test(_)) == SelectLastInSubSeq(said, 1, n, Test)

\* resolve_config and assemble_llm_text look at the history, where nothing transient is.
ConfigUpTo(n) ==
    LatestUpTo(n, LAMBDA c : c.type = "null" /\ c.tag = "config" /\ ~c.transient)
TextUpTo(n) ==
    LatestUpTo(n, LAMBDA c : c.type = "text" /\ c.role = "assistant" /\ c.tag = "llm" /\ ~c.transient)

\* classify_event.
EventOf(c) ==
    CASE c.transient -> "none"
      [] ~c.transient /\ c.role = "user" /\ c.type \in {"text", "binary_ref"} -> "user_message"
      [] ~c.transient /\ c.role = "assistant" /\ c.tag = "complete" -> "llm_complete"
      [] ~c.transient /\ c.tag = "tick" -> "tick"
      [] OTHER -> "none"

LoseOne == losses < MaxLost /\ losses' = losses + 1

-----------------------------------------------------------------------------
(* The bus, the other clients and the services *)

ByOthers == {i \in DOMAIN said : said[i].op = 0}
MoreActs == Cardinality(ByOthers) + Len(ops) < MaxActs

\* The text of the answer that is completed at t, 0 if it has none.
OwnText(t) ==
    LET i == LatestUpTo(t - 1, LAMBDA c : c.tag \in {"llm", "complete"})
    IN  IF i # 0 /\ said[i].tag = "llm" THEN i ELSE 0

\* cafe-llm publishes the text of an answer, if there is any, then its completion, one
\* answer at a time; that of an answer that failed or is empty comes alone.
OthersSay(c) ==
    /\ MoreActs
    /\ c = ModelText => OwnText(Len(said) + 1) = 0
    /\ said' = Append(said, c)
    /\ UNCHANGED <<answers, reports, flight, unsent, lasting, feedVars, script, ops, losses>>

\* The bus reads one of the connections.
BusTakes(c) ==
    /\ IF c.tag \in {"result", "tool"}
       THEN reports' = [reports EXCEPT ![c.op] = Append(@, c)] /\ UNCHANGED said
       ELSE said' = Append(said, c) /\ UNCHANGED reports
    /\ flight' = flight \ {c}
    /\ UNCHANGED <<answers, unsent, lasting, feedVars, script, ops, losses>>

\* A service answers, or an error that says itself that something timed out.
ServiceAnswers(o, info) ==
    /\ ops[o].asked
    /\ \A i \in DOMAIN answers : answers[i].op # o
    /\ answers' = Append(answers, Got(o, info))
    /\ UNCHANGED <<said, reports, flight, unsent, lasting, feedVars, script, ops, losses>>

-----------------------------------------------------------------------------
(* run_session: chunks become events, the others are passed over *)

FeedReads ==
    /\ feed.step = "read"
    /\ LET i == SelectInSubSeq(said, feed.at + 1, Len(said), LAMBDA c : EventOf(c) # "none")
       IN  /\ i # 0
           /\ feed' = [at |-> i, text |-> 0,
                        step |-> IF EventOf(said[i]) = "llm_complete" THEN "text" ELSE "config"]
    /\ UNCHANGED <<heard, flight, unsent, lasting, slot, evs, script, ops, losses>>

\* The completion carries no text: the last one of the history is taken.
FeedAssembles ==
    /\ feed.step = "text"
    /\ \/ feed' = [feed EXCEPT !.step = "config", !.text = TextUpTo(Len(said))]
          /\ UNCHANGED losses
       \/ feed' = [feed EXCEPT !.step = "config", !.text = Failed] /\ LoseOne
    /\ UNCHANGED <<heard, flight, unsent, lasting, slot, evs, script, ops>>

\* Mutant of Snapshot: the config of the runtime is the one it started with.
Unrefreshed == slot

Snapshot == ConfigUpTo(Len(said))

\* fetch_config_json: a history that cannot be fetched is an empty config.
FeedConfig ==
    /\ feed.step = "config"
    /\ feed' = [feed EXCEPT !.step = "deliver"]
    /\ \/ slot' = Snapshot /\ UNCHANGED losses
       \/ slot' = Failed /\ LoseOne
    /\ UNCHANGED <<heard, flight, unsent, lasting, evs, script, ops>>

\* A stateful runtime gets the event through its channel and is respawned if it is over;
\* a stateless one is made for it, and the task waits for its end.
FeedDelivers ==
    /\ feed.step = "deliver"
    /\ evs' = Append(evs, [trigger |-> feed.at, text |-> feed.text])
    /\ script' = "running"
    /\ feed' = [feed EXCEPT !.step = IF lasting THEN "read" ELSE "wait"]
    /\ UNCHANGED <<heard, flight, unsent, lasting, slot, ops, losses>>

\* main() returns or throws, or the budget of a stateless run is used up: what the script
\* has under way is dropped.
ScriptEnds ==
    /\ script = "running"
    /\ script' = "over"
    /\ ops' = [o \in DOMAIN ops |->
                 IF ops[o].step = "done" THEN ops[o] ELSE [ops[o] EXCEPT !.step = "dropped"]]
    /\ feed' = IF lasting THEN feed ELSE [feed EXCEPT !.step = "read"]
    /\ UNCHANGED <<heard, flight, unsent, lasting, slot, evs, losses>>

-----------------------------------------------------------------------------
(* The operations of the script *)

\* What an rpc and a tool do with the outcome of the call.
Then(kind) == IF kind = "tool" THEN "result" ELSE "done"

\* asked: is the request written?
Called(kind) == [kind |-> kind, asked |-> TRUE, step |-> "called", got |-> NoOutcome]
New == Len(ops) + 1
MayCall == script = "running" /\ MoreActs

\* rpc_call subscribes and publishes its request on the same connection.  (Nobody can tell
\* a request the bus is slow to take from one the service is slow to answer.)
Calls(kind) ==
    /\ MayCall
    /\ ops' = Append(ops, Called(kind))
    /\ reports' = Append(reports, <<>>)
    /\ UNCHANGED <<said, answers, flight, unsent, lasting, feedVars, script, losses>>

CallFails(kind) ==
    /\ MayCall /\ LoseOne
    /\ ops' = Append(ops, [Called(kind) EXCEPT !.asked = FALSE, !.step = Then(kind),
                                               !.got = Got(New, "lost")])
    /\ reports' = Append(reports, <<>>)
    /\ UNCHANGED <<said, answers, flight, unsent, lasting, feedVars, script>>

\* Mutant of IsAnswer: the first response on the connection is taken.
AnyAnswer(c, o) == TRUE

IsAnswer(c, o) == c.op = o

Ends(o, got) ==
    /\ ops' = [ops EXCEPT ![o].step = Then(ops[o].kind), ![o].got = got]
    /\ UNCHANGED <<heard, flight, unsent, lasting, feedVars, script>>

\* The first response with the id of the request, in the replay or after it.
CallAnswered(o) ==
    /\ ops[o].step = "called"
    /\ LET i == SelectInSeq(answers, LAMBDA c : IsAnswer(c, o))
       IN  i # 0 /\ Ends(o, answers[i])
    /\ UNCHANGED losses

CallTimesOut(o) ==
    /\ ops[o].step = "called"
    /\ Ends(o, Got(o, "timeout"))
    /\ UNCHANGED losses

CallCutOff(o) ==
    /\ ops[o].step = "called"
    /\ Ends(o, Got(o, "lost"))
    /\ LoseOne

\* A one-shot publish is written and not waited for; one that fails is logged only.
OneShot(c) ==
    \/ flight' = flight \cup {c} /\ UNCHANGED <<unsent, losses>>
    \/ unsent' = unsent \cup {c} /\ LoseOne /\ UNCHANGED flight

\* The ToolResult, and the text the model is to read.  An error of the service that has
\* "timed out" in its message is told as a time out.
ResultOf(got) == IF got.info = "ok" THEN "output" ELSE "error"
WordingOf(got) ==
    CASE got.info = "ok"                     -> "completed"
      [] got.info \in {"timeout", "worded"}  -> "timed out"
      [] OTHER                               -> "failed"

ToolResult(o, info) == Said("null", "none", "result", TRUE, o, info)
ToolText(o, info) == Said("text", "assistant", "tool", FALSE, o, info)

ToolTells(o) ==
    /\ ops[o].step = "result"
    /\ OneShot(ToolResult(o, ResultOf(ops[o].got)))
    /\ ops' = [ops EXCEPT ![o].step = "text"]
    /\ UNCHANGED <<heard, lasting, feedVars, script>>

ToolWrites(o) ==
    /\ ops[o].step = "text"
    /\ OneShot(ToolText(o, WordingOf(ops[o].got)))
    /\ ops' = [ops EXCEPT ![o].step = "done"]
    /\ UNCHANGED <<heard, lasting, feedVars, script>>

\* What scripts publish: a text, a text of the user, annotations, a config, a signal that
\* is retained, and something build_publish_chunk refuses.
Specs == {
    [type |-> "text", role |-> "none", tag |-> "plain", transient |-> FALSE],
    [type |-> "text", role |-> "user", tag |-> "plain", transient |-> FALSE],
    [type |-> "null", role |-> "none", tag |-> "config", transient |-> FALSE],
    [type |-> "null", role |-> "none", tag |-> "plain", transient |-> TRUE],
    [type |-> "other", role |-> "none", tag |-> "plain", transient |-> FALSE] }

BuildPublishChunk(spec, o) ==
    Said(spec.type, IF spec.role = "none" /\ spec.type # "null" THEN "assistant" ELSE spec.role,
         spec.tag, spec.transient, o, "")

Publishes(spec) ==
    /\ MayCall
    /\ reports' = Append(reports, <<>>)
    /\ \/ /\ spec.type \in {"text", "null", "binary"}
          /\ flight' = flight \cup {BuildPublishChunk(spec, New)}
          /\ ops' = Append(ops, [kind |-> "publish", asked |-> FALSE, step |-> "done", got |-> Got(New, "ok")])
          /\ UNCHANGED losses
       \/ /\ IF spec.type \in {"text", "null", "binary"} THEN LoseOne ELSE UNCHANGED losses
          /\ ops' = Append(ops, [kind |-> "publish", asked |-> FALSE, step |-> "done", got |-> Got(New, "err")])
          /\ UNCHANGED flight
    /\ UNCHANGED <<said, answers, unsent, lasting, feedVars, script>>

-----------------------------------------------------------------------------

JsCallsInit ==
    /\ said = <<>> /\ answers = <<>> /\ reports = <<>> /\ flight = {} /\ unsent = {} /\ losses = 0
    /\ lasting \in BOOLEAN
    /\ feed = [step |-> "read", at |-> 0, text |-> 0]
    /\ slot = 0 /\ evs = <<>> /\ script = "none" /\ ops = <<>>

FeedStep == FeedReads \/ FeedAssembles \/ FeedConfig \/ FeedDelivers

\* The tasks behind the promises go on only as long as the runtime does.
OpStep(o) ==
    /\ script = "running"
    /\ CallAnswered(o) \/ CallTimesOut(o) \/ CallCutOff(o) \/ ToolTells(o) \/ ToolWrites(o)

JsCallsNext ==
    \/ \E c \in {UserText, ModelText, ModelDone, ConfigChunk, Tick} : OthersSay(c)
    \/ \E c \in flight : BusTakes(c)
    \/ \E o \in DOMAIN ops, info \in {"ok", "err", "worded"} : ServiceAnswers(o, info)
    \/ FeedStep
    \/ ScriptEnds
    \/ \E kind \in {"rpc", "tool"} : Calls(kind) \/ CallFails(kind)
    \/ \E spec \in Specs : Publishes(spec)
    \/ \E o \in DOMAIN ops : OpStep(o)

JsCallsSpec == JsCallsInit /\ [][JsCallsNext]_jsCallVars

-----------------------------------------------------------------------------

JsCallsTypeOK ==
    /\ \A c \in flight \cup unsent \cup ToSet(said) \cup ToSet(answers) : c.op \in 0..Len(ops)
    /\ feed.step \in {"read", "text", "config", "deliver", "wait"} /\ feed.at \in 0..Len(said)
    /\ slot \in Failed..Len(said)
    /\ script \in {"none", "running", "over"}
    /\ \A o \in DOMAIN ops : ops[o].step \in {"called", "result", "text", "done", "dropped"}

OnItsWay(o) == \E c \in flight \cup unsent : c.op = o /\ c.tag \in {"result", "tool"}

\* However many calls run at a time, whoever answers, in whatever order chunks arrive, and
\* whether calls time out or are cut off: an answer a call got is the answer to it, and
\* what the session is told of a tool call, once and for all, is what the script was told.
CallsAreTold ==
    \A o \in DOMAIN ops :
        /\ ops[o].got.info \in {"ok", "err", "worded"} /\ ops[o].asked =>
               Got(o, ops[o].got.info) \in ToSet(answers)
        /\ ops[o].kind = "tool" /\ ops[o].step = "done" /\ ~OnItsWay(o) =>
               /\ Len(reports[o]) = 2 /\ {c.tag : c \in ToSet(reports[o])} = {"result", "tool"}
               /\ ops[o].got.info = "ok" <=>
                    \A c \in ToSet(reports[o]) : c.info \in {"output", "completed"}

\* The completion of an answer comes with a text that is not older than any that was
\* published before it, which is that of the answer itself if it has one; and every event
\* finds a config at least as new as its chunk, unless the history could not be fetched.
EventsAreCurrent ==
    \A k \in DOMAIN evs :
        /\ said[evs[k].trigger].tag = "complete" /\ evs[k].text # Failed =>
               evs[k].text >= TextUpTo(evs[k].trigger)
        /\ slot # Failed => slot >= ConfigUpTo(evs[k].trigger)

\* docs/reference/js-agents.md: "text is the assembled assistant reply" of the completion.
\* (One without a text comes with the reply before it.)
TextIsOfReply ==
    \A k \in DOMAIN evs : LET t == evs[k].trigger IN
        said[t].tag = "complete" => evs[k].text \in {0, Failed, OwnText(t)} \/ evs[k].text > t

=============================================================================
