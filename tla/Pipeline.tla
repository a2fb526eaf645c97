------------------------------ MODULE Pipeline ------------------------------
(***************************************************************************)
(* The pipeline of an agent for one session (cafe-agent-runtime).  The     *)
(* session loop turns chunks of the session into triggers and awaits the   *)
(* executor for each; the executor works through a queue of events, runs   *)
(* the steps each of them triggers and queues the completion of a step as  *)
(* the next event.  A step is a call of a service over the session, with a *)
(* deadline, or built in.                                                  *)
(***************************************************************************)
EXTENDS SessionLog, SequencesExt

CONSTANTS
    Loop,       \* run_session_loop
    Agents,     \* [steps, config]: the steps, [id, type, on, of, gated] each, and
                \* whether the agent has a config to publish
    MaxDepth,   \* max_pipeline_depth
    MaxCalls    \* bound on the calls made in a session

ASSUME LoopAssumption == Loop \in Reader /\ MaxDepth \in Nat /\ MaxCalls \in Nat

VARIABLES
    agent,      \* the agent of this session
    run,        \* the pipeline the session loop awaits, or NoRun
    calls       \* the call ids given out so far

pipeVars == <<agent, run, calls>>

\* trigger: the index of its chunk; text: the id of assembled_llm_text, 0 for none;
\* on: is the session's config there?; depth: the depth of the current event; items:
\* the events queued; todo: what is left of the current one; wait: the call it awaits.
NoRun == [trigger |-> 0, text |-> 0, on |-> FALSE, depth |-> 0,
          items |-> <<>>, todo |-> <<>>, wait |-> 0]

BuiltIn == {"role-annotator", "trust-filter", "tool-detector", "tool-executor", "mcp"}

Event(on, of, depth) == [on |-> on, of |-> of, depth |-> depth]

PipeChunk(kind, id, info) == [kind |-> kind, id |-> id, info |-> info]

\* The event a durable chunk of the session triggers, or "none".
Trigger(c) ==
    CASE c.kind = "user" -> "user_message"
      [] c.kind = "done" -> "llm_complete"
      [] c.kind = "tick" -> "scheduler_tick"
      [] OTHER -> "none"

\* extract_last_assistant_text: the newest text of the evaluator.
LastText(h) ==
    LET texts == {i \in DOMAIN h : h[i].kind = "text"}
    IN  IF texts = {} THEN 0
        ELSE h[CHOOSE i \in texts : \A j \in texts : j <= i].id

\* Does step s run for event e, given the config of the session?
Eligible(s, e, on) ==
    /\ s.on = e.on
    /\ e.on = "step_complete" => s.of \in {e.of, "any"}
    /\ s.gated => on

Ops(op, steps) == [k \in DOMAIN steps |-> [op |-> op, step |-> steps[k].id, type |-> steps[k].type]]

\* on_trigger runs the built-in steps of an event first, then calls the services.
Plan(e, on) ==
    LET steps == SelectSeq(agent.steps, LAMBDA s : Eligible(s, e, on))
    IN  Ops("built-in", SelectSeq(steps, LAMBDA s : s.type \in BuiltIn))
        \o Ops("rpc", SelectSeq(steps, LAMBDA s : s.type \notin BuiltIn))

\* Mutant of Followed: a chain never gets deeper.
SameDepth(step) == Append(run.items, Event("step_complete", step, run.depth))

\* The events once the completion of a step is queued.
Followed(step) == Append(run.items, Event("step_complete", step, run.depth + 1))

\* Every tool call in the history, the newest first; cafe-mcp-client handles its own.
ToolCalls(h) ==
    LET found == Reverse(SelectSeq(h, LAMBDA c : c.kind = "toolcall" /\ c.info # "mcp"))
    IN  [k \in DOMAIN found |-> [op |-> "tool", step |-> "", type |-> found[k].info]]

-----------------------------------------------------------------------------

\* attach_to_session: the agent's config is published, over a connection of its own,
\* by a task that runs next to the session loop.
Attach ==
    /\ Subscribe(Loop)
    /\ UNCHANGED pipeVars

PublishConfig ==
    /\ agent.config
    /\ at[Loop] >= 0
    /\ \A i \in DOMAIN log : log[i].kind # "config"
    /\ PipeChunk("config", 0, "") \notin net
    /\ net' = net \cup {PipeChunk("config", 0, "")}
    /\ UNCHANGED <<log, at, pos, pipeVars>>

\* Does the chunk at i trigger a pipeline?
Fires(i) == Live(Loop, i) /\ Durable(log[i]) /\ Trigger(log[i]) # "none"

\* The session loop takes the next chunk that triggers something, reads the history
\* and starts the pipeline.
StartRun ==
    /\ run = NoRun
    /\ at[Loop] >= 0
    /\ \E i \in pos[Loop] + 1..Len(log) :
        /\ Fires(i)
        /\ \A j \in pos[Loop] + 1..i - 1 : ~Fires(j)
        /\ pos' = [pos EXCEPT ![Loop] = i]
        /\ run' = [NoRun EXCEPT
                     !.trigger = i,
                     !.text = IF Trigger(log[i]) = "llm_complete" THEN LastText(log) ELSE 0,
                     !.on = \E j \in DOMAIN log : log[j].kind = "config",
                     !.items = <<Event(Trigger(log[i]), "", 0)>>]
    /\ UNCHANGED <<log, net, at, agent, calls>>

AtLimit(e) == e.on = "step_complete" /\ e.depth >= MaxDepth

\* The next event of the queue; a completion at the depth limit is skipped.
NextEvent ==
    /\ run.todo = <<>>
    /\ run.items # <<>>
    /\ LET e == Head(run.items)
       IN  run' = [run EXCEPT
                     !.items = Tail(@),
                     !.depth = e.depth,
                     !.todo = IF AtLimit(e) THEN <<>> ELSE Plan(e, run.on)]
    /\ UNCHANGED <<logVars, agent, calls>>

EndRun ==
    /\ run # NoRun
    /\ run.todo = <<>>
    /\ run.items = <<>>
    /\ run' = NoRun
    /\ UNCHANGED <<logVars, agent, calls>>

\* A built-in step.  The detector publishes the tool calls of the text; the executor
\* reads the history and takes on every tool call it finds there.  Only the executor
\* queues its completion.
RunBuiltIn ==
    /\ run.todo # <<>>
    /\ Head(run.todo).op = "built-in"
    /\ LET op == Head(run.todo)
           found == ToolCalls(log)
           text == Published("text", run.text)
           detected == {PipeChunk("toolcall", run.trigger, log[i].info) :
                            i \in {j \in text : log[j].info # "plain"}}
       IN CASE op.type = "tool-detector" ->
                 /\ net' = net \cup detected
                 /\ run' = [run EXCEPT !.todo = Tail(@)]
            [] op.type = "tool-executor" /\ \E i \in DOMAIN log : log[i].kind = "toolcall" ->
                 /\ run' = [run EXCEPT !.todo = found \o Tail(@), !.items = Followed(op.step)]
                 /\ UNCHANGED net
            [] OTHER ->
                 /\ run' = [run EXCEPT !.todo = Tail(@)]
                 /\ UNCHANGED net
    /\ UNCHANGED <<log, at, pos, agent, calls>>

\* dispatch_rpc or tool_executor::execute publishes a request, then subscribes; an
\* answer that was faster is replayed to it, as it is retained.
Dispatch ==
    /\ run.todo # <<>>
    /\ Head(run.todo).op # "built-in"
    /\ run.wait = 0
    /\ calls < MaxCalls
    /\ calls' = calls + 1
    /\ run' = [run EXCEPT !.wait = calls']
    /\ net' = net \cup {PipeChunk("request", calls', Head(run.todo).type)}
    /\ UNCHANGED <<log, at, pos, agent>>

Waiting(op) == run.wait # 0 /\ Head(run.todo).op = op

Answered(info) == \E i \in Published("response", run.wait) : log[i].info = info

\* A service answered: the completion of the step is queued.
RpcAnswered ==
    /\ Waiting("rpc")
    /\ Answered("ok")
    /\ run' = [run EXCEPT !.wait = 0, !.todo = Tail(@), !.items = Followed(Head(run.todo).step)]
    /\ UNCHANGED <<logVars, agent, calls>>

\* A service answered with an error, or not before the deadline: the pipeline is given
\* up and the session loop publishes an error chunk.
GiveUp ==
    /\ run' = NoRun
    /\ net' = net \cup {PipeChunk("error", run.wait, "")}
    /\ UNCHANGED <<log, at, pos, agent, calls>>

RpcFailed == Waiting("rpc") /\ Answered("err") /\ GiveUp
RpcTimeout == Waiting("rpc") /\ GiveUp

\* The result of a tool, an error or "timed out" is published as a text for the model
\* (and as a transient chunk only clients read); the pipeline goes on in every case.
ToolEnded ==
    /\ net' = net \cup {PipeChunk("note", run.wait, "")}
    /\ run' = [run EXCEPT !.wait = 0, !.todo = Tail(@)]
    /\ UNCHANGED <<log, at, pos, agent, calls>>

ToolAnswered == Waiting("tool") /\ (Answered("ok") \/ Answered("err")) /\ ToolEnded
ToolTimeout == Waiting("tool") /\ ToolEnded

-----------------------------------------------------------------------------

PipeInit(a) == agent = a /\ run = NoRun /\ calls = 0

RunStep ==
    \/ NextEvent \/ EndRun \/ RunBuiltIn \/ Dispatch
    \/ RpcAnswered \/ RpcFailed \/ ToolAnswered

PipeNext == Attach \/ PublishConfig \/ StartRun \/ RunStep \/ RpcTimeout \/ ToolTimeout

PipeTypeOK ==
    /\ agent \in Agents
    /\ calls \in Nat
    /\ run.trigger \in 0..Len(log)
    /\ run.depth \in 0..MaxDepth
    /\ run.wait \in 0..calls

=============================================================================
