---------------------------- MODULE AgentSession ----------------------------
(***************************************************************************)
(* A session with an agent: the pipeline of cafe-agent-runtime, the        *)
(* evaluator of cafe-llm and a service like cafe-dice around one log, with *)
(* a user who writes messages and abort signals and a second caller of the *)
(* model.                                                                  *)
(***************************************************************************)
EXTENDS Pipeline, LlmEvaluator, DiceWorker, FiniteSets

CONSTANT
    Scenarios   \* [agent, late, messages, aborts, asks, ticks]: the agent, the tasks that
                \* subscribe late, and bounds on what the user and the caller send

VARIABLE
    left        \* what is left of these bounds

vars == <<logVars, pipeVars, llmVars, left>>

Spend(what) == left[what] > 0 /\ left' = [left EXCEPT ![what] = @ - 1]

SendMessage ==
    /\ Spend("messages")
    /\ log' = Append(log, PipeChunk("user", left["messages"], ""))
    /\ UNCHANGED <<net, at, pos, pipeVars, llmVars>>

SendAbort ==
    /\ Spend("aborts")
    /\ log' = Append(log, PipeChunk("abort", left["aborts"], ""))
    /\ UNCHANGED <<net, at, pos, pipeVars, llmVars>>

\* The scheduler of the runtime publishes its tick.
SendTick ==
    /\ Spend("ticks")
    /\ net' = net \cup {PipeChunk("tick", left["ticks"], "")}
    /\ UNCHANGED <<log, at, pos, pipeVars, llmVars>>

\* Another client calls the model itself.
Ask(method) ==
    /\ Spend("asks")
    /\ calls' = calls + 1
    /\ log' = Append(log, PipeChunk("request", calls', method))
    /\ UNCHANGED <<net, at, pos, agent, run, llmVars>>

Deliver == (\E c \in net : Arrive(c)) /\ UNCHANGED <<pipeVars, llmVars, left>>

PipeStep == PipeNext /\ UNCHANGED <<llmVars, left>>
LlmStep == LlmNext /\ UNCHANGED <<pipeVars, left>>
DiceStep == DiceNext /\ UNCHANGED <<pipeVars, llmVars, left>>

Init ==
    \E s \in Scenarios :
        /\ LogInit(s.late) /\ PipeInit(s.agent) /\ LlmInit
        /\ left = [messages |-> s.messages, aborts |-> s.aborts, asks |-> s.asks,
                 ticks |-> s.ticks]

Next ==
    \/ SendMessage \/ SendAbort \/ SendTick \/ \E method \in {"llm", "llm.prompt"} : Ask(method)
    \/ Deliver \/ PipeStep \/ LlmStep \/ DiceStep

Spec == Init /\ [][Next]_vars

LoopTask == Attach \/ StartRun \/ RunStep \/ RpcTimeout \/ ToolTimeout
LlmTask ==
    \/ \E p \in {Llm, Listener} : LlmSubscribe(p)
    \/ \E i \in Upcoming(Llm, LlmActs) : LlmReadsOne(i)
    \/ LlmStart \/ LlmFails \/ LlmAborted
ListenerTask == \E i \in Upcoming(Listener, IsAbort) : ListenerAbort(i)

Others == UNCHANGED <<pipeVars, left>>

\* What was written the bus takes, tasks run, deadlines pass, and a backend either starts
\* to stream or fails.  Nothing makes a stream end.
Fairness ==
    /\ WF_vars(Deliver)
    /\ WF_vars(LlmFlush /\ Others)
    /\ WF_vars(DiceStep)
    /\ WF_vars(LoopTask /\ UNCHANGED <<llmVars, left>>)
    /\ WF_vars(LlmTask /\ Others)
    /\ WF_vars(ListenerTask /\ Others)

FairSpec == Spec /\ Fairness

-----------------------------------------------------------------------------

TypeOK ==
    /\ LogTypeOK /\ LlmTypeOK /\ PipeTypeOK
    /\ left \in [{"messages", "aborts", "asks", "ticks"} -> Nat]

\* The text of the answer that is completed at i, if it has one, and all texts before.
TextsOf(i) == Published("text", log[i].id) \cup {j \in 1..i : log[j].kind = "text"}

\* A pipeline started by the completion of an answer works on a text that is at least as
\* new as the text of that answer and as every text before its completion, although it
\* reads the history when it gets round to it: the text is in the log before its
\* completion.  (An answer that failed, or is empty, has no text: its pipeline works on
\* that of an earlier answer, or a later one.)
TextIsOfTrigger ==
    run # NoRun /\ log[run.trigger].kind = "done" =>
        \A i \in TextsOf(run.trigger) : \E j \in Published("text", run.text) : i <= j

Service(method) == IF method \in {"llm", "llm.prompt"} THEN Llm ELSE Dice

\* A request is answered at most once, and never if its service got it as a part of the
\* replay: what a fork copied or a restart finds is not executed again (ADR-123).
AnswersAreDue ==
    \A i \in DOMAIN log : log[i].kind = "response" =>
        /\ Cardinality(Published("response", log[i].id)) = 1
        /\ \E r \in Published("request", log[i].id) : r < i /\ Live(Service(log[r].info), r)

Handled(m) == run = NoRun /\ \A i \in Published("user", m) : Live(Loop, i) => pos[Loop] >= i

\* Every message written after the session loop attached is handled to its end, however
\* services fail, and whatever chain of steps earlier ones set off: deadlines end every
\* call and the depth limit every chain.  (The messages of an instance are finitely many.)
EveryMessageIsHandled == <>[](\A i \in DOMAIN log : log[i].kind = "user" => Handled(log[i].id))

Requested(k) == \E i \in Published("request", k) : LlmActs(log[i]) /\ Live(Llm, i)

\* If streams end, every request for the model that arrives live is answered.
EveryRequestIsAnswered ==
    WF_vars(LlmEnds /\ Others) =>
        <>[](\A k \in 1..calls : Requested(k) => Published("response", k) # {})

\* An abort signal that arrives while an answer is streamed ends it, though the task that
\* streams reads no chunks and the backend may stream forever.
AbortEndsStream ==
    \A k \in 1..MaxCalls :
        (/\ gen.streaming /\ gen.call = k /\ at[Listener] >= 0
         /\ \E i \in DOMAIN log : log[i].kind = "abort" /\ i > pos[Listener])
            ~> gen.call # k

\* "step_complete:tool-detector fires the executor": a tool call the detector found is
\* executed (docs/tutorials/tool-calling-agent.md, agents/dice-llm.toml).
DetectedIsExecuted ==
    (\E i \in DOMAIN log : log[i].kind = "toolcall")
        ~> (\E i \in DOMAIN log : log[i].kind = "request" /\ log[i].info = "dice.roll")

=============================================================================
