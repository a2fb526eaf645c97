--------------------------- MODULE MCAgentSession ---------------------------
(***************************************************************************)
(* Instances of AgentSession for TLC: the steps of agents of the           *)
(* repository.                                                             *)
(***************************************************************************)
EXTENDS AgentSession

CONSTANTS loop, llm, listener, dice

Step(id, type, on, of) == [id |-> id, type |-> type, on |-> on, of |-> of, gated |-> FALSE]

Agent(config, steps) == [config |-> config, steps |-> steps]

\* agents/dice.toml
DiceAgent == Agent(FALSE, <<Step("detector", "dice-detector", "user_message", ""),
               Step("executor", "tool-executor", "step_complete", "detector")>>)

\* agents/dice-llm.toml
DiceLlmAgent == Agent(TRUE, <<Step("llm", "llm", "user_message", ""),
                  Step("tool-detector", "tool-detector", "llm_complete", ""),
                  Step("tool-executor", "tool-executor", "step_complete", "tool-detector"),
                  Step("llm-done", "llm", "step_complete", "tool-executor")>>)

\* agents/voice.toml; nothing answers for tts here.
VoiceAgent == Agent(TRUE, <<Step("trust-filter", "trust-filter", "user_message", ""),
                Step("llm", "llm", "user_message", ""),
                [Step("tts", "tts", "llm_complete", "") EXCEPT !.gated = TRUE]>>)

\* A chain that completes itself, as "step_complete" without an id allows.
ChainAgent == Agent(FALSE, <<Step("detector", "dice-detector", "user_message", ""),
                Step("again", "dice-detector", "step_complete", "any")>>)

\* agents/rss-summarizer.toml, a scheduled agent; nothing answers for llm-summarize.
RssAgent == Agent(TRUE, <<Step("rss-fetch", "rss-fetch", "scheduler_tick", ""),
              Step("llm-summarize", "llm-summarize", "step_complete", "rss-fetch")>>)

\* agents/rot13.toml
Rot13Agent == Agent(FALSE, <<Step("rot13", "rot13", "user_message", "")>>)

\* agents/fetch.toml
FetchAgent == Agent(FALSE, <<Step("web-fetch", "web-fetch", "user_message", "")>>)

NoAgent == Agent(FALSE, <<>>)

AllAgents ==
    {DiceAgent, DiceLlmAgent, VoiceAgent, ChainAgent, Rot13Agent, FetchAgent, RssAgent, NoAgent}

Scenario(who, late, messages, aborts, asks) ==
    [agent |-> who, late |-> late, messages |-> messages, aborts |-> aborts, asks |-> asks,
     ticks |-> IF who = RssAgent THEN 1 ELSE 0]

\* Each agent alone with one message and a task that subscribes late; two messages for a
\* pipeline; the evaluator with two calls and aborts.
SomeScenarios == {
    Scenario(DiceAgent, {dice}, 1, 0, 0),
    Scenario(DiceLlmAgent, {loop}, 1, 0, 0),
    Scenario(VoiceAgent, {}, 1, 0, 0),
    Scenario(ChainAgent, {}, 1, 0, 0),
    Scenario(RssAgent, {}, 1, 0, 0),
    Scenario(Rot13Agent, {dice}, 1, 0, 0),
    Scenario(FetchAgent, {loop}, 2, 0, 0),
    Scenario(NoAgent, {}, 0, 1, 2),
    Scenario(NoAgent, {llm, listener}, 0, 1, 1),
    Scenario(NoAgent, {llm, listener}, 0, 0, 2)}

ToolScenario == {Scenario(DiceLlmAgent, {}, 1, 0, 0)}

=============================================================================
