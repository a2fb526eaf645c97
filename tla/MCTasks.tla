------------------------------ MODULE MCTasks ------------------------------
(***************************************************************************)
(* Instances for TLC of the modules whose tasks have to get on: calls to   *)
(* MCP servers, JS agents, watchers, calls of evaluators and subscribers   *)
(* of the bus.  A behaviour is one of exactly one of them, chosen in the   *)
(* initial state, and the state of the others rests.                       *)
(***************************************************************************)
EXTENDS McpCalls, JsHost, BusWatch, EvaluatorCall, BusSession

VARIABLE part   \* the module whose behaviour this is

AllParts == {"mcp", "js", "watch", "call", "bus"}

\* The one state of a module that rests: an initial state without anything to do.
Rests(p) ==
    CASE p = "js"    -> inc = 0 /\ stateful = FALSE
      [] p = "watch" -> alive = 0 /\ tagged = FALSE /\ filtered = FALSE
      [] p = "call"  -> service = "tts"
      [] OTHER       -> TRUE

TasksInit ==
    /\ part \in AllParts
    /\ \A p \in AllParts \ {part} : Rests(p)
    /\ McpInit /\ JsInit /\ WatchInit /\ CallInit /\ Init

TasksNext ==
    \/ part = "mcp" /\ McpNext
       /\ UNCHANGED <<part, jsVars, wVars, callVars, vars>>
    \/ part = "js" /\ JsNext
       /\ UNCHANGED <<part, mcpVars, wVars, callVars, vars>>
    \/ part = "watch" /\ WatchNext
       /\ UNCHANGED <<part, mcpVars, jsVars, callVars, vars>>
    \/ part = "call" /\ CallNext
       /\ UNCHANGED <<part, mcpVars, jsVars, wVars, vars>>
    \/ part = "bus" /\ Next
       /\ UNCHANGED <<part, mcpVars, jsVars, wVars, callVars>>

TasksVars == <<part, mcpVars, jsVars, wVars, callVars, vars>>

TasksSpec ==
    /\ TasksInit /\ [][TasksNext]_TasksVars
    /\ McpFairness /\ JsFairness /\ WatchFairness /\ CallFairness /\ Fairness

-----------------------------------------------------------------------------

\* The state of every part is of its type.
TasksTypeOK ==
    /\ McpTypeOK /\ JsTypeOK /\ WatchTypeOK /\ CallTypeOK /\ TypeOK

=============================================================================
