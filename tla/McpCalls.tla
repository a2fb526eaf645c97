------------------------------ MODULE McpCalls ------------------------------
(***************************************************************************)
(* Tool calls of cafe-mcp-client (main.rs).  One run_session task per      *)
(* session handles the tool calls of the session one after the other; each *)
(* task owns an McpClient and with it a sequence of call ids.  The MCP     *)
(* servers are shared by all tasks: a call takes the server's mutex, writes *)
(* a request, and reads lines until one has its id or 15 s have passed.    *)
(* The server is an external process that answers when it likes, or never, *)
(* and may stop reading its standard input: a write then waits.            *)
(***************************************************************************)
EXTENDS Integers, Sequences

CONSTANTS
    Task,       \* run_session tasks
    Server,     \* MCP servers
    NoServer,   \* no server, no call
    Failed,     \* the result of a call that ended with an error
    MaxCalls    \* bound on the tool calls of one session

ASSUME ServerAssumption == NoServer \notin Server
ASSUME CallsAssumption == MaxCalls \in Nat

Call == [session : Task, number : Nat \ {0}]
Line == [id : Nat, call : Call]

ASSUME FailedAssumption == Failed \notin Call

VARIABLES
    using,      \* using[t]: the server of the call task t is in, or NoServer
    nextId,     \* nextId[t]: McpClient.next_call_id
    expected,   \* expected[t]: the id task t reads for, 0 before its request is sent
    results,    \* results[t]: for each call of t that ended, the call whose answer it got
    queue,      \* queue[v]: the tasks at the mutex of server v, the holder first
    pending,    \* pending[v]: requests the server has not answered
    lines,      \* lines[v]: McpServerInstance.reader, the answers nobody has read
    process     \* process[v]: the server's, which reads its input, does not, or is gone

mcpVars == <<using, nextId, expected, results, queue, pending, lines, process>>
task == <<using, nextId, expected, results, queue>>

\* Mutant of Current: the call that ended last.
LastCall(t) == [session |-> t, number |-> Len(results[t])]

\* The call task t is in: its next one.
Current(t) == [session |-> t, number |-> Len(results[t]) + 1]

\* Mutant of Holds: the mutex is given back once the request is written.
InQueue(t) == using[t] # NoServer /\ \E k \in DOMAIN queue[using[t]] : queue[using[t]][k] = t

\* Task t holds the mutex of the server it uses (tokio's Mutex is fair).
Holds(t) == using[t] # NoServer /\ queue[using[t]] # <<>> /\ Head(queue[using[t]]) = t

Reads(t) == Holds(t) /\ expected[t] # 0

-----------------------------------------------------------------------------

\* A tool.call chunk for a tool of server v: the task queues for its mutex.
ToolCall(t, v) ==
    /\ using[t] = NoServer
    /\ Len(results[t]) < MaxCalls
    /\ using' = [using EXCEPT ![t] = v]
    /\ queue' = [queue EXCEPT ![v] = Append(@, t)]
    /\ UNCHANGED <<nextId, expected, results, pending, lines, process>>

\* Mutant of After: the counter lives in the call and starts over.
SameId(id) == id

\* The id after id.
After(id) == id + 1

\* call_tool allocates an id and writes the request, once the server reads.
Send(t) ==
    /\ Holds(t)
    /\ expected[t] = 0
    /\ process[using[t]] = "reads"
    /\ nextId' = [nextId EXCEPT ![t] = After(@)]
    /\ expected' = [expected EXCEPT ![t] = nextId[t]]
    /\ pending' = [pending EXCEPT ![using[t]] = @ \cup {[id |-> nextId[t], call |-> Current(t)]}]
    /\ UNCHANGED <<using, results, queue, lines, process>>

\* Mutant of Release: the mutex is kept by a call that failed.
KeepsMutex(t, r) == IF r = Failed THEN queue ELSE [queue EXCEPT ![using[t]] = Tail(@)]

\* The mutexes once the call of task t has ended with result r.
Release(t, r) == [queue EXCEPT ![using[t]] = Tail(@)]

\* The call of task t ends: the mutex is released and result r published.
Finish(t, r) ==
    /\ results' = [results EXCEPT ![t] = Append(@, r)]
    /\ queue' = Release(t, r)
    /\ using' = [using EXCEPT ![t] = NoServer]
    /\ expected' = [expected EXCEPT ![t] = 0]

\* The request cannot be written; its id is used up.
SendFails(t) ==
    /\ Holds(t)
    /\ expected[t] = 0
    /\ process[using[t]] = "gone"
    /\ nextId' = [nextId EXCEPT ![t] = After(@)]
    /\ Finish(t, Failed)
    /\ UNCHANGED <<pending, lines, process>>

\* read_response reads a line with its id, whoever asked for it.
ReadOwn(t) ==
    /\ Reads(t)
    /\ lines[using[t]] # <<>>
    /\ Head(lines[using[t]]).id = expected[t]
    /\ Finish(t, Head(lines[using[t]]).call)
    /\ lines' = [lines EXCEPT ![using[t]] = Tail(@)]
    /\ UNCHANGED <<nextId, pending, process>>

\* read_response drops a line with another id.
ReadOther(t) ==
    /\ Reads(t)
    /\ lines[using[t]] # <<>>
    /\ Head(lines[using[t]]).id # expected[t]
    /\ lines' = [lines EXCEPT ![using[t]] = Tail(@)]
    /\ UNCHANGED <<task, pending, process>>

\* The deadline of read_response passes.  What the server answers later stays in
\* the channel.
TimeOut(t) ==
    /\ Reads(t)
    /\ Finish(t, Failed)
    /\ UNCHANGED <<nextId, pending, lines, process>>

\* "MCP server disconnected": the channel is closed and empty.
Disconnected(t) ==
    /\ Reads(t)
    /\ process[using[t]] = "gone"
    /\ lines[using[t]] = <<>>
    /\ Finish(t, Failed)
    /\ UNCHANGED <<nextId, pending, lines, process>>

\* The server writes an answer and the reader task of start_server queues it (in its
\* channel of 256 lines, or in the pipe before it, in the same order).
Answer(v, r) ==
    /\ process[v] # "gone"
    /\ pending' = [pending EXCEPT ![v] = @ \ {r}]
    /\ lines' = [lines EXCEPT ![v] = Append(@, r)]
    /\ UNCHANGED <<task, process>>

\* The server reads nothing while the pipe to it is full, or reads on.
Deafens(v) ==
    /\ process[v] = "reads"
    /\ process' = [process EXCEPT ![v] = "deaf"]
    /\ UNCHANGED <<task, pending, lines>>
ReadsAgain(v) ==
    /\ process[v] = "deaf"
    /\ process' = [process EXCEPT ![v] = "reads"]
    /\ UNCHANGED <<task, pending, lines>>

\* The process of the server ends; nobody starts it again.
Exit(v) ==
    /\ process[v] # "gone"
    /\ process' = [process EXCEPT ![v] = "gone"]
    /\ pending' = [pending EXCEPT ![v] = {}]
    /\ UNCHANGED <<task, lines>>

-----------------------------------------------------------------------------

McpInit ==
    /\ using = [t \in Task |-> NoServer]
    /\ nextId = [t \in Task |-> 4]
    /\ expected = [t \in Task |-> 0]
    /\ results = [t \in Task |-> <<>>]
    /\ queue = [v \in Server |-> <<>>]
    /\ pending = [v \in Server |-> {}]
    /\ lines = [v \in Server |-> <<>>]
    /\ process = [v \in Server |-> "reads"]

McpTaskStep(t) == Send(t) \/ SendFails(t) \/ ReadOwn(t) \/ ReadOther(t) \/ TimeOut(t) \/ Disconnected(t)

McpNext ==
    \/ \E t \in Task : McpTaskStep(t) \/ \E v \in Server : ToolCall(t, v)
    \/ \E v \in Server : Deafens(v) \/ ReadsAgain(v) \/ Exit(v) \/ \E r \in pending[v] : Answer(v, r)

\* A task that can write does, and the deadline of a read passes.  No server has to answer,
\* or to read: a write has no deadline (send_jsonrpc).
McpFairness == \A t \in Task : WF_mcpVars(Send(t) \/ SendFails(t)) /\ WF_mcpVars(TimeOut(t))

McpSpec == McpInit /\ [][McpNext]_mcpVars
McpFairSpec == McpSpec /\ McpFairness

-----------------------------------------------------------------------------

McpTypeOK ==
    /\ using \in [Task -> Server \cup {NoServer}]
    /\ nextId \in [Task -> Nat]
    /\ expected \in [Task -> Nat]
    /\ results \in [Task -> Seq(Call \cup {Failed})]
    /\ queue \in [Server -> Seq(Task)]
    /\ pending \in [Server -> SUBSET Line]
    /\ lines \in [Server -> Seq(Line)]
    /\ process \in [Server -> {"reads", "deaf", "gone"}]

\* No call of a session is given the answer to another call of the same session,
\* however late it comes: the ids of an McpClient are never used twice.
NoStaleAnswer ==
    \A t \in Task : \A n \in DOMAIN results[t] :
        results[t][n] # Failed /\ results[t][n].session = t => results[t][n].number = n

\* The answer to a call that still waits is not thrown away by another reader: while
\* a request is out, its task holds the mutex.
AwaitedIsKept ==
    [][\A t \in Task, v \in Server : \A k \in DOMAIN lines[v] :
          /\ lines[v][k].call = Current(t)
          /\ results'[t] = results[t]
          => \E j \in DOMAIN lines'[v] : lines'[v][j] = lines[v][k]]_mcpVars

\* Every call ends and gives the server to the next one, whatever the servers answer, as long
\* as none stops reading for good: the calls of all sessions wait behind a request that cannot
\* be written.
EveryCallEnds ==
    <>[](\A v \in Server : process[v] # "deaf")
        => \A t \in Task : using[t] # NoServer ~> using[t] = NoServer

\* "every tool call gets a unique id", so that no call takes the late answer to
\* another one for its own (McpClient::next_call_id).
AnswerIsOwn ==
    \A t \in Task : \A n \in DOMAIN results[t] :
        results[t][n] \in {Failed, [session |-> t, number |-> n]}

\* The strengthening that makes NoStaleAnswer inductive: every request and answer of a
\* session carries the id of its call, and so does the read.
Numbered(t) ==
    \/ expected[t] = 0 /\ nextId[t] = Len(results[t]) + 4
    \/ expected[t] = Len(results[t]) + 4 /\ nextId[t] = Len(results[t]) + 5
IdIsNumber(r) == r.id = r.call.number + 3
McpIInv ==
    /\ McpTypeOK
    /\ \A t \in Task : Numbered(t)
    /\ \A v \in Server : \A r \in pending[v] : IdIsNumber(r)
    /\ \A v \in Server : \A k \in DOMAIN lines[v] : IdIsNumber(lines[v][k])
    /\ NoStaleAnswer

=============================================================================
