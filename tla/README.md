# TLA+ models of ObservableCAFE v2

This directory is the formal model of the message bus of ObservableCAFE and of
the services around it: TLA+ modules translated from the Rust
sources, configurations with which TLC checks them on small instances, and proofs
checked by TLAPS that hold for every instance. Line numbers refer to `src/`.

Contents: 1 the system, 2 hard behaviours, 3 the modules, 4 the runs, 5 the
proofs, 6 findings, 7 what is not modelled, 8 the plan, 9 running the tools.

## 1. The system

ObservableCAFE is a set of processes around one bus, `cafe-bus`. A *session* is an
append-only stream of *chunks*; everything (messages, RPC calls and answers,
configuration, delete signals) is a chunk with annotations. Services and user
interfaces connect over a Unix socket or TCP, subscribe to sessions and publish.

| component | state it keeps | operations | talks to | what makes it correct |
|---|---|---|---|---|
| **cafe-bus: sessions and delivery** (`cafe-bus/src/session.rs`, `registry.rs`, `client.rs`) | per session: history, retained transient chunks with deadlines, subscribers, a broadcast channel of 1024 chunks; the registry map behind one `RwLock` | CreateSession, ForkSession, DeleteSession, Publish, GetHistory, Subscribe, SetSessionTags | every client | a subscriber is shown its snapshot and all that follows, once and in order, or is told that it lagged; a retired chunk never comes back; retention is neither lost nor prolonged |
| **cafe-bus: ephemeral lifecycle** (`schedule_deletion`, cleanup of `handle_connection`) | the role and the subscriptions of each connection, the counted role and keepalive of a session, sleeping timers | SetMeta, Subscribe, disconnect, timer | sessions | unused ephemeral sessions end after their keepalive; used ones never do |
| **cafe-bus: SubscribeAll / SubscribeFiltered** (`client.rs:672-806`, `815`, `860-919`) | forwarder tasks, an event receiver of 256 events | snapshot, event listener | all services | every chunk of every matching session exactly once, or an end that is noticed |
| **cafe-bus: handshake, allowlist, listeners** | codec and role of a connection | SetMeta / Connected | every client | both sides agree on the codec; nobody waits for the other |
| **cafe-sdk bus client** (`cafe-sdk/src/bus/`) | a socket, a bounded `mpsc` per subscription | one connection per publish, `get_history` as a temporary subscription, `run_with_reconnect` | cafe-bus | a service comes back after a bus restart |
| **cafe-store** | SQLite rows for sessions and chunks | insert, delete, tags, restore after a bus restart | cafe-bus | what was durable before a restart is there after it, and nothing else |
| **cafe-llm** | one evaluator per session: the `HistoryComplete` gate, the abort flag | `llm.invoke`, abort | cafe-bus, model servers | each call is answered once; an abort ends the generation it was sent for |
| **cafe-agent-runtime** | session loops, attached set, pipeline work queue, pending RPCs | triggers, RPC dispatch with timeout, tool execution | cafe-bus | a pipeline ends; each trigger runs its steps once |
| **cafe-agent-js** | JS runtimes per session, hot reload | attach, event, respawn, teardown | cafe-bus | one runtime per session, none after its deletion |
| **cafe-mcp-client, cafe-mcp-bridge** | MCP server processes, call ids, waiting readers | tool calls with timeout | cafe-bus, MCP servers | an answer goes to the call it answers |
| **cafe-binary-store** | files, `.writing` markers, an assets table | upload, download, deletion with the session, GC | cafe-bus, HTTP | a chunk that is announced as complete has all its bytes; two uploads do not mix |
| **cafe-server** | proxied routes, pending calls, tokens | HTTP and WebSocket handlers | cafe-bus | a proxied call reaches the current owner of its route |
| evaluators (tts, stt, comfy, dice, rot13, rss, web-fetch, sheetbot, hue) | a gate per session, pending uploads | one RPC namespace each | cafe-bus, services of their own | a request is executed at most once; what an answer refers to is there |
| **cafe-knowledgebase** | a table of rows per namespace (documents and their chunks) | index, search, get_context, delete | cafe-bus, an embedding server | what an index call wrote is found in full until the document is deleted; a document is there once |
| **cafe-epub** | the book and the place in it per session, pending uploads | load, next, prev, chapter, list | cafe-bus, cafe-binary-store | reading goes on where the listener was told it is, also after a crash |
| **cafe-tui** | the screen, the mode, `streaming`, a channel of chunks | keys, one streaming task per message | cafe-server | the screen accepts input again, and shows no token of an answer that is over |
| other user interfaces (cli, web, telegram) | presentation | | cafe-bus, cafe-server | |

The interactions that matter: a connection has one task that reads its messages
(`client_loop`), one per subscription that writes live chunks (the forwarder), and
a socket shared by all of them; sessions are shared by all connections behind the
registry's lock, but the broadcast channel is read outside of it; timers and
event listeners come back to the registry later with nothing but a session id.

## 2. Hard behaviours

`PROJECT.json` lists each hazard at its line. In short:

* **Snapshot, then live.** Subscribe copies history and retained chunks and takes a
  receiver under one lock, then writes them to the socket without it, while other
  connections publish, retire, fork and delete. A chunk may be lost, doubled or
  reordered between the two halves.
* **Overflow.** The broadcast channel is bounded; a slow reader is told that it lagged.
* **Retention.** Transient chunks with `transient.retain_secs` stay for late
  subscribers; they are copied by forks and pruned by whoever looks.
* **Timers that cannot be cancelled** and outlive the session they were set for.
* **Departures at any point**, also between registering a subscriber and
  recording that it must be forgotten.
* **Restarts** of the bus and of the store at any point, also in the middle of a restore.
* **Late answers** to calls that timed out, on servers that sessions share.
* **Respawns** that race with deletions and reloads of the source.
* **Gates.** A service ignores what it is replayed, so that a request which a fork copied
  or a restart finds is not executed again; one published before it subscribed is lost.
* **Several connections for one caller.** Every publish has a connection of its own that
  nobody waits for: chunks of one publisher may overtake each other.
* **Two tasks and one flag**: an abort is heard by a task that does not stream.
* **Chains.** A step of a pipeline triggers the next through a completion; deadlines and a
  depth limit have to end every chain.
* **Streams cut anywhere** by the network, within a character or a separator.
* **Files and database side by side**: uploads in parts, several at a time, their marker and row,
  writes that end after the answer, deletions by three parties, and a clean-up that runs next to
  the server after a restart.
* **Units and forms**: texts that are cut by bytes, paths that are relative here and absolute there.
* **State taken from a session** and used later: the text of an answer, the config of an
  event, the place in a book.

## 3. The modules

| module | models | lines of code it stands for |
|---|---|---|
| `BusChunks` | chunks as the bus tells them apart, and what a log of chunks makes of them: history, retained chunks, order of replay | `session.rs` 7-22, 64-80 |
| `BusLog` | the *abstract specification*: a session is a log that only grows, a reader is shown what replays and then what follows, and ends for one of three reasons | (a promise, no code) |
| `BusSession` | the sessions, the registry, the Subscribe handler and the forwarder | `session.rs`, `registry.rs`, arms of `client.rs` |
| `BusSessionProofs` | the theorems about `BusSession`, that it implements `BusLog` among them | |
| `MCBusSession` | instances of `BusSession` | |
| `EphemeralLifecycle` | roles, counted subscribers, cleanup, timers | `registry.rs` 111-157, `client.rs` 36-52, 296-345, 552-670, `session.rs` 152-181 |
| `MCEphemeral` | instances of `EphemeralLifecycle` | |
| `StorePersistence` | cafe-store, its subscription and the bus it persists and restores | `cafe-store/src/bus_client.rs`, `db.rs`, `client.rs` 734-918, `reconnect.rs` |
| `StoreProofs` | the theorems about `StorePersistence` | |
| `Selections` | what `retain` leaves of a list, for the store and the terminal client | `cafe-bus/src/session.rs` 82-88 |
| `SelectionProofs` | the theorem about it | |
| `MCStore` | instances of `StorePersistence` | |
| `McpCalls` | tool calls of session tasks on shared MCP servers | `cafe-mcp-client/src/main.rs` 29-89, 162-257, 355-429 |
| `MCMcpCalls` | instances of `McpCalls` alone | |
| `BusWatch` | one SubscribeAll or SubscribeFiltered: snapshot, listener, forwarders, tags | `client.rs` 672-919 |
| `RegistryProofs` | the theorems about `EphemeralLifecycle` and `BusWatch` | |
| `SessionLog` | one session as the services see it: a log, its subscriptions, chunks on their way | `session.rs`, `cafe-sdk/src/bus/mod.rs` (publish) |
| `LlmEvaluator` | the two tasks of cafe-llm for a session | `cafe-llm/src/evaluator.rs` |
| `Pipeline` | the session loop and the executor of an agent | `cafe-agent-runtime/src/session_loop.rs`, `executor.rs`, `tool_executor.rs` |
| `DiceWorker` | an RPC service that publishes over connections of their own | `main.rs` of cafe-dice, cafe-rot13, cafe-web-fetch, cafe-rss |
| `AgentSession` | the composition of the last four, with a user and a second caller | |
| `AgentSessionProofs` | the theorems about `AgentSession` and the four modules in it | |
| `MCAgentSession` | agents of the repository and the scenarios they are in | `agents/*.toml` |
| `LlmContext` | messages, budgets, summary and configuration of a request | `cafe-llm/src/context.rs` |
| `WireReaders` | five readers of a byte stream that arrives in pieces | `cafe-llm/src/backends/`, `cafe-types/src/codec.rs`, `cafe-sdk/src/http/`, `client.rs` 55-101 |
| `SdkClient` | negotiation of the codec, one connection per call, stops of the bus | `cafe-sdk/src/bus/mod.rs`, `client.rs` (handshake) |
| `EvaluatorCall` | one call of a tool through cafe-mcp-bridge, its evaluator and the binary store | `cafe-mcp-bridge/src/main.rs`, workers of tts, stt, comfy, sheetbot, hue, knowledgebase |
| `MCEvaluatorCall` | instances of `EvaluatorCall` alone | |
| `BinaryUpload` | one chunk of cafe-binary-store: parts, marker, row, deletions, clean-up | `cafe-binary-store/src/` |
| `JsHost` | supervisor, session tasks and stateful runtimes of cafe-agent-js | `cafe-agent-js/src/main.rs` |
| `TaskProofs` | the theorems about `McpCalls`, `EvaluatorCall`, `JsHost` and `KnowledgeBase` | |
| `JsCalls` | the events of a script and the operations it has under way | `cafe-agent-js/src/bridge.rs`, `main.rs` 393-545 |
| `AgentFiles` | the registry of agent files, its watcher, and which runtime serves an agent | `cafe-agent-js/src/loader.rs`, `watcher.rs`, `cafe-js-manifest`, `cafe-agent-runtime/src/main.rs` |
| `ServiceProofs` | the theorems about `BinaryUpload`, `SdkClient`, `AgentFiles`, `JsCalls` and `EpubNarrator` | |
| `KnowledgeBase` | the handlers of cafe-knowledgebase over one table | `cafe-knowledgebase/src/`, `cafe-knowledgebase-index` |
| `EpubNarrator` | cafe-epub and one session | `cafe-epub/src/` |
| `TuiClient` | cafe-tui, the chat handler of cafe-server and the session behind it | `cafe-tui/src/`, `cafe-server/src/handlers/chat.rs`, `sessions.rs` |
| `ConversationProofs` | the theorems about `TuiClient`, `LlmContext` and `WireReaders` | |
| `MCServices`, `MCTasks` | instances of the modules that stand for themselves, for safety only and for liveness | |

### BusSession

A chunk is named by its *position* in `log[n]`, the list of everything published on
*incarnation* `n` of a session in the order in which the write lock serialised the
publishes. An incarnation is one `SessionState` object: a session id that is
deleted and created again names another one (`current`). The correspondence:

| code | model |
|---|---|
| `SessionRegistry.sessions` | `current` (session id to incarnation) |
| `SessionState.history: Vec<Chunk>` | `kept[n]`, a set of positions; the Vec is those in increasing order, since `push` appends and `retain` keeps the order |
| `SessionState.retained: Vec<(Chunk, Instant)>` | `ret[n]`, a set of `[pos, deadline]` |
| the `tokio::sync::broadcast` channel | `log[n]` and a `cursor` per receiver; `Overrun` when more than `Cap` chunks are behind |
| `Instant::now()` | `now`, advanced by `Tick` |
| the local variables of one Subscribe (`history`, `retained`, `rx`) | one record of `subs`: what is still to be written, and `cursor` |
| what the client has received | `got` |

Actions: `CreateSession`, `Publish`, `ForkSession`, `DeleteSession`, `Subscribe` (each
one critical section), `ReplayOne`, `HistoryComplete`, `WriteFails`, `Forward`, `Lag`,
`Close` (the handler and the forwarder, one step per chunk written), `HangUp`,
`Cleanup`, `Tick`. `kept` and `ret` are updated the way the code does it, one
publish, prune and fork at a time; the properties compare them with what the whole
log says (`BusChunks`). That the delete signal is applied, forked and pruned at three
different places in the code is why these comparisons can fail.

Abstractions: a chunk has an id, a kind (`durable`, `transient`, `retained`, `delete`)
and a deadline. The config and tags chunks that CreateSession publishes into a session
before it is inserted are one position, for no subscriber can come between them; the
provenance chunk of a fork is one. Requests other than Subscribe are one
critical section each and may come from any connection. `direct_to` chunks, tags and
session-info fields are left out; they do not touch histories or forwarders.

### EphemeralLifecycle

Two views of one subscription are kept apart as in the code: `subscribed` (the map of
the session) and `tracked` (`subscriber_tasks` of the connection). Between the two lies
the replay, during which the client may go away. A timer is a sleeping task that
holds a session id only: `timers[s][k]` counts those of id `s` with `k` time units to
go. Time is relative: one `Tick` shortens every timer, and a timer whose time is up may be scheduled late. `counted`, `quiet` and `recast` are history variables for the properties:
whether a counted connection ever subscribed to the session, how long ago the last
of them left, and whether a subscriber subscribed to it again under another role (`SetMeta` is
accepted at any time, and the next Subscribe replaces the entry of the connection). They are read
by no action.

`BusSession` and `EphemeralLifecycle` describe the same `client.rs` from two sides and do not read each
other's state: `BusSession` does not know why a session is deleted, and
`EphemeralLifecycle` does not know chunks.

### StorePersistence

Between a publish and its row there are three queues, each drained by a task of its own:
`events` (registry events that the listener of the subscription has not handled),
`feeds` (one forwarder per session it announced, with what its receiver holds), and `inbox`
(the socket). A session reaches the store through the first, its chunks through the
second, and they meet in the third; an event that is handled late finds its session
changed, gone, or another one. The rest of the state is `live` and `hist` (the registry),
`rows` and `chunks` (the two tables), and `phase`, `todo`, `current`, `replay`: where
`connect_and_run` and `restore_from_db` are. The statements on the tables have the names of what they leave:
`Ensured`, `RowDeleted`, `ChunkDeleted`, `Inserted`, `LoadHistory`, `Absent`. `sending` holds the restored chunks the bus has
not handled: each travels on a connection of its own, so `Accept` takes any of them.

The bus part is coarser than `BusSession` (which shows what one subscription is given):
only durable chunks, by id, each published once, and no provenance chunk; an announcement
and its replay are written in one step, which other forwarders of the same session could
interleave with only between incarnations; neither the 256 events nor the 1024 chunks of
the channels run over (a listener or forwarder that does ends silently, and then
nothing in this module holds; `BusWatch` has that). SQLite does not fail. `altered`
and `owed` are history variables for the properties: ids somebody forked or retired, and
what the last restore has to bring back. What is kept of a sequence (`Selected`: a history without a
retired chunk, the forwarders that are not done) and what the bus writes for all its sessions (`Snapshot`)
are recursive functions: the provers know nothing of `SelectSeq` and `FlattenSeq`.

### McpCalls

A session task makes one tool call after the other, each on some server: it waits for the
server's mutex, writes a request with its own next id, and reads the server's channel until
it finds a line with that id, the deadline passes or the channel ends. What the server
writes, and when, is external: any request may be answered at any time after it was
written, after later ones, or never, and the server may exit or stop reading (`Deafens`): a request is
then not written, for `send_jsonrpc` has no deadline, and the mutex is not given on. Ids are per session
(`McpClient` is made in `run_session`), the channel is per server: `AnswerIsOwn` and
`NoStaleAnswer` ask what follows from that.

A module of which only some operations are of interest to its properties is coarser
there: the mapped lines in `PROJECT.json` say which function each definition stands for.

### BusWatch

One watcher and one session id. `alive` is the incarnation in the registry, `stream[n]` the
matching and other chunks published in it; `atts` are the forwarders, each with its
position in what its receiver holds. Between taking the receivers (under the lock) and the end of the
replay lies `watch = "replay"`; the listener takes one event at a time and looks the session up
in the registry of *now*, which is where a late event attaches to another incarnation
(`late`). Both channels are bounded (`EventCap`, `StreamCap`) and a receiver that lags ends
its task silently. `tagged` and `filtered` are the tags of the session and the filter.

### AgentSession: SessionLog, LlmEvaluator, Pipeline, DiceWorker

`SessionLog` is what `BusSession` promises its subscribers, used as the environment of services: the
log, for each `Reader` where it subscribed (`at`) and how far it has read (`pos`), and `net`, the
chunks published over connections of their own which the bus has not taken.

`LlmEvaluator`: `gen` is the request in the hands of the main loop, `abort` the watch channel
that a second task sets, `out` the chunks on the evaluator's connection, taken in their order.
A request that was replayed is ignored (`LlmIgnore`), the flag is reset after the history was
fetched (`LlmStart`), and an answer is text, completion and response, or an error.

`Pipeline`: `run` is the work queue with the operations of the current event; a step is a
call with a deadline or built in, its completion is the next event, one deeper. The session
loop reads nothing while it awaits the executor.

`DiceWorker` publishes each chunk into `net`, so that they arrive in any order. It is cafe-dice,
or cafe-rot13, cafe-web-fetch or cafe-rss for an agent that calls one of these: the loops are the
same, and `Replies` says what each publishes for a request. A text of such a service is a `note`,
for `extract_last_assistant_text` takes only those of cafe-llm.

`AgentSession` puts them around one log, with a user who writes and aborts and a second
caller. `MCAgentSession` holds the steps of `dice.toml`, `dice-llm.toml`, `voice.toml`, `rot13.toml`,
`fetch.toml`, `rss-summarizer.toml` and two small agents, and scenarios: who subscribes late, how many messages, aborts, other calls and
scheduler ticks.

### McpCalls and EvaluatorCall: calls of tools

`EvaluatorCall` is `rpc_dispatch` of cafe-mcp-bridge (`caller`), the subscription that keeps
its ephemeral session alive (`sub`), the session (`room`, `chat`), and the session worker of one
of seven evaluators, given as a script: what it publishes and on which connection. `flying` are
chunks on connections of their own. `mail` and `stored` are the credentials and the upload of
cafe-tts: the store sends credentials to the connection that published the reference, and the request
that uploads the audio then ends well or not (`UploadEnds`); nobody tries again.

### LlmContext and WireReaders: what goes to a model and what comes back

`LlmContext` is a computation: `history`, `settings` and `budget` are any within the bounds,
and three steps build, cut and merge. A text is the sequence of the positions of its chunks,
so that a lost, doubled or moved one shows. `WireReaders` has a stream of frames of two-byte
characters, cut anywhere; the readers of the OpenAI, OpenCode and Ollama backends, of the
HTTP event stream and of the bus differ in what they keep and when they decode.

### SdkClient

A call opens a connection, checks the codec the bus chooses, writes, and reads until an answer or
the end. The first calls negotiate on connections of their own and `cache` the result for good.
The bus may stop between any two steps and come back without the binary codec.

### BinaryUpload

`file` is the inode at the path of the chunk (a deleted file that is still written to is another
one), `writing` the marker, `row` the database; `posts` are the requests, any number of them side by
side, each at one of the awaits of its handler. The producer posts the next part when it has the
answer, and starts over when it likes. `append` ends with a `write_all` on a tokio `File` and no
flush: a part is `"pending"` from then on and lands, or fails and is `"lost"`, at any later time, and the
handler goes on meanwhile. `deleter` is the removal by the end of the session, by the GC or by a DELETE
request; `cleanup` the task after a restart. `overlapped` is a history variable: the files that
two uploads shared.

### JsHost, JsCalls, AgentFiles: cafe-agent-js

All tasks of `JsHost` share one thread, so that an action is what happens between two awaits:
the supervisor handles registry events, a session task reads triggers, fetches the config, and
respawns the stateful runtime when the source changed or the task is over; the map entry has the channel
that outlives runtimes. `JsCalls` looks at one runtime: `feed` is the task that
makes events of chunks (text and config are fetched in between), `ops` are the calls of the script, each
with its subscription, its one-shot publishes and its outcome `got`. `AgentFiles` has
the registry by name, the watcher's reports, and the files that cafe-agent-runtime found at its start. A
path has two forms: the one in which its directory is configured (`absolute` holds the paths whose
directory has an absolute one; `./agents-js` has not), which a scan keeps, and the absolute one, which the watcher
reports; `Entries` compares them as the code does.

### KnowledgeBase

Calls run side by side, each in a session of its own. An index call writes the row of the
document and one per chunk, asking the embedding server before each; `ChunkText` is `chunk_text`
on paragraphs whose bytes are named by paragraph and number, so that `Covers` can say that
none is lost. `wide` are the bytes that go on with a character: a slice that begins or ends at one of them
panics (`Panics`), and the task of the session is gone. (Texts of this kind are usual: the fixture
`sweden-provinces.txt` of the repository has some.) The embedding is the text: a search returns any row. Which documents and texts there are and
how they are cut is given by the constants `Docs` and `Uploads`.

### EpubNarrator

`narration` is the memory of the process, `told` what it left in the session; every chunk is
a step of its own, between any two of which the process may die. `LatestState` and `Found` are
`restore_state`: the file at its path, or else the blob if it was uploaded.

### TuiClient

`streams` are the tasks of `stream_chat`, each with the chat handler behind it; `rooms` are the
logs of the sessions, `todo` what cafe-llm has still to publish. The screen is a set: neither the order
nor the number of messages is looked at (the user's message may show twice, see section 6), and no
property says that it equals the session.

### MCServices and MCTasks

The modules in these two do not share state with each other. To check several in one run, a behaviour is
of one of them, chosen in the initial state (`part`), while the state of the others rests in
an initial state in which their fair steps are not enabled. A property of one module is therefore
checked on exactly its own behaviours. `MCServices` checks safety only; `MCTasks` has the modules
whose liveness is checked, each with its own fairness.

## 4. The runs

| run | instance | shows |
|---|---|---|
| `bus_core` | 1 connection, 2 session ids, 2 incarnations, 1 subscription, channel of 1, 2 publishes, retention 2, a clock up to 2 | `TypeOK`, `HistoryIsLog`, `DeliveryIsExact`, `RetentionIsExact`, and that `BusSession` implements `BusLog` (`ImplementsLog`) |
| `ephemeral` | 3 connections, 1 session id that may be created again and again, roles "user" and none, keepalive 0..2, roles declared at any time | `TypeOK`, `UnusedIsTimed`, `NobodyCutOff`, `OnlyUsersVacate`, `UnusedEnds`; 1.2 million states |
| `ephemeral_grace` | 2 connections, keepalive up to 2 | *violated*: `GraceIsKept` |
| `ephemeral_abandoned` | 2 connections, keepalive up to 1 | *violated*: `AbandonedEnds` |
| `store` | 2 session ids, 1 chunk, 2 stops of bus or store, 2 sessions created or forked by others | `DatabaseIsExact`, `RestoreIsComplete`; 3.3 million states |
| `store_reconnect` | 1 session, 1 stop | *violated*: `SessionsSurvive` |
| `agents` | 10 scenarios of 8 agents, depth limit 2, up to 4 calls | `TextIsOfTrigger`, `AnswersAreDue`, `EveryMessageIsHandled`, `EveryRequestIsAnswered`, `AbortEndsStream`; 0.2 million states |
| `agent_tools` | `agents/dice-llm.toml`, one message | *violated*: `DetectedIsExecuted` |
| `services` | uploads of 2 parts, 3 requests, 1 removal or restart; 2 frames; 2 client calls and 1 stop; histories of 3 texts; 2 files and names, 2 changes; 2 calls and 1 crash of the knowledge base; 3 commands, 1 crash, 1 removed file of cafe-epub; 3 acts and 1 lost connection of a script; 3 messages or sessions and 1 cut stream of the terminal | `ServicesTypeOK` and the properties of the nine modules; 3.5 million states |
| `tasks` | 2 tasks, 1 server, 2 calls; 2 incarnations, 2 triggers, 1 edit; 2 incarnations and chunks, 1 change of tags, channels of 2 and 1; 7 evaluators, 1 crash; 1 connection with 2 subscriptions, 2 publishes | `TasksTypeOK` and the properties of the five modules, under fairness; 0.2 million states |
| `mcp_stale` | 2 sessions, 1 call each, 1 server | *violated*: `AnswerIsOwn` |
| `bridge` | one call of each evaluator, no crash | *violated*: `RoomIsDeleted` |

Eight more statements of the documentation are stated in the modules and do not hold either; they are listed in
section 6 (7 to 14). TLC refutes each in seconds when it takes the place of the properties in `MCServices.cfg`
(`NextReadsFirst` with `MaxCommands = 4`); the properties that are checked leave out exactly the case in question.

The type invariants of `StorePersistence` and `AgentSession` are definitions that
no run checks; those of the other modules are in the runs above.

Properties of `BusSession`:

* `HistoryIsLog`: the stored history is the log without its transient and retired
  chunks, after any sequence of publishes, delete signals, forks and deletions.
* `RetentionIsExact`: the buffer holds every retained chunk whose time is not up and that
  was not retired, at the deadline it was published with, and nothing retired.
* `DeliveryIsExact`: what a subscription wrote so far is the replayed part of its
  snapshot and the later chunks up to its cursor, each once and in order.
* `ImplementsLog`: the same as a refinement. `BusLog` has no snapshots, buffers or tasks:
  a reader is shown the first chunk it is due, and ends only if its client left, it
  was more than `Cap` chunks behind, or it saw everything of a deleted session.
* `EveryChunkArrives` (run `tasks`): every chunk a subscription waits for arrives, or the client is
  told that it lagged or has left; also if the session is deleted meanwhile.

Properties of `EphemeralLifecycle`:

* `UnusedIsTimed`: a session whose counted subscribers have all departed has a timer. A connection that
  subscribes again under a role that does not count has not departed, and no timer is started for it.
* `NobodyCutOff`: no departure and no timer, however old, ends a session under a
  counted connection that the bus still serves.
* `OnlyUsersVacate`: the departure of connections that do not count neither ends a session
  nor starts a grace period, unless a counted one used it before.
* `UnusedEnds`: an unused session ends or is used again.

Properties of `StorePersistence`:

* `DatabaseIsExact`: a chunk that comes by a replay, a forwarder and the echo of its own
  restore is stored once, with its session (`TablesAgree`); and whatever is published,
  created, deleted and restored while the store connects, restores, or is away, once its
  queues are empty it has a row for each session of the bus and a row for each chunk that
  was neither retired nor forked (a chunk that two sessions share is stored for one of
  them).
* `RestoreIsComplete`: when a restore is over and the bus has handled what it sent,
  each session and chunk it set out to restore is there, unless the bus stopped or another
  client created, deleted or retired it meanwhile; also if sessions of an earlier
  restore, cut short by a restart, are still arriving.

Properties of `McpCalls`:

* `NoStaleAnswer`: no call takes the answer to an older call of its session for its own.
* `AwaitedIsKept`: nobody else takes the answer to a call that is still waiting for it.
* `EveryCallEnds`: every call, also one that queues for the mutex, ends and gives the
  server on, whether the server answers, answers late or exits; if it reads what is written to it. (The
  write has no deadline: one that stops reading for ever holds up every session that calls it.)

Properties of `AgentSession` (run `agents`):

* `TextIsOfTrigger`: a pipeline that the end of an answer started works on a text as new as that answer's
  and as every text before the completion, although it looks only when it gets round to it. An
  answer that failed or is empty has no text (`evaluator.rs:328-333`, `360`): its pipeline works on
  that of an earlier answer, or of a later one.
* `AnswersAreDue`: a request is answered at most once, and never if its service was replayed it.
* `EveryMessageIsHandled`: every message after the attachment is handled to the end of
  its pipeline: deadlines end every call, the depth limit every chain.
* `EveryRequestIsAnswered`: if streams end, each live request to the model is answered, be it by an error.
* `AbortEndsStream`: an abort that arrives during a stream ends it, even if the backend never does.

Properties of the parts of `services`:

* `CompletionIsTrue`, `StoredIsWhole` (`BinaryUpload`): a completion is published only for a file
  to which every part was written, or is being written, or could not be (`Written`); what the producer was told is stored
  was written to the file there is, which is there unless it was deleted or cleaned up. So no interleaving of upload,
  deletion and clean-up makes a part of it pass for the whole. That the bytes are on the disk is what
  `CompletedIsReadable` refutes; files that two uploads shared are left out, and `StartIsRefused` shows how that comes about.
* `CutsDoNotShow` (`WireReaders`): what a buffering reader (OpenAI, OpenCode, the bus) delivers does not depend on where
  the stream was cut; of an OpenCode stream with an error, it is a prefix. The reader of Ollama and that
  of the SDK's event streams do not buffer and are left out (section 6).
* `CodecIsAgreed` (`SdkClient`): the bus never reads a codec it did not choose, whatever is cached.
* `RequestIsFaithful` (`LlmContext`): every trusted chunk is in the request or in what was cut, once and
  in order; roles alternate; no more is cut than the budgets ask; and the configuration is the
  last namespaced key's, or, if there is none, a legacy key's that was set. Which of several legacy keys decides is not
  part of it: the comment says the last, the code takes the first (`LaterKeyWins`).
* `AgentsFollowFiles` (`AgentFiles`): once changes are handled each file is served as it is, what is gone is
  not, and no agent is served by both runtimes, outside the cases its text names: entries of a directory with a
  relative path are among them (`GoneIsUnloaded`).
* `KnowledgeIsKept` (`KnowledgeBase`): what an index call wrote is found in full, each row of that call once, until
  the document is deleted; the deletion takes all rows of the calls that had ended; a hit comes with its true
  neighbours. The rows of a second call for the document are there as well (`DocIdIsKey`), and what a call
  writes after the deletion stays.
* `NarrationResumes` (`EpubNarrator`): a process that starts again goes on at the place published last,
  and `!next` reads that chapter if nothing of the book was read and the next one otherwise. The first `!next` after
  a second `!load` is left out (`NextReadsFirst`).
* `CallsAreTold` (`JsCalls`): a call takes its own answer only, and what the session is told of
  a tool is what the script was told.
* `EventsAreCurrent` (`JsCalls`): an event has a text no older than the last one before its completion, hence its
  own if it has one, and a config as new as itself. A completion without a text comes with an earlier one (`TextIsOfReply`).
* `ScreenSettles` (`TuiClient`): when all streams ended by themselves, the screen is free and holds no leftover token.

Properties of the parts of `tasks` (`NoStaleAnswer`, `AwaitedIsKept`, `EveryCallEnds` and
`EveryChunkArrives` are above):

* `OneRuntime`, `TriggersArrive` (`JsHost`): a session never has two runtimes, and a trigger of an
  attached session reaches the agent, however its source is reloaded and its runtime respawned.
* `WatchIsExact`, `EveryMatchIsSeen` (`BusWatch`): a watcher is written the matching chunks of an
  incarnation in order and once, and all of them, outside the cases the text names.
* `ExecutedAtMostOnce` (`EvaluatorCall`): a crash and the replay that follows execute no request twice.
* `AudioIsSent` (`EvaluatorCall`): the audio an answer refers to is sent to the store, whatever comes of the request.

**Bounds.** A channel of one chunk makes every second publish an overrun. Two publishes are a durable chunk and its delete signal, or a retained and a live one, next to the chunks that a creation and a fork write themselves (three publishes hold too, in 15 million states and 5 minutes).
Clock values 0..2 with retention 2 are before, during and at a deadline.
Keepalive 2 is the least value with a timer in the middle of its sleep while another one
starts. In `store`, two stops are the least for a restore that matters (the
store comes back, then the bus goes, or the other way round) and for a restore that is cut
short; two created sessions are a fork, or a session id that is used again. Two MCP calls per
session are a late answer and the call that could take it. A depth limit of 2 is reached by a
chain of three steps; one late reader and one message are a request that is replayed, two
messages a trigger that waits while the pipeline works. Two parts are an upload that is resumed, three
requests one that is resumed beside another one that starts over; one removal is a deletion, or a restart with its clean-up. Two
frames of two bytes and a separator give a cut inside a character, inside a separator, and two frames in one piece.
Two SDK calls negotiate at the same time, one stop lies between negotiation and use. Three
texts of history are a system message away from the first cut and make two neighbours of one
role. Two files and two names give renames, two files of one name, and a swap. Two knowledge base calls
are index against index, delete, search or context; the texts reach each way of `chunk_text`, the two that do not end well included. Three commands load,
read and move, or load twice. Three acts of a script are two calls and a chunk of somebody else. Three messages or
sessions are two answers in flight and a session to change to. Two incarnations are a session
id that is used again while tasks of the old one still run. The bounds are the constants with `Max` in
their names, each in the guard of the actions it bounds; `CHECK_DEADLOCK FALSE` because a system whose
clients have used up their moves really has nothing to do. The proofs of section 5 hold
without bounds.

**Symmetry.** `bus_core` permutes session ids and incarnations, `store`
session ids; no liveness is checked in them. (The record of an unused subscription names an arbitrary
incarnation that nothing reads.)

**Fairness.** Tasks are scheduled, deadlines pass, and what was written to a socket is read; nobody
has to publish, subscribe, write, crash or leave. `BusSession`: `TaskStep(i)`, the steps the bus
takes on its own for a subscription: tokio schedules a task that can run, and an open
connection is read by its client (a client that stops reading without leaving blocks
`send_msg` in the code). `EphemeralLifecycle`: the end of a replay, the cleanup, each timer
that is due, and time. `StorePersistence`: the tasks of both processes, and a bus that
stopped is started again; the store is *not* started again, for its process is still there.
`McpCalls`: a task that holds a mutex writes if the server reads, and is woken by the deadline; the server need not
answer, but `EveryCallEnds` assumes that it does not stop reading for ever. `AgentSession`: the bus takes what was written, each service task runs, deadlines
pass, and a backend either starts to stream or fails; that streams end is assumed in
`EveryRequestIsAnswered` only. `JsHost`: the supervisor, each session task, each runtime (a script
handles or ends; one that blocks for ever is not covered). `BusWatch`: the listener and each
forwarder. `EvaluatorCall`: dispatcher, bus, store and a worker, which is started again after a crash.
All are weak: each of these steps stays enabled until it is taken.

## 5. The proofs

`BusSessionProofs` proves, for all constants that satisfy the named assumptions of
`BusSession` (a positive channel capacity, natural bounds, `None` not an incarnation,
at least one connection and incarnation):

* `TypeCorrect`: `Spec => []TypeOK`;
* `Inductive`: `Spec => []IInv`, and from it
* `HistoryIsAlwaysLog`, `RetentionIsAlwaysExact`, `DeliveryIsAlwaysExact`.

`IInv` adds two things to the properties themselves. `Allocated`: an
incarnation is named only once it was used and is blank before (a fork or a create
overwrites its log, so nobody may be reading it). `PendingIsConsistent`: what is pending
of a snapshot is part of what the log replays at that point, comes after
everything already written, and a live forwarder has nothing pending
(`DeliveryIsExact` alone does not survive `ReplayOne`: the next chunk written must be
known to come after the last).

The argument for logs is that every fact about a subscription looks at a prefix of the log
that later publishes do not change (`SamePrefix`, `LastingGrows`,
`SoundGrows`): a delete signal published after the snapshot retires nothing *within* the
prefix. For buffers, `BufferAges`, `BufferPruned` and `BufferGrows` say what the passing of
time, a prune and a publish do; a fork is a prune of the parent followed by a copy.

From the same invariant `BusImplementsLog`: `Spec => ImplementsLog`, the refinement of `BusLog`, for every
number of incarnations, connections, subscriptions and chunks. The initial state is one of `BusLog`
(`InitImplements`), and every step of the bus is one of `BusLog` or changes nothing it can see
(`NextImplements`): a publish, creation or fork writes to the log (`WorldMoves`), a Subscribe starts a
reader at the length of the log, a chunk written in the replay or by the forwarder is the first the reader
is due (`FirstIsShown`: its position is that of the snapshot's smallest, or the cursor), and a hang-up, a lag, the end of a
forwarder and the cleanup end readers for the three reasons `BusLog` knows (`StepEnds`, `CleanupEnds`). `PendingIsConsistent` is what
makes the smallest pending position the first that is due.

`RegistryProofs` proves of `EphemeralLifecycle`, for any connections, session ids, roles and keepalive
bound (the named assumptions: `None` is not a role, the words that mark an idle or gone
connection are not session ids, `MaxKeep` is a natural number):

* `TypeCorrect`: `Spec => []TypeOK`;
* `NobodyIsCutOff`: `Spec => NobodyCutOff`, an action property that follows from the
  recheck in the timer and the strict emptiness test of the cleanup;
* `Inductive`: `Spec => []IInv`, and from it
* `UnusedIsAlwaysTimed` and `OnlyUsersEverVacate`.

Here `IInv` adds `UsersWereCounted`: who counts now was recorded as counted. `UnusedIsTimed` would not be
inductive if it spoke of every session that has no counted subscriber left: a second Subscribe of a connection
overwrites its entry in the map, and if the connection changed its role in between, the last counted
subscriber disappears without a departure and without a timer. The bus allows that (`client.rs:342`), so the
steps are in the model, and `Unused` leaves out sessions in which it happened (`recast`). The
clients of this repository do not do it: they declare a role in the handshake or before their first
subscription.

`TaskProofs` proves of `McpCalls`, for any sessions, servers and numbers of calls:

* `TypeCorrect`: `McpSpec => []McpTypeOK`;
* `Inductive`: `McpSpec => []McpIInv`, and from it `NeverStaleInSession`.

`McpIInv` says of each session that its requests are numbered below its counter, and of every
request and answer that its id is the one its call was numbered with: within a session the
id then determines the call. The theorem needs no assumption on the order of
answers or on time.

* `MutexInductive`: `McpSpec => []MutexIInv`, and from it `AwaitedIsAlwaysKept`: `McpSpec => AwaitedIsKept`, an action property.

`MutexIInv` adds what the mutex is for: a task stands in the queue of the server it uses and in no other, once (`Queued`); who
reads is the head of the queue (`ReaderHolds`); and a request or an answer of a call that has not ended is on the server its task reads from, with the
id it looks for (`SoughtIsRead`). So the answer is passed over by nobody: the only reader of these lines takes it.

`ServiceProofs` holds the theorems about five modules of `MCServices`. Of `BinaryUpload`, for any number of parts, concurrent requests, deletions and restarts:

* `UploadInductive`: `UpSpec => []UpIInv`, and from it
* `CompletionIsAlwaysTrue`: `UpSpec => CompletionIsTrue`, and `StoredIsAlwaysWhole`:
  `UpSpec => []StoredIsWhole`.

The only assumption is that a chunk has at least one part. `UpIInv` says what each step of a
request may rely on although removals and other requests run between them: the parts before this one were
written to the file it opened, all of them once it finalizes (`InOrder`), and that file is the one at the path or there
is none, the latter only once somebody has removed the chunk (`StillLinked`, `RemovalIsKnown`); and a start that is about
to set the marker is alone with its file or shares it (`AloneOrShared`). Written means in the file, on its way, or
lost (`Written`): nothing the handler sees tells these apart. Files that two uploads shared are in `overlapped` and
exempt.

Of `SdkClient`, for any number of calls and of stops of the bus:

* `SdkInductive`: `SdkSpec => []SdkIInv`, and from it `CodecIsAlwaysAgreed`: `SdkSpec => []CodecIsAgreed`.

`CallSpeaks` is the half that holds whatever the bus does: a connection that got past the handshake speaks
the codec its call was made with, since a bus that chose another one refuses. `Undisturbed` is the half that holds until the first stop: the
cache is empty or what this bus prefers, so two calls that negotiate at the same time write the same value.

Of `AgentFiles`, for any paths, names and number of edits:

* `FilesInductive`: `FilesSpec => []FilesIInv`, and from it `AgentsAlwaysFollow`: `FilesSpec => []AgentsFollowFiles`.

A change is handled by what the file says *then*, not by what it said when the change was reported, so
the invariant cannot speak of the order of the changes: `OthersAreServed` says that each path which was seen has a change
in the queue or is served as it is, and `PathOnce` that a path has one entry with its absolute form, so that a file which gave up its name is
taken from the registry under its old one; entries that a scan found with a relative path stay. Both hold as long as no two files shared a name.

Of `JsCalls`, for any number of events and operations:

* `CallsInductive`: `JsCallsSpec => []CallsIInv`, and from it `CallsAreAlwaysTold`: `JsCallsSpec => []CallsAreTold`;
* `FeedInductive`: `JsCallsSpec => []FeedIInv`, and from it `EventsAreAlwaysCurrent`: `JsCallsSpec => []EventsAreCurrent`.

`TellsOnce` counts for each tool call what is in the session, in flight and not sent yet together: it is what the step of
the operation says was written, each chunk in one of these places, and in the session in either order. `FeedIInv` follows the
text and the configuration fetched for a trigger from the fetch to the delivery (`FeedIsCurrent`): the history only grows, so what
was the latest at the fetch is not older than the latest before the trigger, which was read earlier; that is the
text of the completed answer if it has one.

Of `EpubNarrator`, for any books of any length, and any number of commands and crashes:

* `EpInductive`: `EpSpec => []EpIInv`, and from it `NarrationAlwaysResumes`: `EpSpec => NarrationResumes`.

The session holds places and blobs, and `NarrationResumes` speaks of the last place only; a restart reads the last blob, too. `EpIInv`
relates the two: between commands the book in hand is that of the last place (`PlaceIsTold`), and as soon as the last blob can be
fetched, which is after its upload ended, the last place is one in that book (`PlaceIsOfBlob`, `LoadsBlob`). `MovesOn` says
that what `!next` is about to publish is the last place if nothing was read there, and the chapter after it otherwise.

`ConversationProofs` proves of `TuiClient`, for any number of messages, sessions, forks and broken streams:

* `TuiInductive`: `TuiSpec => []TuiIInv`, and from it `ScreenAlwaysSettles`: `TuiSpec => []ScreenSettles`.

The streams of two quick messages read the same session, and each ends at the first completion it sees, so it is not obvious that
some stream lives long enough to take each token off the screen. `RoomsAreSwept` says why one does: in the log of every session the
tombstone of a token comes before the next completion, or nothing completes until the agent has published it.
`ScreenIsSwept` holds each token on the screen against a stream that has it behind it and its tombstone before it, or was
cut; a stream that ends would need a completion between the two. What is loaded from a history adds no token, for a history has
none (`HistoryIs`, by `Selection`).

`ConversationProofs` proves of `LlmContext`, for any history, any budget and any config chunks:

* `ContextInductive`: `ContextSpec => []ContextIInv`, and from it `RequestFaithful`:
  `ContextSpec => []RequestIsFaithful`, and `ContextTyped`: `ContextSpec => []ContextTypeOK`.

`build_messages` and `extract_config` are folds, so each half rests on a statement about the first n chunks. `Tells` says
that the messages of the first n chunks are an opening and a conversation whose text is the trusted chunks among them,
where roles alternate (`TalkGoesOn`: a chunk goes into the last message or into a new one; `CoalescedAfter`: never into the
system message). `DueFrom` names the last namespaced key of the first n settings and, if that holds nothing, the
first legacy key from there on (`DueKept`). `CutHolds` says that the least cut that fits leaves the newest message and no
message more could have stayed. `ContextIInv` gives the shape of the messages at each stage; the property, which
selects the messages of the conversation by their role, then speaks of the part after the notices (`SelectedTail`).

`ConversationProofs` proves of `WireReaders`, for streams of any length and frames of any kind, cut anywhere:

* `WireInductive`: `WireSpec => []WireIInv`, and from it `CutsNeverShow`:
  `WireSpec => []CutsDoNotShow`, and `WireTyped`: `WireSpec => []WireTypeOK`.

`WireIInv` says for the three readers that keep bytes (`openai`, `opencode`, `bus`) that the caller has what is due of the first m
frames, that the buffer followed by the wire is the bytes of the others from the beginning of frame m + 1 (`Holds`), and
that the buffer is shorter than a frame. A piece moves bytes from the wire to the buffer and changes nothing of the two
together (`PieceMoves`); the loop then takes off whole frames, for the first separator in bytes that begin with a frame
ends that frame (`NoneBefore`, `EndOfFrame`), until less than one is left (`LoopHolds`). `IsDue` gives what is due
of the first n frames: a backend adds the text among the new ones (`TextAdds`), the bus every one up to a damaged one
(`ReadAdds`, `BusStops`). The other two readers decode or cut too early; of them only the types are proved, and the
property leaves them out.

`TaskProofs` proves of `JsHost`, for any number of sessions, triggers and changes of the source:

* `HostInductive`: `JsSpec => []HostIInv`, and from it `NeverTwoRuntimes`:
  `JsSpec => []OneRuntime`.

`HostIInv` adds the types a step relies on and `EntryIsSpawned`: an entry never names a task
that is still to be spawned, or a later spawn could run under the name of an entry that stands for another.

`TaskProofs` also proves of `EvaluatorCall`, for each evaluator and any number of its crashes:

* `CallInductive`: `CallSpec => []CallIInv`, and from it `NeverExecutedTwice`:
  `CallSpec => []ExecutedAtMostOnce`.

`CallIInv` says that the request is in the session at most once and nowhere before the caller has published it
(`RequestOnce`), that after the execution a worker which is there is past the request or
counts it as replayed (`NeverAgain`), and that an answer is on its way only after the execution
(`AnswerFollows`).

`TaskProofs` proves of `KnowledgeBase`, for any documents, texts, chunk sizes and overlaps, any number of calls and crashes:

* `TextIsCovered`: `chunk_text` loses no byte of any text where it ends with chunks, which it does not if it turns in place
  (`NeverEnds`) or cuts inside a character (`Panics`);
* `KnowledgeInductive`: `KbSpec => []KbIInv`, and from it `KnowledgeKept`: `KbSpec => []KnowledgeIsKept`, and
  `KnowledgeTyped`: `KbSpec => []KbTypeOK`.

`TextIsCovered` follows the fold over the paragraphs (`ParagraphAdds`: what was covered stays, and the paragraph is
added, whole or in pieces that meet, `SplitHolds`). A call whose text makes it panic writes the row of the document and nothing more, and is never answered. `KbIInv` counts rows by call and part: an index call
whose document nobody deleted has one row for each part before the one it is at and none from there on
(`RowsAreWritten`), and a row is of an index call and of its document (`RowIsOfCall`), so that a deletion by document takes
all rows of a call and none of another document's. For the neighbours of a hit, the rows of a
document that one call indexed are then numbered 0 to n - 1, the place of a row in the sorted list is its part
plus one (`ChunksOfAlone`, by counting), and the answer holds the parts before and after (`Beside`).

`StoreProofs` proves, for every set of session ids, every bound on creations, forks, chunks and stops:

* `TypeCorrect`: `Spec => []TypeOK`;
* `Inductive`: `Spec => []IInv`, and from it
* `RestoreIsAlwaysComplete`: `Spec => []RestoreIsComplete`, and `DatabaseIsAlwaysExact`:
  `Spec => []DatabaseIsExact`.

The invariant cannot speak of tables only, since they are behind the bus by whatever is in three
queues. `Followed` says for each session the listener will not announce again that its forwarder is there and that its row,
and each chunk nobody retired or forked, is in the table *to stay* or on its way: a message in the socket lasts only
if no deletion of the session comes after it (`Lasts`), and a row stays only if none is in the socket at all (`NotGone`).
`DeletedThenCreated` says that the deletion of a session that is there again is followed by
its creation, `OneHome` that a chunk nobody copied is in one session, in the bus or in a queue or in
the table, and `Channels` which messages may be where: an insert and the delete signal that would undo it are only in
conflict for ids in `altered`. `OwedReturns` says of a restore that what it owes is still to be sent, on
its way, or back. The proof has one lemma for each way a queue changes and one step per action.

`RegistryProofs` also proves of `BusWatch`, for every number of incarnations, chunks and edits of the tags and all
capacities of the channels:

* `WatchInvariant`: `WatchSpec => []WatchInv`, and from it
* `WatchIsAlwaysExact`: `WatchSpec => []WatchIsExact`.

`WatchInv` says that what was written of an incarnation is the matching part of it up to the position of its
forwarder (`AllWritten`), that an incarnation has one forwarder unless it was created over one whose event was late
(`AttachedOnce`), and that it will be announced once by the events the listener still
holds, if it has none (`AnnouncedOnce`): the receiver is subscribed under the lock under which the snapshot is taken.

`AgentSessionProofs` proves, for every agent (also ones nobody has written), every depth, and any number of
messages, ticks, aborts and calls:

* `AgentInvariant`: `Spec => []AgentInv`, and from it
* `TextIsAlwaysOfTrigger`: `Spec => []TextIsOfTrigger`, and `AnswersAreAlwaysDue`: `Spec => []AnswersAreDue`.

`AgentInv` follows a call through the five places it can be in: a call id is requested once (`RequestedOnce`);
whatever is generated, written, on its way or in the session belongs to a request that came live to its service
and that the service has taken (`WorkIsTaken`); of one call there is one answer at most in all these places together
(`OneAnswer`); and the text of an answer is never behind its completion, neither in the session nor on the
evaluator's connection (`TextFirst`). The proof first shows that each action is one of eight effects (`AgentStep`: nothing is
asked or answered, a request, an arrival, a flush, the beginning and the end of an answer, ...) and then that
each effect keeps each part. The argument for `AnswersAreDue` is that a service which takes a request takes one beyond its
position, and all that was ever taken is at or before it (`TakesFresh`): nothing can be there for that call yet. It needs no assumption on
which tasks are different ones. `TextIsOfTrigger` needs that a text which comes
into the session belongs to no answer that is complete (`NewTexts`); of an answer without a text it says only that the
pipeline's text is no older than the last one there was.

`SelectionProofs` proves `Selection`, on which the proofs of the store, of the screen and of the requests rest: what `Selected` keeps of a
sequence are the chosen elements, each once and in order; and `Recursion`: a function defined by recursion over the numbers exists.

Only model-checked: the type invariants of `MCServices` and `MCTasks`, which put those of their parts together; and everything under
fairness, for liveness and ENABLED are outside TLAPS. An induction theorem of the library cannot be
instantiated with the installed provers, but a statement about every value of a recursive function over the numbers
can be proved by its least counterexample (`Least`, `UpTo` and `Recursion` of `SelectionProofs`), which is how `Selected`,
`ChunkText`, `Built`, `Config`, `Encoded` and `CutInFrames` are reasoned about.

## 6. Findings

1. **A grace period can be cut short** (`ephemeral_grace`, `registry.rs:142`).
   `cancel_scheduled_deletion` cancels nothing, and a timer does not know for which
   departure it was started. A client that leaves, returns and leaves again
   is given what is left of the first grace period. ADR-116:40 promises
   `keepalive_secs` "after the last *counted* subscriber disconnects". What *does*
   hold is `NobodyCutOff`: a stale timer never ends a session that is in use.
2. **A client that leaves during its replay is counted forever**
   (`ephemeral_abandoned`, `client.rs:629`). The subscriber is registered before the replay
   and recorded for the cleanup after it; if `HistoryComplete` cannot be written, the
   record is never made and the ephemeral session never ends (ADR-116:74 says it
   self-destructs).
3. **A late answer of one session is taken by another** (`mcp_stale`,
   `cafe-mcp-client/src/main.rs:168`). Each session counts its ids from the same start on
   servers that all share. The comment at 62-65 says that every tool call gets a unique
   id; that holds within a session (`NoStaleAnswer`), not across.
4. **The store does not reconnect** (`store_reconnect`, `cafe-sdk/src/bus/reconnect.rs:17`). When the
   subscription ends, `connect_and_run` returns `Ok`, which `run_with_reconnect` takes for a
   clean shutdown. ADR-105:10 says "User sessions survive bus restarts"; the restore
   happens only if the store, too, is started again. Other services that use the same
   loop end in the same way.

5. **A tool call that was detected is never executed** (`agent_tools`,
   `cafe-agent-runtime/src/executor.rs:199`). The built-in `tool-detector` queues no completion of its step, so
   nothing triggers the executor that `docs/tutorials/tool-calling-agent.md:46` and
   `agents/dice-llm.toml:17` chain to it.
6. **The session of an answered tool call stays for ever** (`bridge`,
   `cafe-mcp-bridge/src/main.rs:365`). The reader task of the subscription learns that its receiver is gone
   only when it has another message to pass on; the session gets none, so its
   connection, and the session, stay. The comment at 365 says the session will auto-delete.
7. **A completion does not wait for the bytes** (`CompletedIsReadable`, `cafe-binary-store/src/storage.rs:95`). `append`
   never flushes its file: the last write is under way, or fails unnoticed, while the handler removes the marker,
   publishes the completion and answers. ADR-114:37 says the completion signals that the audio is "ready for consumption".
8. **Two uploads of one chunk can both start** (`StartIsRefused`, `storage.rs:32`). Between the look for the marker and
   its creation are awaits; the second request empties the file of the first. The doc comment at 28 says 409.
9. **An agent file in `./agents-js` that is removed stays served** (`GoneIsUnloaded`,
   `cafe-agent-js/src/loader.rs:141`). The registry has the relative path of the scan, the watcher reports the absolute one;
   nothing is found, and a renamed agent keeps its old entry, too (`loader.rs:101`). `main.rs:215` says a path
   that no longer exists unloads its agent. A reload of all files repairs it.
10. **An empty answer is handed on with the text of the one before** (`TextIsOfReply`, `bridge.rs:74`). cafe-llm completes an
   answer that failed or is empty without a text, and both runtimes take the latest text of the history.
   `docs/reference/js-agents.md:93` says `text` is the assembled reply.
11. **The first legacy key wins** (`LaterKeyWins`, `cafe-llm/src/context.rs:247`), although the comment at 175 says that later chunks
   win per key.
12. **The first `!next` after a second `!load` reads chapter 2** (`NextReadsFirst`, `cafe-epub/src/main.rs:239`): `handle_load`
   keeps `started`. The test comment at `narrator.rs:150` says it must read chapter 1.
13. **A document that is indexed twice is there twice** (`DocIdIsKey`, `cafe-knowledgebase/src/index.rs:107`), although ADR-111:43
   calls `doc_id` the primary key.
14. **A text with longer characters can stop the worker of a session** (`SplitsByCharacter`, `index.rs:375`). `chunk_text` slices at byte
   offsets, which panics inside a character; the document's row is written by then, and the caller gets no
   answer. ADR-111:113 says the hard split is by character count.

Observations on the way, which no run states as a violated property:

* *Bus.* A detached forwarder of a closed SubscribeAll ends only at the next matching chunk; an event that is handled late attaches twice.
  `direct_to` writes in the sender's codec.
* *Store.* A restart of the store in the middle of a restore leaves the rest out: the session is
  already there, so it is not restored again. What was deleted while the store was away comes back.
  Sessions the store restored lose their tags in its own table (`SessionCreated` upserts none).
* *SDK.* A negotiation that ends with the connection caches JSON for good; create, delete, fork and
  tags return Ok, and a list or a history comes back in part, if the bus closes before it answers.
* *Readers.* Ollama's pieces are not buffered at all and the event stream reader of the SDK decodes
  each piece alone (`CutsDoNotShow` leaves both out); OpenCode drops the text before an error in one piece.
* *cafe-llm.* An abort that is handled late ends the next generation. A session that is announced twice gets two evaluators.
* *Pipeline.* The tool executor runs every tool call in the history again. `build_rpc_params` looks for the
  url of `rss-fetch` under `config.rss-fetch.url`, while `agents/rss-summarizer.toml:23` and
  `docs/reference/agent-config.md:128` set `config.rss.url`: that pipeline gets an error for each tick (the
  model lets cafe-rss answer either way).
* *cafe-agent-js.* The text of a tool result may reach the bus after the next `llm.invoke`; the
  end of a budget leaves a result without its text; a late `SessionDeleted` tears down the runtime of the
  next incarnation; a file that was broken when cafe-agent-runtime started is later served by both.
* *Evaluators.* comfy, sheetbot, stt and web-fetch publish result and response over
  separate connections, in no certain order; a worker that attaches slowly is replayed
  the request and ignores it, until the caller's 60 s are over.
* *cafe-knowledgebase.* An overlap of the chunk size or more makes
  `chunk_text` run for ever (`NeverEnds`); of two calls that create the table one fails; an index call that runs beside a
  deletion leaves rows behind it.
* *cafe-mcp-client.* A server that stops reading its stdin blocks every session that calls it (`main.rs:404`).
* *Ephemeral sessions.* A counted subscriber that declares another role and subscribes again leaves a session that nobody
  counts in and no timer looks at.
* *cafe-epub.* A crash in the middle of a load resumes the
  old book; a book without chapters panics in `handle_read`.
* *cafe-tui.* Two quick messages: both streams end at the first completion and the second answer is
  shown only after a reload. A stream that is cut, or whose session was deleted, leaves `streaming` set and Enter
  without effect. Escape from the picker leaves another session active than the one on the screen.
* *cafe-binary-store.* A GET returns at most 8 MiB with status 200; the credentials to read are published when the upload starts.

## 7. Not modelled

* Serialisation of fields, tags as strings, presentation, logging.
* cafe-bus: the accept loops and the allowlist; `direct_to` but for cafe-tts and cafe-tui; blocked writers (a client that stops
  reading holds locks in three places), which needs the buffers of sockets as state.
* cafe-store: tags and failures of SQLite.
* cafe-sdk: the iroh transport, the WebSocket client, backpressure of a subscription.
* cafe-llm: several evaluators of one session, the model catalog, requests and headers of backends.
* cafe-agent-runtime: the races of attachment at its start, schema discovery, creation of agent sessions.
* cafe-agent-js: background agents, HTTP operations of a script, the engine.
* cafe-mcp-client: discovery at start; cafe-mcp-bridge: the tools answered inline and the transports.
* cafe-binary-store: reads, tokens, the issue of credentials.
* cafe-server: agents, admin, proxy and binary routes, authentication. The proxy sends its request by
  `direct_to` into a session that nobody creates, so none is ever answered.
* cafe-tui: slash commands other than `/delete`, the model picker, HTTP failures of keys; the local copy of the
  user's message and the server's are one in the set of the screen.
* the HTTP route of cafe-web-fetch and the parser of cafe-rss, cafe-sh, the schedulers and
  watchers, cafe-cli, the web and telegram clients, cafe-demo: I/O without state that others share.

`PROJECT.json` gives the reason for each component. An ephemeral session that nobody counted
ever subscribed to has no timer at all and stays: that is what ADR-116 says too
(the timer starts at a departure), so `UnusedEnds` and `AbandonedEnds` ask for `counted`.

## 8. What could come next

1. Proofs: that `EvaluatorCall` implements an abstract call.
2. Tags in `StorePersistence` and the abstract promise of a store: what is in the tables is what the bus held last.
3. Two evaluators of cafe-llm in `AgentSession`, and the attachment races of cafe-agent-runtime.
4. Sockets with a bounded buffer under the registry lock of cafe-bus.

## 9. Running

    tlc -workers 2 -config MCBusSession.cfg MCBusSession
    tlapm BusSessionProofs.tla

Each property has a *mutant* beside the definition it changes (`SkipsLagged`
for `Lag`, ...): the bug the property is there to notice. No action uses them.
