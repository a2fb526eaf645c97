----------------------------- MODULE TaskProofs -----------------------------
(***************************************************************************)
(* Proofs about the modules whose tasks have to get on.  McpCalls, for any *)
(* sessions, servers and number of calls: an answer is never that of       *)
(* another call, nor lost to another reader.  EvaluatorCall, for any       *)
(* number of crashes: a tool call is executed at most once, and answered   *)
(* only by its execution, however often the evaluator crashes and reads    *)
(* the session again.  JsHost, for any number of sessions, triggers and    *)
(* changes of the source: a session never has two runtimes.                *)
(* KnowledgeBase, for any documents, texts and number of calls: what was   *)
(* indexed is found in full until it is deleted.                           *)
(***************************************************************************)
EXTENDS McpCalls, EvaluatorCall, JsHost, KnowledgeBase, SelectionProofs, FiniteSetTheorems,
        SequenceTheorems, TLAPS

-----------------------------------------------------------------------------
(***************************************************************************)
(* McpCalls                                                                *)
(***************************************************************************)

-----------------------------------------------------------------------------
(* Types. *)

\* A task that holds a mutex uses a server.
LEMMA HoldsServer ==
  ASSUME McpTypeOK, NEW t \in Task, Holds(t)
  PROVE  using[t] \in Server /\ queue[using[t]] \in Seq(Task) /\ queue[using[t]] # <<>>
  BY DEF McpTypeOK, Holds

\* The end of a call preserves the types of what it changes.
LEMMA FinishType ==
  ASSUME McpTypeOK, NEW t \in Task, Holds(t), NEW r \in Call \cup {Failed}, Finish(t, r)
  PROVE  /\ using' \in [Task -> Server \cup {NoServer}]
         /\ expected' \in [Task -> Nat]
         /\ results' \in [Task -> Seq(Call \cup {Failed})]
         /\ queue' \in [Server -> Seq(Task)]
<1>1. using' \in [Task -> Server \cup {NoServer}] /\ expected' \in [Task -> Nat]
  BY DEF Finish, McpTypeOK
<1>2. results' \in [Task -> Seq(Call \cup {Failed})]
  <2>1. Append(results[t], r) \in Seq(Call \cup {Failed})
    BY DEF McpTypeOK
  <2> QED BY <2>1 DEF Finish, McpTypeOK
<1>3. queue' \in [Server -> Seq(Task)]
  <2>1. Tail(queue[using[t]]) \in Seq(Task)
    BY HoldsServer
  <2> QED BY <2>1 DEF Finish, Release, McpTypeOK
<1> QED BY <1>1, <1>2, <1>3

\* Initially every variable has its type.
LEMMA InitType == McpInit => McpTypeOK
  BY DEF McpInit, McpTypeOK

\* The next call of a task is a call.
LEMMA CurrentType ==
  ASSUME McpTypeOK, NEW t \in Task
  PROVE  Current(t) \in Call /\ Len(results[t]) \in Nat
<1>1. results[t] \in Seq(Call \cup {Failed})
  BY DEF McpTypeOK
<1>2. Len(results[t]) \in Nat
  BY <1>1
<1> QED BY <1>2 DEF Current, Call

\* The lines of a server once one was read.
LEMMA ReadLine ==
  ASSUME McpTypeOK, NEW v \in Server, lines[v] # <<>>
  PROVE  /\ Head(lines[v]) \in Line
         /\ Head(lines[v]) = lines[v][1] /\ 1 \in DOMAIN lines[v]
         /\ Tail(lines[v]) \in Seq(Line)
         /\ \A k \in DOMAIN Tail(lines[v]) :
               k + 1 \in DOMAIN lines[v] /\ Tail(lines[v])[k] = lines[v][k + 1]
<1>1. lines[v] \in Seq(Line)
  BY DEF McpTypeOK
<1> QED BY <1>1

\* Every step preserves the types.
LEMMA NextType == McpTypeOK /\ [McpNext]_mcpVars => McpTypeOK'
<1> SUFFICES ASSUME McpTypeOK, [McpNext]_mcpVars PROVE McpTypeOK'
  OBVIOUS
<1>1. ASSUME NEW t \in Task, NEW v \in Server, ToolCall(t, v) PROVE McpTypeOK'
  <2>1. Append(queue[v], t) \in Seq(Task)
    BY DEF McpTypeOK
  <2> QED BY <1>1, <2>1 DEF ToolCall, McpTypeOK
<1>2. ASSUME NEW t \in Task, Send(t) PROVE McpTypeOK'
  <2>1. nextId' \in [Task -> Nat] /\ expected' \in [Task -> Nat]
    BY <1>2 DEF Send, McpTypeOK, After
  <2>2. [id |-> nextId[t], call |-> Current(t)] \in Line
    BY CurrentType DEF Line, McpTypeOK
  <2>3. pending' \in [Server -> SUBSET Line]
    BY <1>2, <2>2 DEF Send, McpTypeOK
  <2> QED BY <1>2, <2>1, <2>3 DEF Send, McpTypeOK
<1>3. ASSUME NEW t \in Task, SendFails(t) PROVE McpTypeOK'
  <2>1. nextId' \in [Task -> Nat]
    BY <1>3 DEF SendFails, McpTypeOK, After
  <2> QED BY <1>3, <2>1, FinishType DEF SendFails, McpTypeOK
<1>4. ASSUME NEW t \in Task, ReadOwn(t) PROVE McpTypeOK'
  <2>1. Holds(t) /\ using[t] \in Server
    BY <1>4, HoldsServer DEF ReadOwn, Reads
  <2>2. Head(lines[using[t]]).call \in Call /\ Tail(lines[using[t]]) \in Seq(Line)
    BY <1>4, <2>1, ReadLine DEF ReadOwn, Line
  <2>3. lines' \in [Server -> Seq(Line)]
    BY <1>4, <2>2 DEF ReadOwn, McpTypeOK
  <2> QED BY <1>4, <2>1, <2>2, <2>3, FinishType DEF ReadOwn, McpTypeOK
<1>5. ASSUME NEW t \in Task, ReadOther(t) PROVE McpTypeOK'
  <2>1. using[t] \in Server
    BY <1>5, HoldsServer DEF ReadOther, Reads
  <2>2. Tail(lines[using[t]]) \in Seq(Line)
    BY <1>5, <2>1, ReadLine DEF ReadOther
  <2>3. lines' \in [Server -> Seq(Line)]
    BY <1>5, <2>2 DEF ReadOther, McpTypeOK
  <2> QED BY <1>5, <2>3 DEF ReadOther, McpTypeOK, task
<1>6. ASSUME NEW t \in Task, TimeOut(t) \/ Disconnected(t) PROVE McpTypeOK'
  BY <1>6, FinishType DEF TimeOut, Disconnected, Reads, McpTypeOK
<1>7. ASSUME NEW v \in Server, NEW r \in pending[v], Answer(v, r) PROVE McpTypeOK'
  <2>1. Append(lines[v], r) \in Seq(Line)
    BY DEF McpTypeOK
  <2>2. lines' \in [Server -> Seq(Line)] /\ pending' \in [Server -> SUBSET Line]
    BY <1>7, <2>1 DEF Answer, McpTypeOK
  <2> QED BY <1>7, <2>2 DEF Answer, McpTypeOK, task
<1>8. ASSUME NEW v \in Server, Exit(v) \/ Deafens(v) \/ ReadsAgain(v) PROVE McpTypeOK'
  BY <1>8 DEF Exit, Deafens, ReadsAgain, McpTypeOK, task
<1>9. CASE UNCHANGED mcpVars
  BY <1>9 DEF mcpVars, McpTypeOK
<1> QED
  BY <1>1, <1>2, <1>3, <1>4, <1>5, <1>6, <1>7, <1>8, <1>9 DEF McpNext, McpTaskStep

\* Every variable always has its type.
THEOREM TypeCorrect == McpSpec => []McpTypeOK
<1>1. McpInit => McpTypeOK
  BY InitType
<1>2. McpTypeOK /\ [McpNext]_mcpVars => McpTypeOK'
  BY NextType
<1> QED BY <1>1, <1>2, PTL DEF McpSpec

-----------------------------------------------------------------------------
(* Ids. *)

\* The id a task counts with is ahead of its ended calls by what the handshake used.
LEMMA NextNumbered == McpIInv /\ [McpNext]_mcpVars => \A t \in Task : Numbered(t)'
<1> SUFFICES ASSUME McpTypeOK, [McpNext]_mcpVars, NEW s \in Task, Numbered(s)
             PROVE  Numbered(s)'
  BY DEF McpIInv
<1>1. results[s] \in Seq(Call \cup {Failed}) /\ nextId[s] \in Nat /\ expected[s] \in Nat
      /\ Len(results[s]) \in Nat
  BY DEF McpTypeOK
<1>2. ASSUME nextId'[s] = nextId[s], expected'[s] = expected[s], results'[s] = results[s]
      PROVE  Numbered(s)'
  BY <1>2 DEF Numbered
<1>3. ASSUME NEW t \in Task, Send(t) PROVE Numbered(s)'
  <2>1. CASE t = s
    <3>1. expected[s] = 0 /\ nextId'[s] = nextId[s] + 1 /\ expected'[s] = nextId[s]
          /\ results' = results
      BY <1>3, <2>1 DEF Send, After, McpTypeOK
    <3> QED BY <1>1, <3>1 DEF Numbered
  <2>2. CASE t # s
    BY <1>2, <1>3, <2>2 DEF Send, McpTypeOK
  <2> QED BY <2>1, <2>2
<1>4. ASSUME NEW t \in Task, NEW r, Finish(t, r), t # s, nextId'[s] = nextId[s]
      PROVE  Numbered(s)'
  BY <1>2, <1>4 DEF Finish, McpTypeOK
<1>5. ASSUME NEW r, Finish(s, r)
      PROVE  Len(results'[s]) = Len(results[s]) + 1 /\ expected'[s] = 0
  <2>1. results'[s] = Append(results[s], r) /\ expected'[s] = 0
    BY <1>5 DEF Finish, McpTypeOK
  <2> QED BY <1>1, <2>1
<1>6. ASSUME NEW t \in Task, SendFails(t) PROVE Numbered(s)'
  <2>1. CASE t = s
    <3>1. expected[s] = 0 /\ nextId'[s] = nextId[s] + 1
      BY <1>6, <2>1 DEF SendFails, After, McpTypeOK
    <3> QED BY <1>1, <1>5, <1>6, <2>1, <3>1 DEF SendFails, Numbered
  <2>2. CASE t # s
    BY <1>4, <1>6, <2>2 DEF SendFails, McpTypeOK
  <2> QED BY <2>1, <2>2
<1>7. ASSUME NEW t \in Task, ReadOwn(t) \/ TimeOut(t) \/ Disconnected(t)
      PROVE  Numbered(s)'
  <2>1. PICK r : Finish(t, r)
    BY <1>7 DEF ReadOwn, TimeOut, Disconnected
  <2>2. nextId' = nextId /\ expected[t] # 0
    BY <1>7 DEF ReadOwn, TimeOut, Disconnected, Reads
  <2>3. CASE t = s
    BY <1>1, <1>5, <2>1, <2>2, <2>3 DEF Numbered
  <2>4. CASE t # s
    BY <1>4, <2>1, <2>2, <2>4
  <2> QED BY <2>3, <2>4
<1>8. CASE UNCHANGED <<nextId, expected, results>>
  BY <1>2, <1>8
<1> QED
  BY <1>3, <1>6, <1>7, <1>8
  DEF McpNext, McpTaskStep, ToolCall, ReadOther, Answer, Deafens, ReadsAgain, Exit, mcpVars, task

\* Requests carry the number of their call.
LEMMA NextPending ==
  McpIInv /\ [McpNext]_mcpVars => \A v \in Server : \A r \in pending'[v] : IdIsNumber(r)
<1> SUFFICES ASSUME McpIInv, [McpNext]_mcpVars, NEW v \in Server, NEW r \in pending'[v]
             PROVE  IdIsNumber(r)
  OBVIOUS
<1>1. McpTypeOK /\ (r \in pending[v] => IdIsNumber(r))
  BY DEF McpIInv
<1>2. ASSUME NEW t \in Task, Send(t) PROVE IdIsNumber(r)
  <2>1. r \in pending[v] \/ r = [id |-> nextId[t], call |-> Current(t)]
    BY <1>1, <1>2 DEF Send, McpTypeOK
  <2>2. nextId[t] = Len(results[t]) + 4
    BY <1>2 DEF McpIInv, Numbered, Send
  <2> QED BY <1>1, <2>1, <2>2, CurrentType DEF IdIsNumber, Current
<1>3. ASSUME NEW w \in Server, NEW q \in pending[w], Answer(w, q) PROVE IdIsNumber(r)
  BY <1>1, <1>3 DEF Answer, McpTypeOK
<1>4. ASSUME NEW w \in Server, Exit(w) PROVE IdIsNumber(r)
  BY <1>1, <1>4 DEF Exit, McpTypeOK
<1>5. CASE UNCHANGED pending
  BY <1>1, <1>5
<1> QED
  BY <1>2, <1>3, <1>4, <1>5
  DEF McpNext, McpTaskStep, ToolCall, SendFails, ReadOwn, ReadOther, TimeOut, Disconnected, Deafens, ReadsAgain, mcpVars

\* Answers carry the number of their call.
LEMMA NextLines ==
  McpIInv /\ [McpNext]_mcpVars => \A v \in Server : \A k \in DOMAIN lines'[v] : IdIsNumber(lines'[v][k])
<1> SUFFICES ASSUME McpIInv, [McpNext]_mcpVars, NEW v \in Server, NEW k \in DOMAIN lines'[v]
             PROVE  IdIsNumber(lines'[v][k])
  OBVIOUS
<1>1. McpTypeOK /\ \A j \in DOMAIN lines[v] : IdIsNumber(lines[v][j])
  BY DEF McpIInv
<1>2. ASSUME NEW t \in Task, ReadOwn(t) \/ ReadOther(t) PROVE IdIsNumber(lines'[v][k])
  <2>1. using[t] \in Server /\ lines[using[t]] # <<>>
    BY <1>1, <1>2, HoldsServer DEF ReadOwn, ReadOther, Reads
  <2>2. lines' = [lines EXCEPT ![using[t]] = Tail(@)]
    BY <1>2 DEF ReadOwn, ReadOther
  <2>3. CASE using[t] = v
    <3>1. lines'[v] = Tail(lines[v])
      BY <1>1, <2>2, <2>3 DEF McpTypeOK
    <3> QED BY <1>1, <2>1, <2>3, <3>1, ReadLine
  <2>4. CASE using[t] # v
    <3>1. lines'[v] = lines[v]
      BY <1>1, <2>1, <2>2, <2>4 DEF McpTypeOK
    <3> QED BY <1>1, <3>1
  <2> QED BY <2>3, <2>4
<1>3. ASSUME NEW w \in Server, NEW r \in pending[w], Answer(w, r)
      PROVE  IdIsNumber(lines'[v][k])
  <2>1. IdIsNumber(r)
    BY DEF McpIInv
  <2>2. CASE w = v
    <3>1. lines'[v] = Append(lines[v], r) /\ lines[v] \in Seq(Line)
      BY <1>1, <1>3, <2>2 DEF Answer, McpTypeOK
    <3>2. lines'[v][k] = r \/ (k \in DOMAIN lines[v] /\ lines'[v][k] = lines[v][k])
      BY <3>1
    <3> QED BY <1>1, <2>1, <3>2
  <2>3. CASE w # v
    BY <1>1, <1>3, <2>3 DEF Answer, McpTypeOK
  <2> QED BY <2>2, <2>3
<1>4. CASE UNCHANGED lines
  BY <1>1, <1>4
<1> QED
  BY <1>2, <1>3, <1>4
  DEF McpNext, McpTaskStep, ToolCall, Send, SendFails, TimeOut, Disconnected, Deafens, ReadsAgain, Exit, mcpVars

\* A call that ends with an answer of its own session ends with its own answer.
LEMMA NextResults == McpIInv /\ [McpNext]_mcpVars => NoStaleAnswer'
<1> SUFFICES ASSUME McpIInv, [McpNext]_mcpVars, NEW s \in Task, NEW n \in DOMAIN results'[s],
                    results'[s][n] # Failed, results'[s][n].session = s
             PROVE  results'[s][n].number = n
  BY DEF NoStaleAnswer
<1>1. McpTypeOK /\ NoStaleAnswer
  BY DEF McpIInv
<1>2. results[s] \in Seq(Call \cup {Failed})
  BY <1>1 DEF McpTypeOK
<1>3. ASSUME n \in DOMAIN results[s], results'[s][n] = results[s][n]
      PROVE  results'[s][n].number = n
  BY <1>1, <1>3 DEF NoStaleAnswer
<1>4. ASSUME NEW t \in Task, NEW r, Finish(t, r), t = s => r = Failed \/ r.number = Len(results[s]) + 1
      PROVE  results'[s][n].number = n
  <2>1. CASE t = s
    <3>1. results'[s] = Append(results[s], r)
      BY <1>1, <1>4, <2>1 DEF Finish, McpTypeOK
    <3>2. \/ n \in DOMAIN results[s] /\ results'[s][n] = results[s][n]
          \/ n = Len(results[s]) + 1 /\ results'[s][n] = r
      BY <1>2, <3>1
    <3> QED BY <1>3, <1>4, <2>1, <3>2
  <2>2. CASE t # s
    <3>1. results'[s] = results[s]
      BY <1>1, <1>4, <2>2 DEF Finish, McpTypeOK
    <3> QED BY <1>3, <3>1
  <2> QED BY <2>1, <2>2
<1>5. ASSUME NEW t \in Task, SendFails(t) \/ TimeOut(t) \/ Disconnected(t)
      PROVE  results'[s][n].number = n
  BY <1>4, <1>5 DEF SendFails, TimeOut, Disconnected
<1>6. ASSUME NEW t \in Task, ReadOwn(t) PROVE results'[s][n].number = n
  <2> DEFINE line == Head(lines[using[t]])
  <2>1. using[t] \in Server /\ lines[using[t]] # <<>>
    BY <1>1, <1>6, HoldsServer DEF ReadOwn, Reads
  <2>2. IdIsNumber(line) /\ line \in Line
    BY <1>1, <2>1, ReadLine DEF McpIInv
  <2>3. line.id = expected[t] /\ expected[t] = Len(results[t]) + 4
    BY <1>6 DEF ReadOwn, Reads, McpIInv, Numbered
  <2>4. line.call.number = Len(results[t]) + 1
    BY <1>1, <2>2, <2>3, CurrentType DEF IdIsNumber, Line, Call
  <2> QED BY <1>4, <1>6, <2>4 DEF ReadOwn
<1>7. CASE UNCHANGED results
  BY <1>1, <1>7, <1>3
<1> QED
  BY <1>5, <1>6, <1>7
  DEF McpNext, McpTaskStep, ToolCall, Send, ReadOther, Answer, Deafens, ReadsAgain, Exit, mcpVars, task

\* The conjunction NoStaleAnswer rests on: ids and numbers of calls agree.
THEOREM Inductive == McpSpec => []McpIInv
<1>1. McpInit => McpIInv
  <2> SUFFICES ASSUME McpInit PROVE McpIInv
    OBVIOUS
  <2>1. \A t \in Task : Numbered(t)
    <3>1. \A t \in Task : expected[t] = 0 /\ nextId[t] = 4 /\ results[t] = <<>>
      BY DEF McpInit
    <3>2. Len(<<>>) + 4 = 4
      OBVIOUS
    <3> QED BY <3>1, <3>2 DEF Numbered
  <2> QED BY <2>1, InitType DEF McpInit, McpIInv, NoStaleAnswer
<1>2. McpIInv /\ [McpNext]_mcpVars => McpIInv'
  <2> SUFFICES ASSUME McpIInv, [McpNext]_mcpVars PROVE McpIInv'
    OBVIOUS
  <2>1. McpTypeOK' /\ NoStaleAnswer' /\ \A t \in Task : Numbered(t)'
    BY NextType, NextResults, NextNumbered DEF McpIInv
  <2>2. \A v \in Server : \A r \in pending'[v] : IdIsNumber(r)
    BY NextPending
  <2>3. \A v \in Server : \A k \in DOMAIN lines'[v] : IdIsNumber(lines'[v][k])
    BY NextLines
  <2> QED BY <2>1, <2>2, <2>3 DEF McpIInv, IdIsNumber
<1> QED BY <1>1, <1>2, PTL DEF McpSpec

\* However late the server answers, no call takes the answer to another call of its
\* session for its own.
THEOREM NeverStaleInSession == McpSpec => []NoStaleAnswer
<1>1. McpIInv => NoStaleAnswer
  BY DEF McpIInv
<1> QED BY <1>1, Inductive, PTL

-----------------------------------------------------------------------------
(* The mutexes of the servers. *)

\* The mutex of a server: who waits for it or holds it uses the server, and stands in the
\* queue once; who reads for an answer holds it.
Queued ==
    /\ \A v \in Server : \A k \in DOMAIN queue[v] : using[queue[v][k]] = v
    /\ \A v \in Server : \A j, k \in DOMAIN queue[v] : queue[v][j] = queue[v][k] => j = k

ReaderHolds == \A t \in Task : expected[t] # 0 => Holds(t)

\* A request or an answer of a server is for a call that was made; that of a call that has
\* not ended is the one its task reads for, at that server.
Sought(v, r) ==
    /\ \A t \in Task : r.call.session = t => r.call.number <= Len(results[t]) + 1
    /\ \A t \in Task : r.call = Current(t) => expected[t] # 0 /\ using[t] = v /\ r.id = expected[t]

SoughtIsRead ==
    /\ \A v \in Server : \A r \in pending[v] : Sought(v, r)
    /\ \A v \in Server : \A k \in DOMAIN lines[v] : Sought(v, lines[v][k])

MutexIInv == McpIInv /\ Queued /\ ReaderHolds /\ SoughtIsRead

\* A queue once its head is gone.
LEMMA Dequeued ==
  ASSUME McpTypeOK, NEW v \in Server, queue[v] # <<>>
  PROVE  /\ 1 \in DOMAIN queue[v] /\ Head(queue[v]) = queue[v][1]
         /\ \A k \in DOMAIN Tail(queue[v]) :
               k + 1 \in DOMAIN queue[v] /\ Tail(queue[v])[k] = queue[v][k + 1] /\ k + 1 # 1 /\ k \in Nat
<1>1. queue[v] \in Seq(Task)
  BY DEF McpTypeOK
<1> QED BY <1>1

\* A queue with one more task at its end.
LEMMA Enqueued ==
  ASSUME McpTypeOK, NEW v \in Server, NEW t \in Task
  PROVE  /\ \A k \in DOMAIN Append(queue[v], t) :
               \/ k \in DOMAIN queue[v] /\ Append(queue[v], t)[k] = queue[v][k]
               \/ k = Len(queue[v]) + 1 /\ Append(queue[v], t)[k] = t
         /\ Append(queue[v], t) # <<>>
         /\ queue[v] # <<>> => Head(Append(queue[v], t)) = Head(queue[v])
         /\ Len(queue[v]) + 1 \notin DOMAIN queue[v]
         /\ Len(queue[v]) \in Nat
<1>1. queue[v] \in Seq(Task)
  BY DEF McpTypeOK
<1> QED BY <1>1

\* Two tasks do not hold the mutex of one server.
LEMMA OneHolder ==
  ASSUME NEW t \in Task, NEW u \in Task, Holds(t), Holds(u), using[t] = using[u]
  PROVE  t = u
  BY DEF Holds

\* What a call that ends leaves to the others.
LEMMA FinishReleases ==
  ASSUME McpTypeOK, Queued, ReaderHolds, NEW t \in Task, Holds(t), NEW r, Finish(t, r)
  PROVE  Queued' /\ ReaderHolds'
<1> DEFINE v == using[t]
<1>1. v \in Server /\ queue[v] # <<>> /\ Head(queue[v]) = t /\ v # NoServer
  BY HoldsServer, ServerAssumption DEF Holds
<1>2. /\ queue' = [queue EXCEPT ![v] = Tail(queue[v])]
      /\ using' = [using EXCEPT ![t] = NoServer]
      /\ expected' = [expected EXCEPT ![t] = 0]
  BY DEF Finish, Release
<1>3. queue'[v] = Tail(queue[v]) /\ \A w \in Server : w # v => queue'[w] = queue[w]
  BY <1>1, <1>2 DEF McpTypeOK
<1>4. \A u \in Task : u # t => using'[u] = using[u] /\ expected'[u] = expected[u]
  BY <1>2 DEF McpTypeOK
<1>5. expected'[t] = 0
  BY <1>2 DEF McpTypeOK
<1>6. /\ 1 \in DOMAIN queue[v] /\ queue[v][1] = t
      /\ \A k \in DOMAIN queue'[v] :
            k + 1 \in DOMAIN queue[v] /\ queue'[v][k] = queue[v][k + 1] /\ k + 1 # 1 /\ k \in Nat
  BY <1>1, <1>3, Dequeued
<1>7. \A w \in Server : \A k \in DOMAIN queue[w] : queue[w][k] \in Task
  BY DEF McpTypeOK
<1> HIDE DEF v
<1>8. Queued'
  <2>1. ASSUME NEW k \in DOMAIN queue'[v] PROVE using'[queue'[v][k]] = v
    <3>1. queue[v][k + 1] # t
      BY <1>1, <1>6, <2>1 DEF Queued
    <3> QED BY <1>1, <1>4, <1>6, <1>7, <2>1, <3>1 DEF Queued
  <2>2. ASSUME NEW w \in Server, w # v, NEW k \in DOMAIN queue'[w] PROVE using'[queue'[w][k]] = w
    <3>1. k \in DOMAIN queue[w] /\ queue'[w][k] = queue[w][k] /\ using[queue[w][k]] = w
      BY <1>3, <2>2 DEF Queued
    <3>2. queue[w][k] # t
      BY <2>2, <3>1 DEF v
    <3> QED BY <1>4, <1>7, <3>1, <3>2
  <2>3. ASSUME NEW j \in DOMAIN queue'[v], NEW k \in DOMAIN queue'[v], queue'[v][j] = queue'[v][k]
        PROVE  j = k
    <3>1. j + 1 = k + 1 /\ j \in Nat /\ k \in Nat
      BY <1>1, <1>6, <2>3 DEF Queued
    <3> QED BY <3>1
  <2> QED BY <1>3, <2>1, <2>2, <2>3 DEF Queued
<1>9. ReaderHolds'
  <2> SUFFICES ASSUME NEW u \in Task, expected'[u] # 0 PROVE Holds(u)'
    BY DEF ReaderHolds
  <2>1. u # t /\ Holds(u)
    BY <1>4, <1>5 DEF ReaderHolds
  <2>2. using[u] # v /\ using[u] \in Server
    BY <2>1, OneHolder, HoldsServer DEF v
  <2> QED BY <1>3, <1>4, <2>1, <2>2 DEF Holds
<1> QED BY <1>8, <1>9

\* What is sought stays so when a call ends: it is no longer the answer to a call under way.
LEMMA FinishSeeks ==
  ASSUME McpTypeOK, NEW t \in Task, NEW r, Finish(t, r),
         NEW v \in Server, NEW q \in Line, Sought(v, q)
  PROVE  Sought(v, q)'
<1>1. Len(results'[t]) = Len(results[t]) + 1 /\ Len(results[t]) \in Nat
  <2>1. results[t] \in Seq(Call \cup {Failed}) /\ results'[t] = Append(results[t], r)
    BY DEF Finish, McpTypeOK
  <2> QED BY <2>1
<1>2. \A u \in Task : u # t => /\ results'[u] = results[u] /\ using'[u] = using[u]
                               /\ expected'[u] = expected[u]
  BY DEF Finish, McpTypeOK
<1>3. q.call.number \in Nat
  BY DEF Line, Call
<1>4. ASSUME NEW u \in Task, q.call.session = u
      PROVE  q.call.number <= Len(results'[u]) + 1
  BY <1>1, <1>2, <1>3, <1>4 DEF Sought
<1>5. ASSUME NEW u \in Task, q.call = Current(u)'
      PROVE  expected'[u] # 0 /\ using'[u] = v /\ q.id = expected'[u]
  <2>1. CASE u = t
    <3>1. q.call.session = t /\ q.call.number = Len(results[t]) + 2
      BY <1>1, <1>5, <2>1 DEF Current
    <3> QED BY <1>1, <3>1 DEF Sought
  <2>2. CASE u # t
    BY <1>2, <1>5, <2>2 DEF Sought, Current
  <2> QED BY <2>1, <2>2
<1> QED BY <1>4, <1>5 DEF Sought

\* Who uses, reads and has ended is the same: so is what is sought.
LEMMA SoughtStays ==
  ASSUME NEW v, NEW q, Sought(v, q), UNCHANGED <<using, expected, results>>
  PROVE  Sought(v, q)'
  BY DEF Sought, Current

\* Every step preserves the queues and that who reads holds the mutex.
LEMMA NextQueues ==
  MutexIInv /\ [McpNext]_mcpVars => Queued' /\ ReaderHolds'
<1> SUFFICES ASSUME MutexIInv, [McpNext]_mcpVars PROVE Queued' /\ ReaderHolds'
  OBVIOUS
<1>1. McpTypeOK /\ Queued /\ ReaderHolds
  BY DEF MutexIInv, McpIInv
<1>2. ASSUME NEW t \in Task, NEW v \in Server, ToolCall(t, v) PROVE Queued' /\ ReaderHolds'
  <2>1. /\ using[t] = NoServer /\ expected' = expected
        /\ using'[t] = v /\ \A u \in Task : u # t => using'[u] = using[u]
        /\ queue'[v] = Append(queue[v], t) /\ \A w \in Server : w # v => queue'[w] = queue[w]
    BY <1>1, <1>2 DEF ToolCall, McpTypeOK
  <2>2. /\ \A k \in DOMAIN queue'[v] :
               \/ k \in DOMAIN queue[v] /\ queue'[v][k] = queue[v][k]
               \/ k = Len(queue[v]) + 1 /\ queue'[v][k] = t
        /\ queue'[v] # <<>>
        /\ queue[v] # <<>> => Head(queue'[v]) = Head(queue[v])
    BY <1>1, <2>1, Enqueued
  <2>3. \A w \in Server : \A k \in DOMAIN queue[w] : queue[w][k] \in Task /\ queue[w][k] # t
    <3>1. \A w \in Server : \A k \in DOMAIN queue[w] : queue[w][k] \in Task
      BY <1>1 DEF McpTypeOK
    <3> QED BY <1>1, <2>1, <3>1, ServerAssumption DEF Queued
  <2>4. Queued'
    <3>1. ASSUME NEW w \in Server, NEW k \in DOMAIN queue'[w] PROVE using'[queue'[w][k]] = w
      BY <1>1, <2>1, <2>2, <2>3, <3>1 DEF Queued
    <3>2. ASSUME NEW w \in Server, NEW j \in DOMAIN queue'[w], NEW k \in DOMAIN queue'[w],
                 queue'[w][j] = queue'[w][k]
          PROVE  j = k
      BY <1>1, <2>1, <2>2, <2>3, <3>2, SMTT(60) DEF Queued
    <3> QED BY <3>1, <3>2 DEF Queued
  <2>5. ReaderHolds'
    <3> SUFFICES ASSUME NEW u \in Task, expected[u] # 0 PROVE Holds(u)'
      BY <2>1 DEF ReaderHolds
    <3>1. Holds(u) /\ u # t /\ using[u] \in Server
      BY <1>1, <2>1, HoldsServer DEF ReaderHolds, Holds
    <3> QED BY <2>1, <2>2, <3>1 DEF Holds
  <2> QED BY <2>4, <2>5
<1>3. ASSUME NEW t \in Task, Send(t) PROVE Queued' /\ ReaderHolds'
  <2>1. Queued' /\ Holds(t)' /\ \A u \in Task : Holds(u) => Holds(u)'
    BY <1>1, <1>3 DEF Send, Queued, Holds
  <2>2. \A u \in Task : u # t => expected'[u] = expected[u]
    BY <1>1, <1>3 DEF Send, McpTypeOK
  <2> QED BY <1>1, <2>1, <2>2 DEF ReaderHolds
<1>4. ASSUME NEW t \in Task, SendFails(t) \/ ReadOwn(t) \/ TimeOut(t) \/ Disconnected(t)
      PROVE  Queued' /\ ReaderHolds'
  <2>1. Holds(t) /\ \E r : Finish(t, r)
    BY <1>4 DEF SendFails, ReadOwn, TimeOut, Disconnected, Reads
  <2> QED BY <1>1, <2>1, FinishReleases
<1>5. CASE UNCHANGED <<using, queue, expected>>
  BY <1>1, <1>5 DEF Queued, ReaderHolds, Holds
<1> QED
  BY <1>2, <1>3, <1>4, <1>5 DEF McpNext, McpTaskStep, ReadOther, Answer, Deafens, ReadsAgain, Exit, mcpVars, task

\* Every step preserves that what is sought is read for.
LEMMA NextSought ==
  MutexIInv /\ [McpNext]_mcpVars => SoughtIsRead'
<1> SUFFICES ASSUME MutexIInv, [McpNext]_mcpVars PROVE SoughtIsRead'
  OBVIOUS
<1>1. McpTypeOK /\ SoughtIsRead /\ ReaderHolds
  BY DEF MutexIInv, McpIInv
<1>2. /\ \A v \in Server : \A r \in pending[v] : r \in Line
      /\ \A v \in Server : \A k \in DOMAIN lines[v] : lines[v][k] \in Line
  BY <1>1 DEF McpTypeOK
<1>3. ASSUME NEW t \in Task, NEW v \in Server, ToolCall(t, v) PROVE SoughtIsRead'
  <2>1. /\ UNCHANGED <<expected, results, pending, lines>> /\ using[t] = NoServer
        /\ \A u \in Task : u # t => using'[u] = using[u]
    BY <1>1, <1>3 DEF ToolCall, McpTypeOK
  <2>2. ASSUME NEW w \in Server, NEW q, Sought(w, q) PROVE Sought(w, q)'
    <3>1. \A u \in Task : q.call = Current(u) => u # t
      BY <2>1, <2>2, ServerAssumption DEF Sought
    <3> QED BY <2>1, <2>2, <3>1 DEF Sought, Current
  <2> QED BY <1>1, <2>1, <2>2 DEF SoughtIsRead
<1>4. ASSUME NEW t \in Task, Send(t) PROVE SoughtIsRead'
  <2>0. PICK m : m = [id |-> nextId[t], call |-> Current(t)]
    OBVIOUS
  <2>1. /\ UNCHANGED <<using, results, lines>> /\ expected[t] = 0
        /\ expected'[t] = nextId[t] /\ \A u \in Task : u # t => expected'[u] = expected[u]
        /\ \A w \in Server : \A q \in pending'[w] : q \in pending[w] \/ (w = using[t] /\ q = m)
    BY <1>1, <1>4, <2>0 DEF Send, McpTypeOK
  <2>2. nextId[t] # 0 /\ Len(results[t]) \in Nat
    <3>1. nextId[t] = Len(results[t]) + 4
      BY <2>1 DEF MutexIInv, McpIInv, Numbered
    <3> QED BY <1>1, <3>1, CurrentType
  <2>3. ASSUME NEW w \in Server, NEW q, Sought(w, q) PROVE Sought(w, q)'
    <3>1. \A u \in Task : q.call = Current(u) => u # t
      BY <2>1, <2>3 DEF Sought
    <3> QED BY <2>1, <2>3, <3>1 DEF Sought, Current
  <2>4. ASSUME NEW w \in Server, w = using[t] PROVE Sought(w, m)'
    <3>1. m.call.session = t /\ m.call.number = Len(results'[t]) + 1 /\ m.id = nextId[t]
      BY <2>0, <2>1 DEF Current
    <3>2. \A u \in Task : m.call = Current(u)' => u = t
      BY <2>0, <2>1 DEF Current
    <3>3. Len(results'[t]) + 1 <= Len(results'[t]) + 1
      BY <2>1, <2>2
    <3> QED BY <2>1, <2>2, <2>4, <3>1, <3>2, <3>3 DEF Sought
  <2> QED BY <1>1, <2>1, <2>3, <2>4 DEF SoughtIsRead
<1>5. ASSUME NEW t \in Task, NEW r, Finish(t, r), NEW w \in Server, NEW q \in Line, Sought(w, q)
      PROVE  Sought(w, q)'
  BY <1>1, <1>5, FinishSeeks
<1>6. ASSUME NEW t \in Task, SendFails(t) \/ TimeOut(t) \/ Disconnected(t) PROVE SoughtIsRead'
  <2>1. UNCHANGED <<pending, lines>> /\ \E r : Finish(t, r)
    BY <1>6 DEF SendFails, TimeOut, Disconnected
  <2> QED BY <1>1, <1>2, <1>5, <2>1 DEF SoughtIsRead
<1>7. ASSUME NEW t \in Task, ReadOwn(t) \/ ReadOther(t),
             NEW w \in Server, NEW k \in DOMAIN lines'[w]
      PROVE  \E j \in DOMAIN lines[w] : lines'[w][k] = lines[w][j]
  <2>1. using[t] \in Server /\ lines[using[t]] # <<>> /\ lines' = [lines EXCEPT ![using[t]] = Tail(@)]
    BY <1>1, <1>7, HoldsServer DEF ReadOwn, ReadOther, Reads
  <2>2. CASE using[t] = w
    <3>1. lines'[w] = Tail(lines[w])
      BY <1>1, <2>1, <2>2 DEF McpTypeOK
    <3> QED BY <1>1, <1>7, <2>1, <2>2, <3>1, ReadLine
  <2>3. CASE using[t] # w
    <3>1. lines'[w] = lines[w]
      BY <1>1, <2>1, <2>3 DEF McpTypeOK
    <3> QED BY <1>7, <3>1
  <2> QED BY <2>2, <2>3
<1>8. ASSUME NEW t \in Task, ReadOwn(t) PROVE SoughtIsRead'
  <2>1. pending' = pending /\ \E r : Finish(t, r)
    BY <1>8 DEF ReadOwn
  <2> QED BY <1>1, <1>2, <1>5, <1>7, <1>8, <2>1 DEF SoughtIsRead
<1>9. ASSUME NEW t \in Task, ReadOther(t) PROVE SoughtIsRead'
  <2>1. pending' = pending /\ UNCHANGED <<using, expected, results>>
    BY <1>9 DEF ReadOther, task
  <2> QED BY <1>1, <1>7, <1>9, <2>1, SoughtStays DEF SoughtIsRead
<1>10. ASSUME NEW v \in Server, NEW r \in pending[v], Answer(v, r) PROVE SoughtIsRead'
  <2>1. /\ UNCHANGED <<using, expected, results>>
        /\ \A w \in Server : pending'[w] \subseteq pending[w]
    BY <1>1, <1>10 DEF Answer, task, McpTypeOK
  <2>2. ASSUME NEW w \in Server, NEW k \in DOMAIN lines'[w]
        PROVE  \/ \E j \in DOMAIN lines[w] : lines'[w][k] = lines[w][j]
               \/ w = v /\ lines'[w][k] = r
    <3>1. CASE w = v
      <4>1. lines'[v] = Append(lines[v], r) /\ lines[v] \in Seq(Line)
        BY <1>1, <1>10 DEF Answer, McpTypeOK
      <4> QED BY <2>2, <3>1, <4>1
    <3>2. CASE w # v
      BY <1>1, <1>10, <2>2, <3>2 DEF Answer, McpTypeOK
    <3> QED BY <3>1, <3>2
  <2> QED BY <1>1, <2>1, <2>2, SoughtStays DEF SoughtIsRead
<1>11. ASSUME NEW v \in Server, Exit(v) \/ Deafens(v) \/ ReadsAgain(v) PROVE SoughtIsRead'
  <2>1. /\ UNCHANGED <<using, expected, results, lines>>
        /\ \A w \in Server : pending'[w] \subseteq pending[w]
    BY <1>1, <1>11 DEF Exit, Deafens, ReadsAgain, task, McpTypeOK
  <2> QED BY <1>1, <2>1, SoughtStays DEF SoughtIsRead
<1>12. CASE UNCHANGED mcpVars
  BY <1>1, <1>12, SoughtStays DEF SoughtIsRead, mcpVars
<1> QED
  BY <1>3, <1>4, <1>6, <1>8, <1>9, <1>10, <1>11, <1>12 DEF McpNext, McpTaskStep

\* While a request is out, its task holds the mutex of the server it was sent to.
THEOREM MutexInductive == McpSpec => []MutexIInv
<1>1. McpInit => Queued /\ ReaderHolds /\ SoughtIsRead
  BY DEF McpInit, Queued, ReaderHolds, SoughtIsRead
<1>2. MutexIInv /\ [McpNext]_mcpVars /\ McpIInv' => MutexIInv'
  BY NextQueues, NextSought DEF MutexIInv
<1>3. McpIInv /\ Queued /\ ReaderHolds /\ SoughtIsRead <=> MutexIInv
  BY DEF MutexIInv
<1> QED BY <1>1, <1>2, <1>3, Inductive, PTL DEF McpSpec

\* What a task waits for is not taken by another reader.
LEMMA ReadersKeep ==
  ASSUME MutexIInv, [McpNext]_mcpVars, NEW t \in Task, NEW v \in Server,
         NEW k \in DOMAIN lines[v], lines[v][k].call = Current(t), results'[t] = results[t]
  PROVE  \E j \in DOMAIN lines'[v] : lines'[v][j] = lines[v][k]
<1>1. McpTypeOK
  BY DEF MutexIInv, McpIInv
<1>2. expected[t] # 0 /\ using[t] = v /\ lines[v][k].id = expected[t] /\ Holds(t)
  BY DEF MutexIInv, SoughtIsRead, Sought, ReaderHolds
<1>3. lines[v] \in Seq(Line)
  BY <1>1 DEF McpTypeOK
<1>4. ASSUME NEW u \in Task, ReadOwn(u) PROVE using[u] # v
  <2>1. CASE u = t
    <3>1. results'[t] = Append(results[t], Head(lines[using[t]]).call) /\ results[t] \in Seq(Call \cup {Failed})
      BY <1>1, <1>4, <2>1 DEF ReadOwn, Finish, McpTypeOK
    <3>2. Len(results'[t]) = Len(results[t]) + 1 /\ Len(results[t]) \in Nat
      BY <3>1
    <3> QED BY <3>2
  <2>2. CASE u # t
    BY <1>2, <1>4, <2>2, OneHolder DEF ReadOwn, Reads
  <2> QED BY <2>1, <2>2
<1>5. ASSUME NEW u \in Task, ReadOwn(u) \/ ReadOther(u), using[u] # v PROVE lines'[v] = lines[v]
  BY <1>1, <1>5, HoldsServer DEF ReadOwn, ReadOther, Reads, McpTypeOK
<1>6. ASSUME NEW u \in Task, ReadOther(u), using[u] = v
      PROVE  \E j \in DOMAIN lines'[v] : lines'[v][j] = lines[v][k]
  <2>1. u = t
    BY <1>2, <1>6, OneHolder DEF ReadOther, Reads
  <2>2. Head(lines[v]).id # lines[v][k].id /\ lines'[v] = Tail(lines[v]) /\ lines[v] # <<>>
    BY <1>1, <1>2, <1>6, <2>1 DEF ReadOther, McpTypeOK
  <2>3. k # 1 /\ k \in 1..Len(lines[v])
    BY <1>3, <2>2
  <2>4. k - 1 \in DOMAIN lines'[v] /\ lines'[v][k - 1] = lines[v][k]
    BY <1>3, <2>2, <2>3
  <2> QED BY <2>4
<1>7. ASSUME NEW w \in Server, NEW r \in pending[w], Answer(w, r)
      PROVE  \E j \in DOMAIN lines'[v] : lines'[v][j] = lines[v][k]
  <2>1. lines'[v] = lines[v] \/ lines'[v] = Append(lines[v], r)
    BY <1>1, <1>7 DEF Answer, McpTypeOK
  <2> QED BY <1>3, <2>1
<1>8. CASE UNCHANGED lines
  BY <1>8
<1> QED
  BY <1>4, <1>5, <1>6, <1>7, <1>8
  DEF McpNext, McpTaskStep, ToolCall, Send, SendFails, TimeOut, Disconnected, Deafens, ReadsAgain, Exit, mcpVars

\* No reader throws away the answer to a call that still waits, whoever else uses the server.
THEOREM AwaitedIsAlwaysKept == McpSpec => AwaitedIsKept
<1>1. MutexIInv /\ [McpNext]_mcpVars =>
        [\A t \in Task, v \in Server : \A k \in DOMAIN lines[v] :
          /\ lines[v][k].call = Current(t)
          /\ results'[t] = results[t]
          => \E j \in DOMAIN lines'[v] : lines'[v][j] = lines[v][k]]_mcpVars
  BY ReadersKeep
<1> QED BY <1>1, MutexInductive, PTL DEF McpSpec, AwaitedIsKept

-----------------------------------------------------------------------------
(***************************************************************************)
(* EvaluatorCall                                                           *)
(***************************************************************************)

Outputs == {"gen", "ref", "done", "response", "error", "text", "image", "json"}
Kinds == Outputs \cup {"request"}

AnyWorker == [step : {"down", "idle", "work"}, pos : Nat, upto : Nat, script : Seq(Outputs),
              pending : BOOLEAN]

Early == {"create", "settle", "subscribe", "publish"}

CallTypes ==
    /\ service \in Evaluators
    /\ chat \in Seq(Kinds) /\ flying \subseteq Kinds
    /\ worker \in AnyWorker /\ (worker.step = "work" => worker.script # <<>>)
    /\ heard \in Nat

\* The request is published once, and only when the caller has come that far.
RequestOnce ==
    /\ \A i, j \in 1..Len(chat) : chat[i] = "request" /\ chat[j] = "request" => i = j
    /\ "request" \in flying => \A i \in 1..Len(chat) : chat[i] # "request"
    /\ caller \in Early => "request" \notin flying /\ \A i \in 1..Len(chat) : chat[i] # "request"

\* Once it was executed, the worker is past the request or will skip it as replayed.
NeverAgain ==
    /\ ran \in {0, 1}
    /\ ran = 1 => \E i \in 1..Len(chat) : chat[i] = "request"
    /\ ran = 1 /\ worker.step # "down" =>
           \A i \in 1..Len(chat) : chat[i] = "request" => i <= worker.pos \/ i <= worker.upto
    /\ worker.step = "work" => ran = 1

\* There is no answer before the execution.
AnswerFollows ==
    /\ "response" \in flying => ran = 1
    /\ \A i \in 1..Len(chat) : chat[i] = "response" => ran = 1
    /\ caller = "answered" => ran = 1

CallIInv == CallTypes /\ RequestOnce /\ NeverAgain /\ AnswerFollows

-----------------------------------------------------------------------------

\* What a worker publishes for a request is never a request, and never nothing.
LEMMA ScriptsAreOutputs ==
    ASSUME NEW evaluator \in Evaluators, NEW script \in Scripts(evaluator)
    PROVE  script \in Seq(Outputs) /\ script # <<>>
<1> DEFINE Fine(s) == s \in Seq(Outputs) /\ s # <<>>
<1>1. /\ Fine(<<"gen", "ref", "done", "response">>)
      /\ Fine(<<"gen", "error", "response">>)
      /\ Fine(<<"error", "response">>)
  <2>1. <<"gen", "ref", "done", "response">> \in Seq(Outputs) /\ Len(<<"gen", "ref", "done", "response">>) = 4
    BY DEF Outputs
  <2>2. <<"gen", "error", "response">> \in Seq(Outputs) /\ Len(<<"gen", "error", "response">>) = 3
    BY DEF Outputs
  <2>3. <<"error", "response">> \in Seq(Outputs) /\ Len(<<"error", "response">>) = 2
    BY DEF Outputs
  <2>. QED
    BY <2>1, <2>2, <2>3
<1>2. /\ Fine(<<"response">>)
      /\ Fine(<<"text", "response">>)
      /\ Fine(<<"image", "response">>)
      /\ Fine(<<"json", "response">>)
  <2>1. <<"response">> \in Seq(Outputs) /\ Len(<<"response">>) = 1
    BY DEF Outputs
  <2>2. <<"text", "response">> \in Seq(Outputs) /\ Len(<<"text", "response">>) = 2
    BY DEF Outputs
  <2>3. <<"image", "response">> \in Seq(Outputs) /\ Len(<<"image", "response">>) = 2
    BY DEF Outputs
  <2>4. <<"json", "response">> \in Seq(Outputs) /\ Len(<<"json", "response">>) = 2
    BY DEF Outputs
  <2>. QED
    BY <2>1, <2>2, <2>3, <2>4
<1>3. script \in TtsScripts \/ script \in HueScripts \/ script \in SttScripts
      \/ script \in ComfyScripts \/ script \in SheetbotScripts \/ script \in KbScripts
      \/ script \in DiceScripts
  BY DEF Scripts, Evaluators
<1>4. Fine(script)
  <2> HIDE DEF Fine
  <2>. QED
    BY <1>1, <1>2, <1>3, Zenon
       DEF TtsScripts, HueScripts, SttScripts, ComfyScripts, SheetbotScripts, KbScripts, DiceScripts
<1>. QED
  BY <1>4

\* A worker that is not there is a worker.
LEMMA NoWorkerIsTyped == NoWorker \in AnyWorker /\ NoWorker.step = "down"
<1>1. <<>> \in Seq(Outputs)
  OBVIOUS
<1>. QED
  BY <1>1 DEF NoWorker, AnyWorker

\* Before the call there is nothing.
LEMMA CallInitEstablishes == CallInit => CallIInv
<1> SUFFICES ASSUME CallInit PROVE CallIInv
  OBVIOUS
<1>1. chat \in Seq(Kinds) /\ Len(chat) = 0 /\ flying = {} /\ ran = 0 /\ heard = 0 /\ caller = "create"
  BY DEF CallInit
<1>2. worker \in AnyWorker /\ worker.step = "down" /\ service \in Evaluators
  BY NoWorkerIsTyped DEF CallInit
<1>. QED
  BY <1>1, <1>2 DEF CallIInv, CallTypes, RequestOnce, NeverAgain, AnswerFollows, Early

-----------------------------------------------------------------------------
(* rpc_dispatch and the session *)

\* The caller publishes its request once, and takes an answer only from the session.
LEMMA CallerKeeps ==
    ASSUME CallIInv, CreateRoom \/ Dispatch \/ CallTimesOut \/ CallFails
    PROVE  CallIInv'
<1>1. UNCHANGED <<service, chat, worker, ran>>
  BY DEF CreateRoom, Dispatch, CallTimesOut, CallFails, Settled, SubscribeRoom, PublishRequest,
      HearsNext, ReaderEnds, serviceVars
<1>2. heard' \in Nat
  BY DEF CallIInv, CallTypes, CreateRoom, Dispatch, CallTimesOut, CallFails, Settled,
      SubscribeRoom, PublishRequest, HearsNext, ReaderEnds
<1>3. \/ flying' = flying /\ (caller' \in Early => caller \in Early)
      \/ flying' = flying \cup {"request"} /\ caller \in Early /\ caller' \notin Early
  BY DEF CreateRoom, Dispatch, CallTimesOut, CallFails, Settled, SubscribeRoom, PublishRequest,
      HearsNext, ReaderEnds, Advance, Early
<1>4. caller' = "answered" =>
          caller = "answered" \/ \E i \in 1..Len(chat) : chat[i] = "response"
  <2>1. CASE HearsNext
    BY <2>1 DEF HearsNext, CallIInv, CallTypes
  <2>2. CASE ~HearsNext
    BY <2>2 DEF CreateRoom, Dispatch, CallTimesOut, CallFails, Settled, SubscribeRoom,
        PublishRequest, ReaderEnds, Advance
  <2>. QED
    BY <2>1, <2>2
<1>5. CallTypes'
  BY <1>1, <1>2, <1>3 DEF CallIInv, CallTypes, Kinds
<1>6. RequestOnce'
  BY <1>1, <1>3 DEF CallIInv, RequestOnce
<1>7. NeverAgain'
  BY <1>1 DEF CallIInv, NeverAgain
<1>8. AnswerFollows'
  BY <1>1, <1>3, <1>4 DEF CallIInv, AnswerFollows
<1>. QED
  BY <1>5, <1>6, <1>7, <1>8 DEF CallIInv

\* One more chunk in the session: a request only if there was none, an answer only after
\* the execution.
LEMMA ChatGrows ==
    ASSUME CallIInv, NEW kind \in Kinds, chat' = Append(chat, kind),
           kind = "request" => ran = 0 /\ caller \notin Early
                                       /\ \A i \in 1..Len(chat) : chat[i] # "request",
           kind = "response" => ran = 1,
           flying' \subseteq flying, kind = "request" => "request" \notin flying',
           UNCHANGED <<service, caller, heard, ran>>,
           worker' \in AnyWorker, worker'.step = "work" => worker'.script # <<>>,
           worker'.step # "down" => worker'.pos = worker.pos /\ worker'.upto = worker.upto
                                    /\ worker.step # "down",
           worker'.step = "work" => worker.step = "work"
    PROVE  CallIInv'
<1>1. /\ chat' \in Seq(Kinds) /\ Len(chat') = Len(chat) + 1 /\ Len(chat) \in Nat
      /\ \A i \in 1..Len(chat) : chat'[i] = chat[i]
      /\ chat'[Len(chat) + 1] = kind
  BY DEF CallIInv, CallTypes
<1>2. \A i \in 1..Len(chat') : i \in 1..Len(chat) \/ i = Len(chat) + 1
  BY <1>1
<1>3. CallTypes'
  BY <1>1 DEF CallIInv, CallTypes
<1>4. RequestOnce'
  BY <1>1, <1>2 DEF CallIInv, RequestOnce
<1>5. AnswerFollows'
  BY <1>1, <1>2 DEF CallIInv, AnswerFollows
<1>6. NeverAgain'
  <2>1. ran' = 1 => \E i \in 1..Len(chat') : chat'[i] = "request"
    BY <1>1 DEF CallIInv, NeverAgain
  <2>2. ASSUME ran' = 1, worker'.step # "down", NEW i \in 1..Len(chat'), chat'[i] = "request"
        PROVE  i <= worker'.pos \/ i <= worker'.upto
    <3>1. i \in 1..Len(chat) /\ chat[i] = "request"
      BY <1>1, <1>2, <2>2
    <3>. QED
      BY <2>2, <3>1 DEF CallIInv, NeverAgain
  <2>3. ran' \in {0, 1} /\ (worker'.step = "work" => ran' = 1)
    BY DEF CallIInv, NeverAgain
  <2>. QED
    BY <2>1, <2>2, <2>3 DEF NeverAgain
<1>. QED
  BY <1>3, <1>4, <1>5, <1>6 DEF CallIInv

\* The bus takes a chunk from its connection.
LEMMA BusKeeps ==
    ASSUME CallIInv, TheBus
    PROVE  CallIInv'
<1>1. PICK kind \in flying : BusReadsFlying(kind)
  BY DEF TheBus
<1>2. /\ kind \in Kinds /\ flying' = flying \ {kind} /\ UNCHANGED <<service, caller, heard, worker, ran>>
      /\ chat' = Append(chat, kind) \/ chat' = chat
  BY <1>1 DEF BusReadsFlying, CallIInv, CallTypes, callerVars, serviceVars
<1>3. CASE chat' = Append(chat, kind)
  <2>1. kind = "request" => /\ ran = 0 /\ caller \notin Early
                            /\ \A i \in 1..Len(chat) : chat[i] # "request"
    BY <1>1 DEF CallIInv, RequestOnce, NeverAgain
  <2>2. kind = "response" => ran = 1
    BY <1>1 DEF CallIInv, AnswerFollows
  <2>3. worker' \in AnyWorker /\ (worker'.step = "work" => worker'.script # <<>>)
    BY <1>2 DEF CallIInv, CallTypes
  <2>. QED
    BY <1>2, <1>3, <2>1, <2>2, <2>3, ChatGrows
<1>4. CASE chat' = chat
  BY <1>2, <1>4 DEF CallIInv, CallTypes, RequestOnce, NeverAgain, AnswerFollows
<1>. QED
  BY <1>2, <1>3, <1>4

-----------------------------------------------------------------------------
(* The evaluator *)

\* The worker reads the next chunk: it executes the request only if it did not before,
\* because what was there when it subscribed is not executed.
LEMMA ReadKeeps ==
    ASSUME CallIInv, WorkerReads
    PROVE  CallIInv'
<1> DEFINE i == worker.pos + 1
<1>1. /\ worker.step = "idle" /\ i \in 1..Len(chat)
      /\ worker \in AnyWorker /\ i \in Nat
      /\ UNCHANGED <<service, caller, heard, chat, flying>>
  <2>1. worker \in AnyWorker /\ worker.pos \in Nat /\ Len(chat) \in Nat
    BY DEF CallIInv, CallTypes, AnyWorker
  <2>2. worker.step = "idle" /\ worker.pos < Len(chat)
    BY DEF WorkerReads
  <2>3. UNCHANGED <<service, caller, heard, chat, flying>>
    BY DEF WorkerReads, callerVars
  <2>. QED
    BY <2>1, <2>2, <2>3
<1>2. CASE chat[i] = "request" /\ ~Gated
  <2>1. PICK script \in Scripts(service) :
            worker' = [worker EXCEPT !.pos = i, !.step = "work", !.script = script]
    BY <1>1, <1>2 DEF WorkerReads
  <2>2. script \in Seq(Outputs) /\ script # <<>>
    BY ScriptsAreOutputs DEF CallIInv, CallTypes
  <2>3. /\ worker' \in AnyWorker /\ worker'.step = "work" /\ worker'.pos = i
        /\ worker'.script # <<>>
    BY <1>1, <2>1, <2>2 DEF AnyWorker
  <2>4. ran = 0 /\ ran' = 1
    <3>1. ~(i <= worker.pos) /\ ~(i <= worker.upto)
      BY <1>1, <1>2 DEF Gated, AnyWorker
    <3>2. ran' = ran + 1
      BY <1>1, <1>2 DEF WorkerReads
    <3>. QED
      BY <1>1, <1>2, <3>1, <3>2 DEF CallIInv, NeverAgain
  <2>5. \A j \in 1..Len(chat) : chat[j] = "request" => j <= i
    BY <1>1, <1>2 DEF CallIInv, RequestOnce
  <2>6. NeverAgain'
    BY <1>1, <1>2, <2>3, <2>4, <2>5 DEF NeverAgain
  <2>7. CallTypes' /\ RequestOnce' /\ AnswerFollows'
    BY <1>1, <2>3, <2>4 DEF CallIInv, CallTypes, RequestOnce, AnswerFollows
  <2>. QED
    BY <2>6, <2>7 DEF CallIInv
<1>3. CASE ~(chat[i] = "request" /\ ~Gated)
  <2>1. worker' = [worker EXCEPT !.pos = i] /\ ran' = ran
    BY <1>1, <1>3 DEF WorkerReads
  <2>2. /\ worker' \in AnyWorker /\ worker'.step = "idle" /\ worker'.pos = i
        /\ worker'.upto = worker.upto
    BY <1>1, <2>1 DEF AnyWorker
  <2>3. \A j \in Nat : j <= worker.pos => j <= i
    BY <1>1 DEF AnyWorker
  <2>4. NeverAgain'
    BY <1>1, <2>1, <2>2, <2>3 DEF CallIInv, NeverAgain
  <2>5. CallTypes' /\ RequestOnce' /\ AnswerFollows'
    BY <1>1, <2>1, <2>2 DEF CallIInv, CallTypes, RequestOnce, AnswerFollows
  <2>. QED
    BY <2>4, <2>5 DEF CallIInv
<1>. QED
  BY <1>2, <1>3

\* A chunk the worker publishes is an output, and it works only once it has executed.
LEMMA PublishKeeps ==
    ASSUME CallIInv, WorkerPublishes
    PROVE  CallIInv'
<1> DEFINE kind == Head(worker.script)
           rest == Tail(worker.script)
<1>1. /\ worker \in AnyWorker /\ worker.step = "work" /\ worker.script # <<>>
      /\ ran = 1 /\ UNCHANGED <<service, caller, heard, ran>>
  BY DEF WorkerPublishes, CallIInv, CallTypes, NeverAgain, callerVars
<1>2. kind \in Outputs /\ rest \in Seq(Outputs) /\ kind # "request" /\ kind \in Kinds
  BY <1>1 DEF AnyWorker, Outputs, Kinds
<1>3. worker' = [worker EXCEPT !.script = rest, !.pending = worker.pending \/ kind = "ref",
                               !.step = IF rest = <<>> THEN "idle" ELSE "work"]
  BY DEF WorkerPublishes
<1>4. /\ worker' \in AnyWorker /\ (worker'.step = "work" => worker'.script # <<>>)
      /\ worker'.pos = worker.pos /\ worker'.upto = worker.upto
  BY <1>1, <1>2, <1>3 DEF AnyWorker
<1>5. \/ chat' = Append(chat, kind) /\ flying' = flying
      \/ chat' = chat /\ flying' \subseteq flying \cup {kind}
  BY DEF WorkerPublishes
<1> HIDE DEF kind, rest
<1>6. CASE chat' = Append(chat, kind) /\ flying' = flying
  BY <1>1, <1>2, <1>4, <1>6, ChatGrows
<1>7. CASE chat' = chat /\ flying' \subseteq flying \cup {kind}
  <2>1. CallTypes'
    BY <1>1, <1>2, <1>4, <1>7 DEF CallIInv, CallTypes
  <2>2. RequestOnce'
    BY <1>1, <1>2, <1>7 DEF CallIInv, RequestOnce
  <2>3. NeverAgain'
    BY <1>1, <1>4, <1>7 DEF CallIInv, NeverAgain
  <2>4. AnswerFollows'
    BY <1>1, <1>7 DEF CallIInv, AnswerFollows
  <2>. QED
    BY <2>1, <2>2, <2>3, <2>4 DEF CallIInv
<1>. QED
  BY <1>5, <1>6, <1>7

\* A worker that attaches is told to skip all there is, and one that crashed does nothing.
LEMMA WorkerComesAndGoes ==
    ASSUME CallIInv, WorkerAttaches \/ WorkerUploads \/ UploadEnds \/ WorkerCrashes \/ StoreSees
    PROVE  CallIInv'
<1>1. UNCHANGED <<service, caller, heard, chat, flying, ran>>
  BY DEF WorkerAttaches, WorkerUploads, UploadEnds, WorkerCrashes, StoreSees, callerVars
<1>2. Len(chat) \in Nat
  BY DEF CallIInv, CallTypes
<1>3. /\ worker' \in AnyWorker
      /\ worker'.step = "work" => worker.step = "work"
      /\ worker'.step = "work" => worker'.script # <<>>
      /\ \/ worker'.step = "down" \/ worker'.upto = Len(chat)
         \/ worker.step # "down" /\ worker'.pos = worker.pos /\ worker'.upto = worker.upto
  <2>1. CASE WorkerAttaches
    <3>1. worker' = [NoWorker EXCEPT !.step = "idle", !.upto = Len(chat)]
      BY <2>1 DEF WorkerAttaches
    <3>. QED
      BY <1>2, <3>1, NoWorkerIsTyped DEF AnyWorker
  <2>2. CASE WorkerUploads
    <3>1. worker' = [worker EXCEPT !.pending = FALSE] /\ worker.step = "idle" /\ worker \in AnyWorker
      BY <2>2 DEF WorkerUploads, CallIInv, CallTypes
    <3>. QED
      BY <3>1 DEF AnyWorker
  <2>3. CASE WorkerCrashes
    BY <2>3, NoWorkerIsTyped DEF WorkerCrashes
  <2>4. CASE StoreSees \/ UploadEnds
    <3>1. worker' = worker /\ worker \in AnyWorker /\ (worker.step = "work" => worker.script # <<>>)
      BY <2>4 DEF StoreSees, UploadEnds, CallIInv, CallTypes
    <3>. QED
      BY <3>1
  <2>. QED
    BY <2>1, <2>2, <2>3, <2>4
<1>4. CallTypes' /\ RequestOnce' /\ AnswerFollows'
  BY <1>1, <1>3 DEF CallIInv, CallTypes, RequestOnce, AnswerFollows
<1>5. NeverAgain'
  BY <1>1, <1>2, <1>3 DEF CallIInv, NeverAgain
<1>. QED
  BY <1>4, <1>5 DEF CallIInv

-----------------------------------------------------------------------------

\* The invariant behind ExecutedAtMostOnce: one request in the session, which a worker that
\* comes back is told to skip (rpc_dispatch and the session workers of the evaluators).
THEOREM CallInductive == CallSpec => []CallIInv
<1>1. CallInit => CallIInv
  BY CallInitEstablishes
<1>2. ASSUME CallIInv, [CallNext]_callVars PROVE CallIInv'
  <2>1. CASE CallNext
    BY <1>2, <2>1, CallerKeeps, BusKeeps, ReadKeeps, PublishKeeps, WorkerComesAndGoes
       DEF CallNext, TheWorker
  <2>2. CASE UNCHANGED callVars
    BY <1>2, <2>2 DEF CallIInv, CallTypes, RequestOnce, NeverAgain, AnswerFollows, callVars
  <2>. QED
    BY <1>2, <2>1, <2>2
<1>. QED
  BY <1>1, <1>2, PTL DEF CallSpec

\* A tool call is executed at most once, and answered only after its execution, for any
\* number of crashes of the evaluator.
THEOREM NeverExecutedTwice == CallSpec => []ExecutedAtMostOnce
<1>1. CallIInv => ExecutedAtMostOnce
  BY DEF CallIInv, NeverAgain, AnswerFollows, ExecutedAtMostOnce
<1>. QED
  BY <1>1, CallInductive, PTL

-----------------------------------------------------------------------------
(***************************************************************************)
(* JsHost                                                                  *)
(***************************************************************************)

AnyTrigger == Nat \X Nat
AnyTask == [chan : Nat, at : AnyTrigger, state : {"running", "over"}]
AnyLoop == [step : {"start", "idle", "run", "config", "ended"}, inc : Nat, seen : Nat,
            trigger : AnyTrigger, source : Nat, chan : Nat]
AnyEntry == [chan : Nat, source : Nat, task : Nat]

\* The types a step of the host relies on; the bounds of JsTypeOK do not matter here.
BusTypes ==
    /\ inc \in Nat /\ inc <= Len(msgs)
    /\ msgs \in Seq(Nat)
    /\ source \in Nat /\ edits \in Nat

HostTypes ==
    /\ loops \in Seq(AnyLoop)
    /\ chans \in Seq(Seq(AnyTrigger))
    /\ tasks \in Seq(AnyTask)
    /\ entry \in AnyEntry

\* The entry names a task that was spawned, or none.  Without this a task spawned later
\* could take a number the entry has already.
EntryIsSpawned == entry.task <= Len(tasks)

HostIInv == BusTypes /\ HostTypes /\ EntryIsSpawned /\ OneRuntime

-----------------------------------------------------------------------------

\* Aborting a task leaves the others as they were, and no more tasks than before.
LEMMA AbortedTask ==
    ASSUME HostTypes, NEW t \in Nat, t <= Len(tasks)
    PROVE  /\ Abort(t) \in Seq(AnyTask)
           /\ Len(Abort(t)) = Len(tasks)
           /\ \A k \in 1..Len(tasks) : k # t => Abort(t)[k] = tasks[k]
           /\ t # 0 => Abort(t)[t].state # "running"
<1>1. CASE t = 0 \/ tasks[t].state # "running"
  BY <1>1 DEF HostTypes, Abort
<1>2. CASE t # 0 /\ tasks[t].state = "running"
  <2>1. Over \in AnyTask
    BY DEF Over, AnyTask, NoTrigger, AnyTrigger
  <2>2. Abort(t) = [tasks EXCEPT ![t] = Over]
    BY <1>2 DEF Abort
  <2>3. t \in 1..Len(tasks)
    BY <1>2
  <2>4. Over.state # "running"
    BY DEF Over
  <2>. QED
    BY <2>1, <2>2, <2>3, <2>4 DEF HostTypes
<1>. QED
  BY <1>1, <1>2

\* The host starts with no runtime, whether or not the session exists.
LEMMA InitEstablishes == JsInit => HostIInv
<1> SUFFICES ASSUME JsInit PROVE HostIInv
  OBVIOUS
<1>1. Loop \in AnyLoop
  BY DEF Loop, AnyLoop, AnyTrigger
<1>2. inc \in Nat /\ msgs \in Seq(Nat) /\ Len(msgs) = inc
  BY DEF JsInit
<1>3. loops \in Seq(AnyLoop)
  BY <1>1, <1>2 DEF JsInit
<1>4. entry \in AnyEntry /\ entry.task = 0
  BY DEF JsInit, NoEntry, AnyEntry
<1>5. tasks = <<>> /\ chans = <<>>
  BY DEF JsInit
<1>. QED
  BY <1>2, <1>3, <1>4, <1>5 DEF JsInit, HostIInv, BusTypes, HostTypes, EntryIsSpawned, OneRuntime

-----------------------------------------------------------------------------
(* What others do does not touch the host. *)

\* Sessions, triggers and changes of the source leave tasks and entry alone.
LEMMA OthersKeep ==
    ASSUME HostIInv, JsCreate \/ JsDelete \/ Trigger \/ Edit
    PROVE  HostIInv'
<1> USE DEF HostIInv, BusTypes, HostTypes, EntryIsSpawned, OneRuntime
<1>1. CASE JsCreate
  BY <1>1 DEF JsCreate, fileVars
<1>2. CASE JsDelete
  BY <1>2 DEF JsDelete, fileVars
<1>3. CASE Trigger
  <2>1. inc \in 1..Len(msgs) /\ msgs[inc] + 1 \in Nat
    BY <1>3 DEF Trigger
  <2>2. msgs' \in Seq(Nat) /\ Len(msgs') = Len(msgs)
    BY <1>3, <2>1 DEF Trigger
  <2>. QED
    BY <1>3, <2>2 DEF Trigger, fileVars
<1>4. CASE Edit
  BY <1>4 DEF Edit, busVars
<1>. QED
  BY <1>1, <1>2, <1>3, <1>4

\* The supervisor starts session tasks, and ends the runtime of a deleted session.
LEMMA SuperviseKeeps ==
    ASSUME HostIInv, Supervise
    PROVE  HostIInv'
<1>1. CASE Attach
  <2>1. Loop \in AnyLoop
    BY DEF Loop, AnyLoop, AnyTrigger
  <2>2. loops' \in Seq(AnyLoop)
    <3>1. loops \in Seq(AnyLoop)
      BY DEF HostIInv, HostTypes
    <3>2. loops' = Append(loops, Loop) \/ loops' = loops
      BY <1>1 DEF Attach
    <3>. QED
      BY <2>1, <3>1, <3>2
  <2>. QED
    BY <1>1, <2>2 DEF Attach, HostIInv, BusTypes, HostTypes, EntryIsSpawned, OneRuntime, busVars,
        fileVars
<1>2. CASE Teardown
  <2>1. entry.task \in Nat /\ entry.task <= Len(tasks) /\ tasks' = Abort(entry.task)
    BY <1>2 DEF Teardown, HostIInv, HostTypes, EntryIsSpawned, AnyEntry
  <2>2. tasks' \in Seq(AnyTask) /\ Len(tasks') = Len(tasks)
    BY <2>1, AbortedTask DEF HostIInv
  <2>3. \A t \in 1..Len(tasks') : tasks'[t].state # "running"
    <3>1. /\ \A t \in 1..Len(tasks) : t # entry.task => tasks'[t] = tasks[t]
          /\ entry.task # 0 => tasks'[entry.task].state # "running"
      BY <2>1, AbortedTask DEF HostIInv
    <3>2. \A t \in 1..Len(tasks) : tasks[t].state = "running" => t = entry.task
      BY DEF HostIInv, OneRuntime
    <3>3. Len(tasks') = Len(tasks) /\ \A t \in 1..Len(tasks) : t # 0
      BY <2>2
    <3>. QED
      BY <3>1, <3>2, <3>3
  <2>4. entry' \in AnyEntry /\ entry'.task = 0
    BY <1>2 DEF Teardown, NoEntry, AnyEntry
  <2>5. HostTypes' /\ BusTypes'
    BY <1>2, <2>2, <2>4 DEF Teardown, HostIInv, BusTypes, HostTypes, busVars, fileVars
  <2>6. EntryIsSpawned' /\ OneRuntime'
    BY <2>2, <2>3, <2>4 DEF EntryIsSpawned, OneRuntime
  <2>. QED
    BY <2>5, <2>6 DEF HostIInv
<1>. QED
  BY <1>1, <1>2 DEF Supervise

\* A session task spawns a runtime only in place of the one in the entry.
LEMMA LoopKeeps ==
    ASSUME HostIInv, NEW l \in 1..Len(loops), LoopStep(l)
    PROVE  HostIInv'
<1>0. /\ loops \in Seq(AnyLoop) /\ loops[l] \in AnyLoop
      /\ NoWork(loops[l]) \in AnyLoop
  <2>1. loops \in Seq(AnyLoop) /\ loops[l] \in AnyLoop
    BY DEF HostIInv, HostTypes
  <2>2. loops[l].inc \in Nat /\ loops[l].seen \in Nat
    BY <2>1 DEF AnyLoop
  <2>3. Loop \in AnyLoop
    BY DEF Loop, AnyLoop, AnyTrigger
  <2>4. NoWork(loops[l]) \in AnyLoop
    BY <2>2, <2>3 DEF NoWork, AnyLoop
  <2>. QED
    BY <2>1, <2>4
<1>1. CASE LoopSubscribes(l)
  <2>1. inc \in Nat /\ (inc # 0 => msgs[inc] \in Nat)
    BY DEF HostIInv, BusTypes
  <2> DEFINE new == [loops[l] EXCEPT !.step = "idle", !.inc = inc,
                                     !.seen = IF inc = 0 THEN 0 ELSE msgs[inc]]
  <2>2. new \in AnyLoop
    BY <1>0, <2>1 DEF AnyLoop
  <2>3. loops' = [loops EXCEPT ![l] = new]
    BY <1>1 DEF LoopSubscribes
  <2>4. loops' \in Seq(AnyLoop)
    BY <1>0, <2>2, <2>3
  <2>. QED
    BY <1>1, <2>4 DEF LoopSubscribes, HostIInv, BusTypes, HostTypes, EntryIsSpawned, OneRuntime,
        busVars, fileVars
<1>2. CASE LoopReads(l)
  <2> DEFINE i == loops[l].seen + 1
             step == IF source = 0 THEN "ended" ELSE IF stateful THEN "config" ELSE "run"
             fresh == step = "config" /\ entry = NoEntry
             chan == IF fresh THEN Len(chans) + 1 ELSE entry.chan
             new == [loops[l] EXCEPT !.step = step, !.seen = i, !.trigger = <<loops[l].inc, i>>,
                        !.source = source, !.chan = IF step = "config" THEN chan ELSE 0]
  <2>1. /\ loops' = [loops EXCEPT ![l] = new]
        /\ entry' = IF fresh THEN [NoEntry EXCEPT !.chan = chan] ELSE entry
        /\ chans' = IF fresh THEN Append(chans, <<>>) ELSE chans
    BY <1>2 DEF LoopReads
  <2>2. chan \in Nat /\ i \in Nat /\ loops[l].inc \in Nat /\ source \in Nat
    <3>1. Len(chans) \in Nat /\ entry.chan \in Nat
      BY DEF HostIInv, HostTypes, AnyEntry
    <3>2. loops[l].seen \in Nat /\ loops[l].inc \in Nat
      BY <1>0 DEF AnyLoop
    <3>3. source \in Nat
      BY DEF HostIInv, BusTypes
    <3>4. chan \in Nat
      <4> HIDE DEF fresh
      <4>. QED
        BY <3>1
    <3>. QED
      BY <3>2, <3>3, <3>4
  <2>3. step \in {"ended", "config", "run"}
    OBVIOUS
  <2>4. new \in AnyLoop
    <3> HIDE DEF step, chan, i
    <3>. QED
      BY <1>0, <2>2, <2>3 DEF AnyLoop, AnyTrigger
  <2>5. loops' \in Seq(AnyLoop)
    <3> HIDE DEF new
    <3>. QED
      BY <1>0, <2>1, <2>4
  <2>6. entry' \in AnyEntry /\ entry'.task = entry.task
    <3>1. CASE fresh
      <4>1. entry = NoEntry
        BY <3>1
      <4>2. entry' = [chan |-> chan, source |-> 0, task |-> 0]
        BY <2>1, <3>1 DEF NoEntry
      <4> HIDE DEF chan, fresh
      <4>. QED
        BY <2>2, <4>1, <4>2 DEF NoEntry, AnyEntry
    <3>2. CASE ~fresh
      BY <2>1, <3>2 DEF HostIInv, HostTypes
    <3>. QED
      BY <3>1, <3>2
  <2>7. chans' \in Seq(Seq(AnyTrigger))
    <3>1. <<>> \in Seq(AnyTrigger)
      OBVIOUS
    <3> HIDE DEF fresh
    <3>. QED
      BY <2>1, <3>1 DEF HostIInv, HostTypes
  <2>8. UNCHANGED <<busVars, fileVars, tasks>>
    BY <1>2 DEF LoopReads
  <2> HIDE DEF new, chan, fresh, step, i
  <2>. QED
    BY <2>5, <2>6, <2>7, <2>8 DEF HostIInv, BusTypes, HostTypes, EntryIsSpawned, OneRuntime,
        busVars, fileVars
<1>3. CASE LoopRuns(l)
  <2>1. loops' \in Seq(AnyLoop)
    BY <1>0, <1>3 DEF LoopRuns
  <2>. QED
    BY <1>3, <2>1 DEF LoopRuns, HostIInv, BusTypes, HostTypes, EntryIsSpawned, OneRuntime,
        busVars, fileVars
<1>4. CASE LoopDrives(l)
  <2>1. loops' \in Seq(AnyLoop)
    BY <1>0, <1>4 DEF LoopDrives
  <2>2. loops[l].trigger \in AnyTrigger /\ loops[l].chan \in Nat /\ loops[l].source \in Nat
    BY <1>0 DEF AnyLoop
  <2>3. chans' \in Seq(Seq(AnyTrigger))
    <3>1. chans' = [chans EXCEPT ![loops[l].chan] = Append(@, loops[l].trigger)]
      BY <1>4 DEF LoopDrives
    <3>2. chans \in Seq(Seq(AnyTrigger))
      BY DEF HostIInv, HostTypes
    <3>3. CASE loops[l].chan \in 1..Len(chans)
      <4>1. Append(chans[loops[l].chan], loops[l].trigger) \in Seq(AnyTrigger)
        BY <2>2, <3>2, <3>3
      <4>. QED
        BY <3>1, <3>2, <3>3, <4>1
    <3>4. CASE loops[l].chan \notin 1..Len(chans)
      <4>1. chans' = chans
        BY <3>1, <3>2, <3>4
      <4>. QED
        BY <3>2, <4>1
    <3>. QED
      BY <3>3, <3>4
  <2>4. CASE Stale(l)
    <3>1. /\ tasks' = Append(Abort(entry.task), Spawned(loops[l].chan))
          /\ entry' = [entry EXCEPT !.source = loops[l].source, !.task = Len(tasks) + 1]
      BY <1>4, <2>4 DEF LoopDrives, Respawned
    <3>2. entry \in AnyEntry /\ entry.task \in Nat /\ entry.task <= Len(tasks) /\ Len(tasks) \in Nat
      BY DEF HostIInv, HostTypes, EntryIsSpawned, AnyEntry
    <3>3. Spawned(loops[l].chan) \in AnyTask
      BY <2>2 DEF Spawned, AnyTask, NoTrigger, AnyTrigger
    <3>4. /\ Abort(entry.task) \in Seq(AnyTask) /\ Len(Abort(entry.task)) = Len(tasks)
          /\ \A t \in 1..Len(tasks) : Abort(entry.task)[t].state # "running"
      BY <3>2, AbortedTask DEF HostIInv, OneRuntime
    <3>5. tasks' \in Seq(AnyTask) /\ Len(tasks') = Len(tasks) + 1
      BY <3>1, <3>3, <3>4
    <3>6. \A t \in 1..Len(tasks) : tasks'[t].state # "running"
      BY <3>1, <3>2, <3>3, <3>4
    <3>7. entry' \in AnyEntry /\ entry'.task = Len(tasks) + 1
      <4>1. entry.chan \in Nat
        BY <3>2 DEF AnyEntry
      <4>2. entry' = [chan |-> entry.chan, source |-> loops[l].source, task |-> Len(tasks) + 1]
        BY <3>1, <3>2 DEF AnyEntry
      <4>. QED
        BY <2>2, <3>2, <4>1, <4>2 DEF AnyEntry
    <3>8. BusTypes' /\ HostTypes'
      BY <1>4, <2>1, <2>3, <3>5, <3>7 DEF LoopDrives, HostIInv, BusTypes, HostTypes, busVars, fileVars
    <3>9. EntryIsSpawned' /\ OneRuntime'
      BY <3>2, <3>5, <3>6, <3>7 DEF EntryIsSpawned, OneRuntime
    <3>. QED
      BY <3>8, <3>9 DEF HostIInv
  <2>5. CASE ~Stale(l)
    BY <1>4, <2>1, <2>3, <2>5 DEF LoopDrives, HostIInv, BusTypes, HostTypes, EntryIsSpawned,
        OneRuntime, busVars, fileVars
  <2>. QED
    BY <2>4, <2>5
<1>. QED
  BY <1>1, <1>2, <1>3, <1>4 DEF LoopStep

-----------------------------------------------------------------------------

\* A runtime takes and handles events, and ends, but never starts to run again.
LEMMA RuntimeKeeps ==
    ASSUME HostIInv, NEW t \in 1..Len(tasks), RuntimeStep(t) \/ TaskEnds(t)
    PROVE  HostIInv'
<1>0. tasks \in Seq(AnyTask) /\ tasks[t] \in AnyTask /\ chans \in Seq(Seq(AnyTrigger))
  BY DEF HostIInv, HostTypes
<1>1. Over \in AnyTask /\ Over.state # "running"
  BY DEF Over, AnyTask, NoTrigger, AnyTrigger
<1>2. ASSUME NEW new \in AnyTask, tasks' = [tasks EXCEPT ![t] = new],
             new.state = "running" => tasks[t].state = "running",
             chans' \in Seq(Seq(AnyTrigger)),
             UNCHANGED <<busVars, fileVars, loops, entry>>
      PROVE  HostIInv'
  <2>1. tasks' \in Seq(AnyTask) /\ Len(tasks') = Len(tasks)
    BY <1>0, <1>2
  <2>2. \A k \in 1..Len(tasks) : tasks'[k].state = "running" => tasks[k].state = "running"
    BY <1>0, <1>2
  <2>. QED
    BY <1>2, <2>1, <2>2 DEF HostIInv, BusTypes, HostTypes, EntryIsSpawned, OneRuntime, busVars,
        fileVars
<1>3. CASE TaskTakes(t)
  <2>1. tasks[t].chan \in DOMAIN chans /\ chans[tasks[t].chan] # <<>> /\ Queue(t) = chans[tasks[t].chan]
    BY <1>3 DEF TaskTakes, Queue
  <2>2. /\ Head(Queue(t)) \in AnyTrigger
        /\ Tail(chans[tasks[t].chan]) \in Seq(AnyTrigger)
    BY <1>0, <2>1
  <2>3. chans' \in Seq(Seq(AnyTrigger))
    BY <1>0, <1>3, <2>1, <2>2 DEF TaskTakes
  <2> DEFINE new == [tasks[t] EXCEPT !.at = Head(Queue(t))]
  <2>4. new \in AnyTask /\ new.state = tasks[t].state
    BY <1>0, <2>2 DEF AnyTask
  <2>5. tasks' = [tasks EXCEPT ![t] = new] /\ UNCHANGED <<busVars, fileVars, loops, entry>>
    BY <1>3 DEF TaskTakes
  <2> HIDE DEF new
  <2>. QED
    BY <1>2, <2>3, <2>4, <2>5
<1>4. CASE TaskHandles(t)
  <2> DEFINE new == [tasks[t] EXCEPT !.at = NoTrigger]
  <2>1. new \in AnyTask /\ new.state = tasks[t].state
    BY <1>0 DEF AnyTask, NoTrigger, AnyTrigger
  <2>2. tasks' = [tasks EXCEPT ![t] = new] /\ UNCHANGED <<busVars, fileVars, loops, entry, chans>>
    BY <1>4 DEF TaskHandles
  <2> HIDE DEF new
  <2>. QED
    BY <1>0, <1>2, <2>1, <2>2
<1>5. CASE StreamEnds(t) \/ TaskEnds(t)
  <2>1. tasks' = [tasks EXCEPT ![t] = Over] /\ UNCHANGED <<busVars, fileVars, loops, entry, chans>>
    BY <1>5 DEF StreamEnds, TaskEnds
  <2>. QED
    BY <1>0, <1>1, <1>2, <2>1
<1>. QED
  BY <1>3, <1>4, <1>5 DEF RuntimeStep

\* A step in which nothing changes keeps the invariant.
LEMMA StutterKeeps ==
    ASSUME HostIInv, UNCHANGED jsVars
    PROVE  HostIInv'
BY DEF HostIInv, BusTypes, HostTypes, EntryIsSpawned, OneRuntime, jsVars

\* The invariant behind OneRuntime: the entry names the newest runtime or none, and only
\* that one runs.
THEOREM HostInductive == JsSpec => []HostIInv
<1>1. JsInit => HostIInv
  BY InitEstablishes
<1>2. HostIInv /\ [JsNext]_jsVars => HostIInv'
  BY OthersKeep, SuperviseKeeps, LoopKeeps, RuntimeKeeps, StutterKeeps DEF JsNext
<1>. QED
  BY <1>1, <1>2, PTL DEF JsSpec

\* A session never has two runtimes, for any number of sessions, triggers and reloads
\* (respawn in drive_stateful and teardown in the supervisor of cafe-agent-js).
THEOREM NeverTwoRuntimes == JsSpec => []OneRuntime
<1>1. HostIInv => OneRuntime
  BY DEF HostIInv
<1>. QED
  BY <1>1, HostInductive, PTL

-----------------------------------------------------------------------------
(***************************************************************************)
(* KnowledgeBase                                                           *)
(***************************************************************************)

(* KnowledgeBase: what chunk_text returns *)

\* A character: its paragraph and number.
Char == Int \X Int

\* Is x in a sequence, and in one of a sequence of sequences?
In(x, q) == \E k \in 1..Len(q) : q[k] = x
InSome(x, qs) == \E n \in 1..Len(qs) : In(x, qs[n])

\* What a concatenation holds.
LEMMA JoinHolds ==
    ASSUME NEW S, NEW a \in Seq(S), NEW b \in Seq(S), NEW c, c = a \o b
    PROVE  /\ c \in Seq(S) /\ Len(c) = Len(a) + Len(b)
           /\ \A k \in 1..Len(a) : k \in 1..Len(c) /\ c[k] = a[k]
           /\ \A k \in 1..Len(b) : Len(a) + k \in 1..Len(c) /\ c[Len(a) + k] = b[k]
           /\ \A x : In(x, a) \/ In(x, b) => In(x, c)
           /\ \A x : InSome(x, a) \/ InSome(x, b) => InSome(x, c)
<1>1. Len(a) \in Nat /\ Len(b) \in Nat
  OBVIOUS
<1>2. c \in Seq(S) /\ Len(c) = Len(a) + Len(b)
  OBVIOUS
<1>3. \A k \in 1..Len(a) : k \in 1..Len(c) /\ c[k] = a[k]
  BY <1>1, <1>2
<1>4. \A k \in 1..Len(b) : Len(a) + k \in 1..Len(c) /\ c[Len(a) + k] = b[k]
  BY <1>1, <1>2
<1>5. \A x : In(x, a) \/ In(x, b) => In(x, c)
  BY <1>3, <1>4, Zenon DEF In
<1>6. \A x : InSome(x, a) \/ InSome(x, b) => InSome(x, c)
  BY <1>3, <1>4, Zenon DEF InSome
<1> QED
  BY <1>2, <1>3, <1>4, <1>5, <1>6

\* What a sequence holds with one more element.
LEMMA AppendHolds ==
    ASSUME NEW S, NEW a \in Seq(S), NEW e \in S, NEW c, c = Append(a, e)
    PROVE  /\ c \in Seq(S)
           /\ \A x : InSome(x, a) \/ In(x, e) => InSome(x, c)
<1>1. Len(a) \in Nat /\ c \in Seq(S) /\ Len(c) = Len(a) + 1
  OBVIOUS
<1>2. \A k \in 1..Len(a) : k \in 1..Len(c) /\ c[k] = a[k]
  BY <1>1
<1>3. Len(a) + 1 \in 1..Len(c) /\ c[Len(a) + 1] = e
  BY <1>1
<1>4. \A x : InSome(x, a) \/ In(x, e) => InSome(x, c)
  BY <1>2, <1>3, Zenon DEF InSome
<1> QED
  BY <1>1, <1>4

\* Part of a sequence.
LEMMA PartHolds ==
    ASSUME NEW S, NEW q \in Seq(S), NEW m \in Nat \ {0}, NEW n \in Nat, n <= Len(q), NEW c, c = SubSeq(q, m, n)
    PROVE  /\ c \in Seq(S)
           /\ \A k \in m..n : In(q[k], c)
<1>1. c \in Seq(S) /\ \A k \in m..n : k - m + 1 \in 1..Len(c) /\ c[k - m + 1] = q[k]
  OBVIOUS
<1> QED
  BY <1>1, Zenon DEF In

\* The characters of a paragraph.
LEMMA ParagraphTyped ==
    ASSUME NEW job \in Job, NEW p \in 1..Len(job.text)
    PROVE  /\ Paragraph(job.text, p) \in Seq(Char)
           /\ Len(Paragraph(job.text, p)) = job.text[p] /\ job.text[p] \in Nat
           /\ \A i \in 1..job.text[p] : Paragraph(job.text, p)[i] = <<p, i>>
<1>1. job.text \in Seq(Nat) /\ job.text[p] \in Nat /\ p \in Nat
  BY DEF Job
<1>2. PICK n \in Nat : n = job.text[p]
  BY <1>1
<1>3. \A i \in 1..n : <<p, i>> \in Char
  BY <1>1 DEF Char
<1>4. Paragraph(job.text, p) = [i \in 1..n |-> <<p, i>>]
  BY <1>2 DEF Paragraph
<1> QED
  BY <1>2, <1>3, <1>4

\* The least of a set of numbers.
LEMMA MinIs ==
    ASSUME NEW T, T \subseteq Nat, T # {}
    PROVE  Min(T) \in T /\ \A k \in T : Min(T) <= k
<1>1. PICK m \in T : \A k \in T : m <= k
  BY Least
<1> QED
  BY <1>1 DEF Min

\* The lesser of two numbers.
LEMMA MinOfTwo ==
    ASSUME NEW a \in Int, NEW b \in Int
    PROVE  Min({a, b}) = IF a <= b THEN a ELSE b
<1>1. PICK m : m = IF a <= b THEN a ELSE b
  OBVIOUS
<1>2. m \in {a, b} /\ \A k \in {a, b} : m <= k
  BY <1>1
<1>3. \A n \in {a, b} : (\A k \in {a, b} : n <= k) => n = m
  BY <1>1
<1> QED
  BY <1>1, <1>2, <1>3 DEF Min

\* The greater of two numbers.
LEMMA MaxOfTwo ==
    ASSUME NEW a \in Int, NEW b \in Int
    PROVE  Max({a, b}) = IF a >= b THEN a ELSE b
<1>1. PICK m : m = IF a >= b THEN a ELSE b
  OBVIOUS
<1>2. m \in {a, b} /\ \A k \in {a, b} : m >= k
  BY <1>1
<1>3. \A n \in {a, b} : (\A k \in {a, b} : n >= k) => n = m
  BY <1>1
<1> QED
  BY <1>1, <1>2, <1>3 DEF Max

\* The starts of the pieces.
LEMMA Times ==
    ASSUME NEW k \in Nat, NEW s \in Nat \ {0}
    PROVE  k * s \in Nat /\ k * s >= k /\ (k > 0 => k * s = (k - 1) * s + s)
OBVIOUS

\* A piece, and what comes in front of it.
LEMMA PieceHolds ==
    ASSUME NEW job \in Job, job.overlap < job.size, NEW chars \in Seq(Char), NEW k \in Nat,
           k * StepOf(job) <= Len(chars)
    PROVE  /\ Piece(job, chars, k) \in Seq(Char)
           /\ Bridge(job, chars, k) \in Seq(Char)
           /\ \A i \in k * StepOf(job) + 1..k * StepOf(job) + job.size :
                 i <= Len(chars) => In(chars[i], Piece(job, chars, k))
<1>1. PICK s : s = k * StepOf(job)
  OBVIOUS
<1>2. s \in Nat /\ job.size \in Nat /\ job.overlap \in Nat /\ Len(chars) \in Nat /\ s <= Len(chars)
  <2>1. job.size \in Nat /\ job.overlap \in Nat /\ StepOf(job) \in Nat \ {0}
    BY DEF Job, StepOf
  <2>2. k * StepOf(job) \in Nat
    BY <2>1, Times
  <2> QED
    BY <1>1, <2>1, <2>2
<1>3. PICK e : e = Min({s + job.size, Len(chars)})
  OBVIOUS
<1>4. e = IF s + job.size <= Len(chars) THEN s + job.size ELSE Len(chars)
  <2>1. s + job.size \in Int /\ Len(chars) \in Int
    BY <1>2
  <2> QED
    BY <1>3, <2>1, MinOfTwo
<1>5. e \in Nat /\ e <= Len(chars) /\ s + 1 \in Nat \ {0}
  BY <1>2, <1>4
<1>6. Piece(job, chars, k) = SubSeq(chars, s + 1, e)
  BY <1>1, <1>3 DEF Piece
<1>7. Piece(job, chars, k) \in Seq(Char) /\ \A i \in s + 1..e : In(chars[i], Piece(job, chars, k))
  BY <1>5, <1>6, PartHolds
<1>8. PICK b : b = Max({0, s - job.overlap})
  OBVIOUS
<1>9. b + 1 \in Nat \ {0}
  <2>1. 0 \in Int /\ s - job.overlap \in Int
    BY <1>2
  <2>2. b = IF 0 >= s - job.overlap THEN 0 ELSE s - job.overlap
    BY <1>8, <2>1, MaxOfTwo
  <2> QED
    BY <1>2, <2>2
<1>10. Bridge(job, chars, k) = SubSeq(chars, b + 1, s)
  BY <1>1, <1>8 DEF Bridge
<1>11. Bridge(job, chars, k) \in Seq(Char)
  BY <1>2, <1>9, <1>10, PartHolds
<1>12. \A i \in s + 1..s + job.size : i <= Len(chars) => i \in s + 1..e
  BY <1>2, <1>4
<1> QED
  BY <1>1, <1>7, <1>11, <1>12

\* The pieces of a long paragraph have all of its characters.
LEMMA SplitHolds ==
    ASSUME NEW job \in Job, job.overlap < job.size, NEW chars \in Seq(Char), NEW first,
           NEW hs, hs = HardSplit(job, chars, first)
    PROVE  /\ hs \in Seq(Seq(Char))
           /\ \A i \in 1..Len(chars) : InSome(chars[i], hs)
<1>1. PICK s : s = StepOf(job)
  OBVIOUS
<1>2. /\ s \in Nat \ {0} /\ job.size \in Nat /\ job.overlap \in Nat /\ s <= job.size
      /\ Len(chars) \in Nat
  BY <1>1 DEF StepOf, Job
<1>3. PICK T : T = {k \in 0..Len(chars) : k * s + job.size >= Len(chars)}
  OBVIOUS
<1>4. PICK last : last = LastPiece(job, chars)
  OBVIOUS
<1>5. last \in T /\ \A k \in T : last <= k
  <2>1. last = Min(T)
    BY <1>1, <1>3, <1>4 DEF LastPiece
  <2>2. Len(chars) * s \in Nat /\ Len(chars) * s >= Len(chars)
    BY <1>2, Times
  <2>3. Len(chars) \in T
    BY <1>2, <1>3, <2>2
  <2>4. T \subseteq Nat
    BY <1>3
  <2> QED
    BY <2>1, <2>3, <2>4, MinIs
<1>6. last \in Nat /\ last <= Len(chars) /\ last * s + job.size >= Len(chars)
  BY <1>2, <1>3, <1>5
<1>7. ASSUME NEW k \in 0..last
      PROVE  k * s \in Nat /\ k * s <= Len(chars)
  <2>1. k * s \in Nat /\ (k > 0 => k * s = (k - 1) * s + s)
    BY <1>2, <1>6, Times
  <2>2. CASE k = 0
    BY <1>2, <2>1, <2>2
  <2>3. CASE k > 0
    <3>1. k - 1 \in 0..Len(chars) /\ k - 1 \notin T
      BY <1>2, <1>5, <1>6, <2>3
    <3>2. PICK m \in Nat : m = (k - 1) * s
      BY <1>2, <2>3, Times
    <3>3. ~(m + job.size >= Len(chars))
      BY <1>3, <3>1, <3>2
    <3> QED
      BY <1>2, <2>1, <2>3, <3>2, <3>3
  <2> QED
    BY <1>6, <2>2, <2>3
<1>8. ASSUME NEW n \in 1..last + 1
      PROVE  /\ hs[n] \in Seq(Char)
             /\ \A i \in (n - 1) * s + 1..(n - 1) * s + job.size :
                   i <= Len(chars) => In(chars[i], hs[n])
  <2>1. n - 1 \in Nat /\ (n - 1) * StepOf(job) <= Len(chars)
    BY <1>1, <1>6, <1>7
  <2>2. PICK piece, bridge : piece = Piece(job, chars, n - 1) /\ bridge = Bridge(job, chars, n - 1)
    OBVIOUS
  <2>3. /\ piece \in Seq(Char) /\ bridge \in Seq(Char)
        /\ \A i \in (n - 1) * s + 1..(n - 1) * s + job.size :
              i <= Len(chars) => In(chars[i], piece)
    BY <1>1, <2>1, <2>2, PieceHolds
  <2>4. Dots \in Seq(Char)
    BY DEF Dots, Char
  <2>5. PICK front : front = bridge \o Dots
    OBVIOUS
  <2>6. front \in Seq(Char)
    BY <2>3, <2>4, <2>5
  <2>7. PICK both : both = front \o piece
    OBVIOUS
  <2>8. both \in Seq(Char) /\ \A x : In(x, piece) => In(x, both)
    BY <2>3, <2>6, <2>7, JoinHolds
  <2>9. hs[n] = both \/ hs[n] = piece
    <3>1. hs[n] = IF job.overlap > 0 /\ (n > 1 \/ ~first)
                  THEN Bridge(job, chars, n - 1) \o Dots \o Piece(job, chars, n - 1)
                  ELSE Piece(job, chars, n - 1)
      BY <1>4 DEF HardSplit
    <3>2. Bridge(job, chars, n - 1) \o Dots \o Piece(job, chars, n - 1) = both
      BY <2>2, <2>5, <2>7
    <3> QED
      BY <2>2, <3>1, <3>2, Zenon
  <2> QED
    BY <2>3, <2>8, <2>9
<1>9. hs \in Seq(Seq(Char)) /\ Len(hs) = last + 1
  <2>1. hs \in [1..last + 1 -> Seq(Char)]
    <3>1. DOMAIN hs = 1..last + 1
      BY <1>4 DEF HardSplit
    <3>2. hs = [n \in 1..last + 1 |-> hs[n]]
      BY <1>4 DEF HardSplit
    <3> QED
      BY <1>8, <3>2
  <2> QED
    BY <1>6, <2>1
<1>10. ASSUME NEW i \in 1..Len(chars)
       PROVE  InSome(chars[i], hs)
  <2>1. PICK D : D = {k \in 0..last : k * s + job.size >= i}
    OBVIOUS
  <2>2. last \in D /\ D \subseteq Nat
    BY <1>2, <1>6, <1>7, <2>1
  <2>3. PICK m \in D : \A k \in D : m <= k
    BY <2>2, Least
  <2>4. m \in 0..last /\ m * s \in Nat /\ m * s + job.size >= i
    BY <1>7, <2>1, <2>3
  <2>5. m * s + 1 <= i
    <3>1. CASE m = 0
      BY <3>1, <1>2
    <3>2. CASE m > 0
      <4>1. m - 1 \in 0..last /\ m - 1 \notin D
        BY <1>6, <2>3, <2>4, <3>2
      <4>2. PICK x \in Nat : x = (m - 1) * s
        BY <1>2, <1>6, <2>4, <3>2, Times
      <4>3. ~(x + job.size >= i)
        BY <2>1, <4>1, <4>2
      <4>4. m * s = x + s
        BY <1>2, <1>6, <2>4, <3>2, <4>2, Times
      <4> QED
        BY <1>2, <2>4, <4>2, <4>3, <4>4
    <3> QED
      BY <1>6, <2>4, <3>1, <3>2
  <2>6. m + 1 \in 1..last + 1 /\ (m + 1) - 1 = m
    BY <1>6, <2>4
  <2>7. i \in ((m + 1) - 1) * s + 1..((m + 1) - 1) * s + job.size /\ i <= Len(chars)
    BY <1>2, <2>4, <2>5, <2>6
  <2>8. In(chars[i], hs[m + 1])
    BY <1>8, <2>6, <2>7
  <2> QED
    BY <1>6, <1>9, <2>6, <2>8 DEF InSome
<1> QED
  BY <1>9, <1>10

\* The chunks and the one that is being filled.
Acc == [chunks : Seq(Seq(Char)), current : Seq(Char)]
\* Is a character in a chunk that is done or in the one being filled?
AccHas(acc, x) == InSome(x, acc.chunks) \/ In(x, acc.current)

\* A paragraph adds its characters and loses none.
LEMMA ParagraphAdds ==
    ASSUME NEW job \in Job, ~NeverEnds(job), NEW acc \in Acc, NEW p \in 1..Len(job.text),
           NEW new, new = WithParagraph(job, acc, p)
    PROVE  /\ new \in Acc
           /\ \A x : AccHas(acc, x) => AccHas(new, x)
           /\ \A i \in 1..job.text[p] : AccHas(new, <<p, i>>)
<1>1. PICK chars, cur, done : chars = Paragraph(job.text, p) /\ cur = acc.current /\ done = acc.chunks
  OBVIOUS
<1>2. /\ chars \in Seq(Char) /\ Len(chars) = job.text[p] /\ Len(chars) \in Nat
      /\ \A i \in 1..job.text[p] : chars[i] = <<p, i>>
  BY <1>1, ParagraphTyped
<1>3. cur \in Seq(Char) /\ done \in Seq(Seq(Char)) /\ acc = [chunks |-> done, current |-> cur]
  BY <1>1 DEF Acc
<1>4. job.size \in Nat /\ job.overlap \in Nat
  BY DEF Job
<1>5. PICK flushed : flushed = IF cur = <<>> THEN done ELSE Append(done, cur)
  OBVIOUS
<1>6. flushed \in Seq(Seq(Char)) /\ \A x : AccHas(acc, x) => InSome(x, flushed)
  <2>1. CASE cur = <<>>
    <3>1. \A x : ~In(x, cur)
      BY <2>1 DEF In
    <3> QED
      BY <1>1, <1>3, <1>5, <2>1, <3>1 DEF AccHas
  <2>2. CASE cur # <<>>
    <3>1. flushed = Append(done, cur)
      BY <1>5, <2>2
    <3>2. flushed \in Seq(Seq(Char)) /\ \A x : InSome(x, done) \/ In(x, cur) => InSome(x, flushed)
      BY <1>3, <3>1, AppendHolds
    <3> QED
      BY <1>1, <3>2 DEF AccHas
  <2> QED
    BY <2>1, <2>2
<1>7. PICK full : full = (cur # <<>> /\ Len(cur) + Len(chars) + 2 > job.size)
  OBVIOUS
<1>8. PICK tail : tail = IF job.overlap > 0 /\ job.overlap < Len(cur)
                         THEN SubSeq(cur, Len(cur) - job.overlap + 1, Len(cur))
                         ELSE <<>>
  OBVIOUS
<1>9. tail \in Seq(Char)
  <2>1. CASE job.overlap > 0 /\ job.overlap < Len(cur)
    <3>1. Len(cur) \in Nat /\ Len(cur) - job.overlap + 1 \in Nat \ {0}
      BY <1>3, <1>4, <2>1
    <3>2. tail = SubSeq(cur, Len(cur) - job.overlap + 1, Len(cur))
      BY <1>8, <2>1
    <3> QED
      BY <1>3, <3>1, <3>2, PartHolds
  <2>2. CASE ~(job.overlap > 0 /\ job.overlap < Len(cur))
    <3>1. tail = <<>>
      BY <1>8, <2>2
    <3> QED
      BY <3>1
  <2> QED
    BY <2>1, <2>2
<1>10. PICK kept : kept = IF full THEN tail ELSE cur
  OBVIOUS
<1>11. kept \in Seq(Char)
  BY <1>3, <1>9, <1>10
<1>12. PICK lead : lead = IF kept = <<>> THEN <<>> ELSE kept \o Gap
  OBVIOUS
<1>13. lead \in Seq(Char) /\ \A x : In(x, kept) => In(x, lead)
  <2>1. CASE kept = <<>>
    <3>1. lead = kept
      BY <1>12, <2>1
    <3> QED
      BY <1>11, <3>1
  <2>2. CASE kept # <<>>
    <3>1. lead = kept \o Gap
      BY <1>12, <2>2
    <3>2. Gap \in Seq(Char)
      BY DEF Gap, Char
    <3> QED
      BY <1>11, <3>1, <3>2, JoinHolds
  <2> QED
    BY <2>1, <2>2
<1>14. PICK hs, first : first = (flushed = <<>>) /\ hs = HardSplit(job, chars, first)
  OBVIOUS
<1>15. new = CASE chars = <<>> -> acc
               [] Len(chars) > job.size -> [chunks |-> flushed \o hs, current |-> <<>>]
               [] OTHER -> [chunks |-> IF full THEN flushed ELSE done, current |-> lead \o chars]
  BY <1>1, <1>5, <1>7, <1>8, <1>10, <1>12, <1>14, Zenon DEF WithParagraph, IsFull
<1>16. CASE chars = <<>>
  <2>1. new = acc
    <3>1. ~(Len(chars) > job.size)
      BY <1>4, <1>16
    <3> QED
      BY <1>15, <1>16, <3>1
  <2>2. job.text[p] = 0
    BY <1>2, <1>16
  <2> QED
    BY <2>1, <2>2
<1>17. CASE chars # <<>> /\ Len(chars) > job.size
  <2>1. new = [chunks |-> flushed \o hs, current |-> <<>>]
    BY <1>15, <1>17
  <2>2. job.overlap < job.size
    BY <1>2, <1>4, <1>17 DEF NeverEnds, TurnsInPlace
  <2>3. hs \in Seq(Seq(Char)) /\ \A i \in 1..Len(chars) : InSome(chars[i], hs)
    BY <1>2, <1>14, <2>2, SplitHolds
  <2>4. PICK all : all = flushed \o hs
    OBVIOUS
  <2>5. all \in Seq(Seq(Char)) /\ \A x : InSome(x, flushed) \/ InSome(x, hs) => InSome(x, all)
    BY <1>6, <2>3, <2>4, JoinHolds
  <2>6. new \in Acc /\ new.chunks = all
    BY <2>1, <2>4, <2>5 DEF Acc
  <2>7. \A x : AccHas(acc, x) => AccHas(new, x)
    BY <1>6, <2>5, <2>6 DEF AccHas
  <2>8. \A i \in 1..job.text[p] : AccHas(new, <<p, i>>)
    BY <1>2, <2>3, <2>5, <2>6 DEF AccHas
  <2> QED
    BY <2>6, <2>7, <2>8
<1>18. CASE chars # <<>> /\ ~(Len(chars) > job.size)
  <2>1. PICK now : now = lead \o chars
    OBVIOUS
  <2>2. now \in Seq(Char) /\ \A x : In(x, lead) \/ In(x, chars) => In(x, now)
    BY <1>2, <1>13, <2>1, JoinHolds
  <2>3. PICK old : old = IF full THEN flushed ELSE done
    OBVIOUS
  <2>4. new = [chunks |-> old, current |-> now]
    BY <1>15, <1>18, <2>1, <2>3
  <2>5. old \in Seq(Seq(Char))
    BY <1>3, <1>6, <2>3
  <2>6. new \in Acc /\ new.chunks = old /\ new.current = now
    BY <2>2, <2>4, <2>5 DEF Acc
  <2>7. ASSUME NEW x, AccHas(acc, x)
        PROVE  AccHas(new, x)
    <3>1. CASE full
      BY <1>6, <2>3, <2>6, <2>7, <3>1 DEF AccHas
    <3>2. CASE ~full
      <4>1. InSome(x, done) \/ In(x, cur)
        BY <1>1, <2>7 DEF AccHas
      <4>2. kept = cur /\ old = done
        BY <1>10, <2>3, <3>2
      <4> QED
        BY <1>13, <2>2, <2>6, <4>1, <4>2 DEF AccHas
    <3> QED
      BY <3>1, <3>2
  <2>8. ASSUME NEW i \in 1..job.text[p]
        PROVE  AccHas(new, <<p, i>>)
    <3>1. In(<<p, i>>, chars)
      BY <1>2 DEF In
    <3> QED
      BY <2>2, <2>6, <3>1 DEF AccHas
  <2> QED
    BY <2>6, <2>7, <2>8
<1> QED
  BY <1>16, <1>17, <1>18

\* The chunks of a text have every byte of it, whatever its paragraphs and its characters and
\* however it is cut, if cutting it ends (chunk_text; one that is cut inside a character has no
\* chunks: Panics).
THEOREM TextIsCovered ==
    ASSUME NEW job \in Job, ~NeverEnds(job)
    PROVE  Len(ChunkText(job)) \in Nat /\ Covers(job)
<1>1. PICK N \in Nat : N = Len(job.text)
  <2>1. job.text \in Seq(Nat)
    BY DEF Job
  <2> QED
    BY <2>1
<1>2. PICK b : b = [chunks |-> <<>>, current |-> <<>>]
  OBVIOUS
<1>3. b \in Acc
  <2>1. <<>> \in Seq(Seq(Char)) /\ <<>> \in Seq(Char)
    OBVIOUS
  <2> QED
    BY <1>2, <2>1 DEF Acc
<1>4. PICK F : F = [x \in (1..N) \X Acc |-> WithParagraph(job, x[2], x[1])]
  OBVIOUS
<1>5. \A p \in 1..N : \A acc \in Acc : WithParagraph(job, acc, p) \in Acc
  BY <1>1, ParagraphAdds
<1>6. Steps(F, N, Acc)
  BY <1>4, <1>5 DEF Steps
<1>7. \A p \in 1..N : \A acc \in Acc : F[<<p, acc>>] = WithParagraph(job, acc, p)
  BY <1>4
<1>8. PICK g \in [0..N -> Acc] : g[0] = b /\ \A p \in 1..N : g[p] = F[<<p, g[p - 1]>>]
  <2>1. \E h : Solves(h, N, Acc, b, F)
    BY <1>3, <1>6, Recursion
  <2> QED
    BY <2>1 DEF Solves
<1>9. \A p \in 1..N : p - 1 \in 0..N /\ g[p - 1] \in Acc /\ g[p] = WithParagraph(job, g[p - 1], p)
  <2> SUFFICES ASSUME NEW p \in 1..N
               PROVE  p - 1 \in 0..N /\ g[p - 1] \in Acc /\ g[p] = WithParagraph(job, g[p - 1], p)
    OBVIOUS
  <2>1. p - 1 \in 0..N
    BY <1>1
  <2>2. g[p - 1] \in Acc
    BY <1>8, <2>1
  <2> QED
    BY <1>7, <1>8, <2>1, <2>2
<1> DEFINE Body(h) == [p \in 0..Len(job.text) |->
                          IF p = 0 THEN [chunks |-> <<>>, current |-> <<>>]
                          ELSE WithParagraph(job, h[p - 1], p)]
           filled == CHOOSE h : h = Body(h)
<1>10. g = Body(g)
  <2>1. \A p \in 0..N : g[p] = IF p = 0 THEN b ELSE WithParagraph(job, g[p - 1], p)
    BY <1>1, <1>8, <1>9
  <2>2. g = [p \in 0..N |-> IF p = 0 THEN b ELSE WithParagraph(job, g[p - 1], p)]
    BY <1>8, <2>1
  <2> QED
    BY <1>1, <1>2, <2>2
<1>11. filled = Body(filled)
  BY <1>10, Zenon
<1>12. PICK f : f = filled
  OBVIOUS
<1>13. f = [p \in 0..N |-> IF p = 0 THEN b ELSE WithParagraph(job, f[p - 1], p)]
  BY <1>1, <1>2, <1>11, <1>12, Zenon
<1>14. ChunkText(job) = IF f[N].current # <<>> THEN Append(f[N].chunks, f[N].current)
                        ELSE IF f[N].chunks = <<>> /\ job.text # <<>> THEN <<Blank>>
                        ELSE f[N].chunks
  <2>1. ChunkText(job) = IF filled[Len(job.text)].current # <<>>
                         THEN Append(filled[Len(job.text)].chunks, filled[Len(job.text)].current)
                         ELSE IF filled[Len(job.text)].chunks = <<>> /\ job.text # <<>> THEN <<Blank>>
                         ELSE filled[Len(job.text)].chunks
    BY Zenon DEF ChunkText, Filled
  <2> QED
    BY <1>1, <1>12, <2>1, Zenon
<1> HIDE DEF Body, filled
<1> DEFINE Ok(p) == /\ f[p] \in Acc
                    /\ \A q \in 1..p : \A i \in 1..job.text[q] : AccHas(f[p], <<q, i>>)
           G == {p \in 0..N : Ok(p)}
<1>15. f[0] = b /\ \A p \in 1..N : f[p] = WithParagraph(job, f[p - 1], p)
  <2>1. \A p \in 0..N : f[p] = IF p = 0 THEN b ELSE WithParagraph(job, f[p - 1], p)
    BY <1>13, Zenon
  <2> QED
    BY <1>1, <2>1
<1>16. 0 \in G
  BY <1>1, <1>3, <1>15
<1>17. ASSUME NEW p \in 1..N, p - 1 \in G
       PROVE  p \in G
  <2>1. Ok(p - 1)
    BY <1>17
  <2>2. p \in 1..Len(job.text)
    BY <1>1
  <2>3. /\ f[p] \in Acc
        /\ \A x : AccHas(f[p - 1], x) => AccHas(f[p], x)
        /\ \A i \in 1..job.text[p] : AccHas(f[p], <<p, i>>)
    BY <1>15, <2>1, <2>2, ParagraphAdds
  <2>4. \A q \in 1..p : q = p \/ q \in 1..p - 1
    BY <1>1
  <2> QED
    BY <2>1, <2>3, <2>4
<1>18. N \in G
  <2> HIDE DEF G
  <2>1. \A p \in 0..N : p \in G
    BY <1>16, <1>17, UpTo
  <2> QED
    BY <1>1, <2>1
<1>19. Ok(N)
  BY <1>18
<1>20. PICK acc \in Acc : acc = f[N]
  BY <1>19
<1>21. PICK out : out = ChunkText(job)
  OBVIOUS
<1>22. Len(out) \in Nat /\ \A x : AccHas(acc, x) => InSome(x, out)
  <2>1. acc.chunks \in Seq(Seq(Char)) /\ acc.current \in Seq(Char)
    BY DEF Acc
  <2>2. CASE acc.current # <<>>
    <3>1. PICK cs, cu : cs = acc.chunks /\ cu = acc.current
      OBVIOUS
    <3>2. out = Append(cs, cu)
      BY <1>14, <1>20, <1>21, <2>2, <3>1
    <3>3. out \in Seq(Seq(Char)) /\ \A x : InSome(x, cs) \/ In(x, cu) => InSome(x, out)
      BY <2>1, <3>1, <3>2, AppendHolds
    <3> QED
      BY <3>1, <3>3 DEF AccHas
  <2>3. CASE acc.current = <<>>
    <3>1. \A x : ~In(x, acc.current)
      BY <2>3 DEF In
    <3>2. out = acc.chunks \/ (out = <<Blank>> /\ acc.chunks = <<>>)
      BY <1>14, <1>20, <1>21, <2>3
    <3>3. acc.chunks = <<>> => \A x : ~InSome(x, acc.chunks)
      BY DEF InSome
    <3>4. Len(out) \in Nat
      BY <2>1, <3>2
    <3> QED
      BY <3>1, <3>2, <3>3, <3>4 DEF AccHas
  <2> QED
    BY <2>2, <2>3
<1>23. \A p \in 1..N : \A i \in 1..job.text[p] : InSome(<<p, i>>, out)
  BY <1>19, <1>20, <1>22
<1> QED
  BY <1>1, <1>21, <1>22, <1>23 DEF Covers, InSome, In

-----------------------------------------------------------------------------
(* KnowledgeBase: the calls and their rows *)

\* A row of the table.
KbRow == [doc : Docs, part : Int, by : Nat]
\* Every step of a call.
KbAllSteps == KbSteps \cup {"sent", "stuck", "answered", "failed", "lost"}

\* A call; nothing is said of the neighbours in its answer but that they are in some set.
KbCallIn(B) ==
    [ask : Asks, step : KbAllSteps, part : Int,
     answer : [hit : Seq(KbRow), before : B, after : B],
     done : SUBSET Nat, deleted : {"no", "during", "after"}]

\* The types of the table and of the calls.
KbTyped ==
    /\ table \in Seq(KbRow)
    /\ \E B : kbCalls \in Seq(KbCallIn(B))

\* An index call that is writing its rows.
Writing == {"embed", "ensure", "create", "write"}

\* A call takes the steps of its kind only.
KindOf(c) ==
    LET kind == kbCalls[c].ask.kind
    IN  CASE kbCalls[c].step = "embed" -> kind \in {"index", "search", "context"}
          [] kbCalls[c].step \in {"ensure", "create", "write", "stuck"} -> kind = "index"
          [] kbCalls[c].step = "search" -> kind \in {"search", "context"}
          [] kbCalls[c].step = "neighbours" -> kind = "context"
          [] kbCalls[c].step = "delete" -> kind = "delete"
          [] kbCalls[c].step = "list" -> kind = "list"
          [] OTHER -> TRUE

\* A row was written by an index call of its document.
RowIsOfCall(row) ==
    /\ row.by \in 1..Len(kbCalls) /\ IsIndex(row.by)
    /\ kbCalls[row.by].step # "sent"
    /\ row.doc = kbCalls[row.by].ask.doc
    /\ row.part >= FullDoc

\* The chunks of the text of an index call.
ChunkCount(c) == Len(ChunkText(kbCalls[c].ask.job))

\* How far an index call has come.
PartIsDue(c) ==
    LET call == kbCalls[c]
    IN  /\ call.step = "sent" => call.part = FullDoc /\ call.deleted = "no"
        /\ call.step \in Writing =>
              \/ call.part = FullDoc
              \/ ~NeverEnds(call.ask.job) /\ call.part \in 0..ChunkCount(c) - 1
        /\ call.step = "answered" => ~NeverEnds(call.ask.job)

\* The parts before this one are those it wrote.
Reached(c) == IF kbCalls[c].step = "answered" THEN ChunkCount(c) ELSE kbCalls[c].part

\* The one row of a part it wrote, and none of those to come.
PartIsThere(c, q) ==
    IF q < Reached(c) THEN \E i \in 1..Len(table) : RowsOf(c, q) = {i} ELSE RowsOf(c, q) = {}

\* The rows of an index call, as long as nobody deleted its document.
RowsAreWritten(c) ==
    kbCalls[c].deleted = "no" /\ kbCalls[c].step \in Writing \cup {"sent", "answered"} =>
        \A q \in Int : q >= FullDoc => PartIsThere(c, q)

\* What a deletion leaves of a call that had ended: nothing.
RowsAreGone(c) ==
    kbCalls[c].deleted = "after" =>
        /\ \A i \in 1..Len(table) : table[i].by # c
        /\ kbCalls[c].step \in {"stuck", "answered", "failed", "lost"}

\* A search with context, from its look at the table on, holds a row of a call and, if that call was done before and is
\* alone, one of its parts; its answer, once given, has the neighbours of that part.
HitIsRow(c) ==
    LET call == kbCalls[c]
        row == call.answer.hit[1]
        found == call.answer.hit # <<>>
    IN  call.ask.kind = "context" =>
        /\ call.step \in {"sent", "embed", "search"} => ~found
        /\ call.step = "neighbours" => found
        /\ call.step \in {"neighbours", "answered"} /\ found =>
              /\ RowIsOfCall(row)
              /\ row.by \in call.done /\ Alone(row.by) =>
                    /\ row.part < ChunkCount(row.by)
                    /\ call.step = "answered" => FoundInContext(c)

\* The calls answered before this one are answered.
DoneIsAnswered(c) == \A d \in kbCalls[c].done : d \in 1..Len(kbCalls) /\ Answered(d)

\* The inductive invariant of the calls and the table.
KbIInv ==
    /\ KbTyped
    /\ \A i \in 1..Len(table) : RowIsOfCall(table[i])
    /\ \A c \in 1..Len(kbCalls) :
          /\ KindOf(c)
          /\ IsIndex(c) => PartIsDue(c) /\ RowsAreWritten(c) /\ RowsAreGone(c)
          /\ HitIsRow(c)
          /\ DoneIsAnswered(c)

\* What is asked.
LEMMA AsksAre ==
    ASSUME NEW ask \in Asks
    PROVE  /\ ask.kind \in {"index", "delete", "search", "context", "list"}
           /\ ask.kind = "index" => ask.doc \in Docs /\ ask.job \in Job
           /\ ask.kind = "delete" => ask.doc \in Docs
<1>1. CASE \E u \in Uploads : ask = [kind |-> "index", doc |-> u.doc, job |-> u.job]
  <2>1. PICK u \in Uploads : ask = [kind |-> "index", doc |-> u.doc, job |-> u.job]
    BY <1>1
  <2>2. u.doc \in Docs /\ u.job \in Job
    BY KbAssumption
  <2> QED
    BY <2>1, <2>2
<1>2. CASE ask \in [kind : {"delete"}, doc : Docs]
  BY <1>2
<1>3. CASE ask \in [kind : {"search", "context", "list"}]
  BY <1>3
<1> QED
  BY <1>1, <1>2, <1>3 DEF Asks

\* The fields of a call.
LEMMA KbFields ==
    ASSUME KbTyped
    PROVE  /\ Len(kbCalls) \in Nat /\ DOMAIN kbCalls = 1..Len(kbCalls)
           /\ Len(table) \in Nat /\ DOMAIN table = 1..Len(table)
           /\ \A i \in 1..Len(table) : table[i] \in KbRow
           /\ \A c \in 1..Len(kbCalls) :
                 /\ kbCalls[c].ask \in Asks /\ kbCalls[c].step \in KbAllSteps
                 /\ kbCalls[c].part \in Int /\ kbCalls[c].answer.hit \in Seq(KbRow)
                 /\ kbCalls[c].done \in SUBSET Nat
                 /\ kbCalls[c].deleted \in {"no", "during", "after"}
<1>1. PICK B : kbCalls \in Seq(KbCallIn(B))
  BY DEF KbTyped
<1>2. Len(kbCalls) \in Nat /\ DOMAIN kbCalls = 1..Len(kbCalls)
  BY <1>1
<1>3. \A c \in 1..Len(kbCalls) : kbCalls[c] \in KbCallIn(B)
  BY <1>1
<1>4. table \in Seq(KbRow)
  BY DEF KbTyped
<1>5. Len(table) \in Nat /\ DOMAIN table = 1..Len(table) /\ \A i \in 1..Len(table) : table[i] \in KbRow
  BY <1>4
<1> QED
  BY <1>2, <1>3, <1>5 DEF KbCallIn

\* Calls whose answers are in more sets.
LEMMA CallsIn ==
    ASSUME NEW B, NEW D, NEW q \in Seq(KbCallIn(B)), B \subseteq D
    PROVE  q \in Seq(KbCallIn(D))
<1>1. KbCallIn(B) \subseteq KbCallIn(D)
  BY DEF KbCallIn
<1>2. PICK T : T = KbCallIn(D)
  OBVIOUS
<1>3. \A c \in 1..Len(q) : q[c] \in T
  BY <1>1, <1>2
<1>4. q \in Seq(T)
  BY <1>3
<1> QED
  BY <1>2, <1>4

\* One call replaced.
LEMMA CallReplaced ==
    ASSUME NEW B, NEW q \in Seq(KbCallIn(B)), NEW c \in 1..Len(q),
           NEW r \in KbCallIn(B), NEW s, s = [q EXCEPT ![c] = r]
    PROVE  /\ s \in Seq(KbCallIn(B)) /\ Len(s) = Len(q)
           /\ s[c] = r /\ \A d \in 1..Len(q) : d # c => s[d] = q[d]
<1>1. PICK T : T = KbCallIn(B)
  OBVIOUS
<1>2. Len(q) \in Nat /\ DOMAIN q = 1..Len(q) /\ \A d \in 1..Len(q) : q[d] \in T
  BY <1>1
<1>3. s = [d \in 1..Len(q) |-> IF d = c THEN r ELSE q[d]]
  BY <1>2
<1>4. s \in Seq(T) /\ Len(s) = Len(q) /\ s[c] = r /\ \A d \in 1..Len(q) : d # c => s[d] = q[d]
  BY <1>1, <1>2, <1>3
<1> QED
  BY <1>1, <1>4

\* What no step takes back: who asked for what, and what has ended.
KbFrame ==
    /\ Len(kbCalls) \in Nat /\ Len(kbCalls') \in Nat /\ Len(kbCalls) <= Len(kbCalls')
    /\ \A d \in 1..Len(kbCalls) :
          /\ kbCalls'[d].ask = kbCalls[d].ask
          /\ kbCalls'[d].done = kbCalls[d].done
          /\ kbCalls'[d].deleted = "no" => kbCalls[d].deleted = "no"
          /\ kbCalls[d].step # "sent" => kbCalls'[d].step # "sent"
          /\ kbCalls[d].step = "answered" => kbCalls'[d].step = "answered"

\* A call that is alone was so before.
LEMMA AloneKept ==
    ASSUME KbFrame, NEW d \in 1..Len(kbCalls), Alone(d)'
    PROVE  Alone(d)
<1>1. kbCalls[d].deleted = "no"
  BY DEF KbFrame, Alone
<1>2. ASSUME NEW e \in 1..Len(kbCalls) \ {d}, IsIndex(e)
      PROVE  kbCalls[e].ask.doc # kbCalls[d].ask.doc
  <2>1. e \in 1..Len(kbCalls') \ {d} /\ IsIndex(e)'
    BY <1>2 DEF KbFrame, IsIndex
  <2>2. kbCalls'[e].ask.doc # kbCalls'[d].ask.doc
    BY <2>1 DEF Alone
  <2> QED
    BY <2>2 DEF KbFrame
<1> QED
  BY <1>1, <1>2 DEF Alone

\* A row stays that of its call.
LEMMA RowKept ==
    ASSUME KbFrame, NEW row, RowIsOfCall(row)
    PROVE  RowIsOfCall(row)'
BY DEF KbFrame, RowIsOfCall, IsIndex

\* What was answered stays answered.
LEMMA DoneKept ==
    ASSUME KbFrame, NEW c \in 1..Len(kbCalls), DoneIsAnswered(c)
    PROVE  DoneIsAnswered(c)'
BY DEF KbFrame, DoneIsAnswered, Answered

\* What a search with context holds, when the step changes nothing of it.
LEMMA HitKept ==
    ASSUME KbFrame, NEW c \in 1..Len(kbCalls), HitIsRow(c),
           kbCalls'[c].answer = kbCalls[c].answer,
           kbCalls[c].ask.kind = "context" /\ kbCalls'[c].step \in {"neighbours", "answered"}
                => kbCalls'[c].step = kbCalls[c].step,
           kbCalls[c].ask.kind = "context" /\ kbCalls'[c].step \in {"sent", "embed", "search"}
                => kbCalls[c].step \in {"sent", "embed", "search"}
    PROVE  HitIsRow(c)'
<1>1. PICK hit : hit = kbCalls[c].answer.hit
  OBVIOUS
<1>2. PICK row : row = hit[1]
  OBVIOUS
<1>3. /\ kbCalls'[c].ask = kbCalls[c].ask /\ kbCalls'[c].done = kbCalls[c].done
      /\ kbCalls'[c].answer.hit = hit
  BY <1>1 DEF KbFrame
<1> SUFFICES ASSUME kbCalls[c].ask.kind = "context"
             PROVE  /\ kbCalls'[c].step \in {"sent", "embed", "search"} => hit = <<>>
                    /\ kbCalls'[c].step = "neighbours" => hit # <<>>
                    /\ kbCalls'[c].step \in {"neighbours", "answered"} /\ hit # <<>> =>
                          /\ RowIsOfCall(row)'
                          /\ row.by \in kbCalls[c].done /\ Alone(row.by)' =>
                                /\ row.part < ChunkCount(row.by)'
                                /\ kbCalls'[c].step = "answered" => FoundInContext(c)'
  BY <1>2, <1>3 DEF HitIsRow
<1>4. /\ kbCalls'[c].step \in {"sent", "embed", "search"} => hit = <<>>
      /\ kbCalls'[c].step = "neighbours" => hit # <<>>
  BY <1>1 DEF HitIsRow
<1>5. ASSUME kbCalls'[c].step \in {"neighbours", "answered"}, hit # <<>>
      PROVE  /\ RowIsOfCall(row)'
             /\ row.by \in kbCalls[c].done /\ Alone(row.by)' =>
                   /\ row.part < ChunkCount(row.by)'
                   /\ kbCalls'[c].step = "answered" => FoundInContext(c)'
  <2>1. kbCalls'[c].step = kbCalls[c].step
    BY <1>5
  <2>2. /\ RowIsOfCall(row)
        /\ row.by \in kbCalls[c].done /\ Alone(row.by) =>
              /\ row.part < ChunkCount(row.by)
              /\ kbCalls[c].step = "answered" => FoundInContext(c)
    BY <1>1, <1>2, <1>5, <2>1 DEF HitIsRow
  <2>3. RowIsOfCall(row)'
    BY <2>2, RowKept
  <2>4. row.by \in 1..Len(kbCalls)
    BY <2>2 DEF RowIsOfCall
  <2>5. kbCalls'[row.by].ask = kbCalls[row.by].ask
    BY <2>4 DEF KbFrame
  <2>6. ChunkCount(row.by)' = ChunkCount(row.by)
    BY <2>5 DEF ChunkCount
  <2>7. FoundInContext(c) => FoundInContext(c)'
    BY <1>1, <1>2, <2>5 DEF FoundInContext
  <2> QED
    BY <2>1, <2>2, <2>3, <2>4, <2>6, <2>7, AloneKept
<1> QED
  BY <1>4, <1>5

\* Where a call may go when nothing is written or answered by the step.
Moves(c) ==
    LET from == kbCalls[c].step
        to == kbCalls'[c].step
        kind == kbCalls[c].ask.kind
    IN  \/ to = from
        \/ to \in {"lost", "failed"} /\ from # "answered"
        \/ /\ kind = "index" /\ from \in Writing \cup {"sent"} /\ to \in Writing
        \/ /\ kind # "index" /\ from # "answered" /\ to \notin {"sent", "neighbours"}
           /\ to = "embed" => kind \in {"search", "context"} /\ from = "sent"
           /\ to \notin {"ensure", "create", "write", "stuck"}
           /\ to = "search" => kind \in {"search", "context"} /\ from = "embed"
           /\ to = "delete" => kind = "delete"
           /\ to = "list" => kind = "list"
           /\ to = "answered" => kind # "context"

\* Steps by which calls only move.
LEMMA MovesKeep ==
    ASSUME KbIInv, KbTyped', table' = table, Len(kbCalls') = Len(kbCalls),
           \A c \in 1..Len(kbCalls) :
              /\ kbCalls'[c].ask = kbCalls[c].ask /\ kbCalls'[c].part = kbCalls[c].part
              /\ kbCalls'[c].answer = kbCalls[c].answer /\ kbCalls'[c].done = kbCalls[c].done
              /\ kbCalls'[c].deleted = kbCalls[c].deleted
              /\ Moves(c)
    PROVE  KbIInv'
<1>1. Len(kbCalls) \in Nat
  BY KbFields DEF KbIInv
<1>2. KbFrame
  BY <1>1 DEF KbFrame, Moves, Writing
<1>3. ASSUME NEW i \in 1..Len(table)
      PROVE  RowIsOfCall(table[i])'
  <2>1. PICK row : row = table[i]
    OBVIOUS
  <2>2. RowIsOfCall(row)'
    BY <1>2, <2>1, RowKept DEF KbIInv
  <2> QED
    BY <2>1, <2>2 DEF RowIsOfCall, IsIndex
<1>4. ASSUME NEW c \in 1..Len(kbCalls)
      PROVE  /\ KindOf(c)'
             /\ IsIndex(c)' => PartIsDue(c)' /\ RowsAreWritten(c)' /\ RowsAreGone(c)'
             /\ HitIsRow(c)'
             /\ DoneIsAnswered(c)'
  <2>1. KindOf(c) /\ HitIsRow(c) /\ DoneIsAnswered(c)
    BY DEF KbIInv
  <2>2. KindOf(c)'
    BY <2>1 DEF KindOf, Moves, Writing
  <2>3. ASSUME IsIndex(c)'
        PROVE  PartIsDue(c)' /\ RowsAreWritten(c)' /\ RowsAreGone(c)'
    <3>1. IsIndex(c) /\ PartIsDue(c) /\ RowsAreWritten(c) /\ RowsAreGone(c)
      BY <2>3 DEF KbIInv, IsIndex
    <3>2. ChunkCount(c)' = ChunkCount(c)
      BY DEF ChunkCount
    <3>3. PartIsDue(c)'
      BY <3>1, <3>2 DEF PartIsDue, Moves, Writing, IsIndex, FullDoc
    <3>4. \A q : RowsOf(c, q)' = RowsOf(c, q)
      BY DEF RowsOf
    <3>5. RowsAreWritten(c)'
      BY <3>1, <3>2, <3>4 DEF RowsAreWritten, PartIsThere, Reached, Moves, Writing, IsIndex
    <3>6. RowsAreGone(c)'
      BY <3>1 DEF RowsAreGone, Moves, Writing, IsIndex
    <3> QED
      BY <3>3, <3>5, <3>6
  <2>4. kbCalls[c].ask.kind = "context" =>
           /\ kbCalls'[c].step \in {"neighbours", "answered"} => kbCalls'[c].step = kbCalls[c].step
           /\ kbCalls'[c].step \in {"sent", "embed", "search"}
                 => kbCalls[c].step \in {"sent", "embed", "search"}
    BY DEF Moves, Writing
  <2>5. HitIsRow(c)'
    BY <1>2, <2>1, <2>4, HitKept
  <2>6. DoneIsAnswered(c)'
    BY <1>2, <2>1, DoneKept
  <2> QED
    BY <2>2, <2>3, <2>5, <2>6
<1> QED
  BY <1>3, <1>4 DEF KbIInv

\* A call that goes on.
LEMMA GoesOn ==
    ASSUME KbIInv, table' = table, NEW c \in 1..Len(kbCalls), NEW from, NEW to \in KbAllSteps,
           GoesTo(c, from, to), Moves(c)
    PROVE  KbIInv'
<1>1. PICK B : kbCalls \in Seq(KbCallIn(B))
  BY DEF KbIInv, KbTyped
<1>2. PICK r : r = [kbCalls[c] EXCEPT !.step = to]
  OBVIOUS
<1>3. /\ r \in KbCallIn(B) /\ r.ask = kbCalls[c].ask /\ r.part = kbCalls[c].part
      /\ r.answer = kbCalls[c].answer /\ r.done = kbCalls[c].done
      /\ r.deleted = kbCalls[c].deleted
  <2>1. kbCalls[c] \in KbCallIn(B)
    BY <1>1
  <2> QED
    BY <1>2, <2>1 DEF KbCallIn
<1>4. kbCalls' = [kbCalls EXCEPT ![c] = r]
  BY <1>2 DEF GoesTo
<1>5. /\ kbCalls' \in Seq(KbCallIn(B)) /\ Len(kbCalls') = Len(kbCalls)
      /\ kbCalls'[c] = r /\ \A d \in 1..Len(kbCalls) : d # c => kbCalls'[d] = kbCalls[d]
  <2>1. PICK s : s = kbCalls'
    OBVIOUS
  <2> QED
    BY <1>1, <1>3, <1>4, <2>1, CallReplaced
<1>6. KbTyped'
  BY <1>5 DEF KbIInv, KbTyped
<1>7. \A d \in 1..Len(kbCalls) : d # c => Moves(d)
  BY <1>5 DEF Moves
<1> QED
  BY <1>3, <1>5, <1>6, <1>7, MovesKeep

\* The steps by which one call goes on.
LEMMA GoingsKeep ==
    ASSUME KbIInv, NEW c \in 1..Len(kbCalls),
           KbMisses(c) \/ KbTakes(c) \/ KbEmbeds(c) \/ KbFails(c) \/ KbEnsures(c) \/ KbCreates(c)
              \/ KbLists(c)
    PROVE  KbIInv'
<1>1. table' = table
  BY DEF KbMisses, KbTakes, KbEmbeds, KbFails, KbEnsures, KbCreates, KbLists
<1>2. PICK B : kbCalls \in Seq(KbCallIn(B))
  BY DEF KbIInv, KbTyped
<1>3. ASSUME NEW from, NEW to, GoesTo(c, from, to)
      PROVE  kbCalls[c].step = from /\ kbCalls'[c].step = to
  <2>1. kbCalls[c] \in KbCallIn(B) /\ c \in DOMAIN kbCalls
    BY <1>2
  <2>2. kbCalls'[c].step = to
    BY <1>3, <2>1 DEF GoesTo, KbCallIn
  <2> QED
    BY <1>3, <2>2 DEF GoesTo
<1>4. KindOf(c) /\ kbCalls[c].ask \in Asks
  BY KbFields DEF KbIInv
<1>5. kbCalls[c].ask.kind \in {"index", "delete", "search", "context", "list"}
  BY <1>4, AsksAre
<1>6. CASE KbMisses(c)
  <2>1. GoesTo(c, "sent", "lost")
    BY <1>6 DEF KbMisses
  <2>2. Moves(c)
    BY <1>3, <2>1 DEF Moves
  <2>3. "lost" \in KbAllSteps
    BY DEF KbAllSteps
  <2> QED
    BY <1>1, <2>1, <2>2, <2>3, GoesOn
<1>7. CASE KbTakes(c)
  <2>1. PICK to : to = CASE kbCalls[c].ask.kind \in {"index", "search", "context"} -> "embed"
                         [] OTHER -> kbCalls[c].ask.kind
    OBVIOUS
  <2>2. GoesTo(c, "sent", to)
    BY <1>7, <2>1 DEF KbTakes
  <2>3. \/ kbCalls[c].ask.kind \in {"index", "search", "context"} /\ to = "embed"
        \/ kbCalls[c].ask.kind \in {"delete", "list"} /\ to = kbCalls[c].ask.kind
    BY <1>5, <2>1
  <2>4. Moves(c)
    BY <1>3, <2>2, <2>3 DEF Moves, Writing
  <2>5. to \in KbAllSteps
    BY <2>3 DEF KbAllSteps, KbSteps
  <2> QED
    BY <1>1, <2>2, <2>4, <2>5, GoesOn
<1>8. CASE KbEmbeds(c)
  <2>1. PICK to : to = IF IsIndex(c) THEN "ensure" ELSE "search"
    OBVIOUS
  <2>2. GoesTo(c, "embed", to)
    BY <1>8, <2>1 DEF KbEmbeds
  <2>3. Moves(c)
    BY <1>3, <1>4, <2>1, <2>2 DEF Moves, Writing, KindOf, IsIndex
  <2>4. to \in KbAllSteps
    BY <2>1 DEF KbAllSteps, KbSteps
  <2> QED
    BY <1>1, <2>2, <2>3, <2>4, GoesOn
<1>9. CASE KbFails(c)
  <2>1. GoesTo(c, kbCalls[c].step, "failed") /\ kbCalls[c].step \in KbSteps
    BY <1>9 DEF KbFails
  <2>2. kbCalls'[c].step = "failed" /\ kbCalls[c].step # "answered"
    BY <1>3, <2>1 DEF KbSteps
  <2>3. Moves(c)
    BY <2>2 DEF Moves
  <2>4. "failed" \in KbAllSteps
    BY DEF KbAllSteps
  <2> QED
    BY <1>1, <2>1, <2>3, <2>4, GoesOn
<1>10. CASE KbEnsures(c)
  <2>1. PICK to : to = IF opened THEN "write" ELSE "create"
    OBVIOUS
  <2>2. GoesTo(c, "ensure", to) /\ to \in {"write", "create"}
    BY <1>10, <2>1 DEF KbEnsures
  <2>3. Moves(c)
    BY <1>3, <1>4, <2>2 DEF Moves, Writing, KindOf
  <2>4. to \in KbAllSteps
    BY <2>2 DEF KbAllSteps, KbSteps
  <2> QED
    BY <1>1, <2>2, <2>3, <2>4, GoesOn
<1>11. CASE KbCreates(c)
  <2>1. PICK to : to = IF opened THEN "failed" ELSE "write"
    OBVIOUS
  <2>2. GoesTo(c, "create", to) /\ to \in {"write", "failed"}
    BY <1>11, <2>1 DEF KbCreates
  <2>3. Moves(c)
    BY <1>3, <1>4, <2>2 DEF Moves, Writing, KindOf
  <2>4. to \in KbAllSteps
    BY <2>2 DEF KbAllSteps, KbSteps
  <2> QED
    BY <1>1, <2>2, <2>3, <2>4, GoesOn
<1>12. CASE KbLists(c)
  <2>1. GoesTo(c, "list", "answered")
    BY <1>12 DEF KbLists
  <2>2. Moves(c)
    BY <1>3, <1>4, <2>1 DEF Moves, KindOf
  <2>3. "answered" \in KbAllSteps
    BY DEF KbAllSteps
  <2> QED
    BY <1>1, <2>1, <2>2, <2>3, GoesOn
<1> QED
  BY <1>6, <1>7, <1>8, <1>9, <1>10, <1>11, <1>12

\* A crash of the evaluator.
LEMMA CrashKeeps ==
    ASSUME KbIInv, KbCrash
    PROVE  KbIInv'
<1>1. PICK B : kbCalls \in Seq(KbCallIn(B))
  BY DEF KbIInv, KbTyped
<1>2. PICK ends : ends = KbSteps \cup {"sent", "stuck"}
  OBVIOUS
<1>3. PICK s : s = kbCalls'
  OBVIOUS
<1>4. s = [c \in 1..Len(kbCalls) |->
             IF kbCalls[c].step \in ends THEN [kbCalls[c] EXCEPT !.step = "lost"] ELSE kbCalls[c]]
  BY <1>2, <1>3 DEF KbCrash
<1>5. Len(kbCalls) \in Nat
  BY <1>1
<1>6. ASSUME NEW c \in 1..Len(kbCalls)
      PROVE  /\ s[c] \in KbCallIn(B)
             /\ s[c].ask = kbCalls[c].ask /\ s[c].part = kbCalls[c].part
             /\ s[c].answer = kbCalls[c].answer /\ s[c].done = kbCalls[c].done
             /\ s[c].deleted = kbCalls[c].deleted
             /\ s[c].step = IF kbCalls[c].step \in ends THEN "lost" ELSE kbCalls[c].step
  <2>1. kbCalls[c] \in KbCallIn(B)
    BY <1>1
  <2>2. s[c] = IF kbCalls[c].step \in ends THEN [kbCalls[c] EXCEPT !.step = "lost"] ELSE kbCalls[c]
    BY <1>4
  <2>3. CASE kbCalls[c].step \in ends
    <3>1. s[c] = [kbCalls[c] EXCEPT !.step = "lost"]
      BY <2>2, <2>3
    <3> QED
      BY <2>1, <2>3, <3>1 DEF KbCallIn, KbAllSteps
  <2>4. CASE kbCalls[c].step \notin ends
    BY <2>1, <2>2, <2>4
  <2> QED
    BY <2>3, <2>4
<1>7. s \in Seq(KbCallIn(B)) /\ Len(s) = Len(kbCalls)
  <2>1. PICK T : T = KbCallIn(B)
    OBVIOUS
  <2>2. s \in Seq(T) /\ Len(s) = Len(kbCalls)
    <3>1. \A c \in 1..Len(kbCalls) : s[c] \in T
      BY <1>6, <2>1
    <3>2. s = [c \in 1..Len(kbCalls) |-> s[c]]
      BY <1>4
    <3> HIDE <1>4
    <3> QED
      BY <1>5, <3>1, <3>2
  <2> QED
    BY <2>1, <2>2
<1>8. KbTyped'
  BY <1>3, <1>7 DEF KbIInv, KbTyped, KbCrash
<1>9. \A c \in 1..Len(kbCalls) : Moves(c)
  <2>1. "answered" \notin ends
    BY <1>2 DEF KbSteps
  <2> QED
    BY <1>3, <1>6, <2>1 DEF Moves
<1> QED
  BY <1>3, <1>6, <1>7, <1>8, <1>9, MovesKeep DEF KbCrash

\* What the invariant says of one call.
CallIsFine(c) ==
    /\ KindOf(c)
    /\ IsIndex(c) => PartIsDue(c) /\ RowsAreWritten(c) /\ RowsAreGone(c)
    /\ HitIsRow(c)
    /\ DoneIsAnswered(c)

\* A call that a step leaves alone, with its parts.
LEMMA PartsKept ==
    ASSUME KbFrame, NEW c \in 1..Len(kbCalls), CallIsFine(c), kbCalls'[c] = kbCalls[c],
           \A q : PartIsThere(c, q) => PartIsThere(c, q)',
           (\A i \in 1..Len(table) : table[i].by # c) => \A i \in 1..Len(table') : table'[i].by # c
    PROVE  CallIsFine(c)'
<1>1. KindOf(c)'
  BY DEF CallIsFine, KindOf
<1>2. ASSUME IsIndex(c)'
      PROVE  PartIsDue(c)' /\ RowsAreWritten(c)' /\ RowsAreGone(c)'
  <2>1. IsIndex(c) /\ PartIsDue(c) /\ RowsAreWritten(c) /\ RowsAreGone(c)
    BY <1>2 DEF CallIsFine, IsIndex
  <2>2. ChunkCount(c)' = ChunkCount(c)
    BY DEF ChunkCount
  <2>3. PartIsDue(c)'
    BY <2>1, <2>2 DEF PartIsDue
  <2>5. RowsAreWritten(c)'
    BY <2>1 DEF RowsAreWritten
  <2>6. RowsAreGone(c)'
    BY <2>1 DEF RowsAreGone
  <2> QED
    BY <2>3, <2>5, <2>6
<1>3. HitIsRow(c)'
  BY HitKept DEF CallIsFine
<1>4. DoneIsAnswered(c)'
  BY DoneKept DEF CallIsFine
<1> QED
  BY <1>1, <1>2, <1>3, <1>4 DEF CallIsFine

\* The same, with its rows.
LEMMA OthersKept ==
    ASSUME KbFrame, NEW c \in 1..Len(kbCalls), CallIsFine(c), kbCalls'[c] = kbCalls[c],
           \A q : RowsOf(c, q)' = RowsOf(c, q),
           (\A i \in 1..Len(table) : table[i].by # c) => \A i \in 1..Len(table') : table'[i].by # c
    PROVE  CallIsFine(c)'
<1>1. Reached(c)' = Reached(c)
  BY DEF Reached, ChunkCount
<1>2. ASSUME NEW q, NEW i \in 1..Len(table), RowsOf(c, q) = {i}
      PROVE  i \in 1..Len(table') /\ RowsOf(c, q)' = {i}
  <2>1. RowsOf(c, q)' = {i}
    BY <1>2
  <2>2. i \in RowsOf(c, q)'
    BY <2>1
  <2> QED
    BY <2>1, <2>2 DEF RowsOf
<1>3. \A q : PartIsThere(c, q) => PartIsThere(c, q)'
  BY <1>1, <1>2 DEF PartIsThere
<1> QED
  BY <1>3, PartsKept

\* A new call.
LEMMA RequestKeeps ==
    ASSUME KbIInv, KbRequests
    PROVE  KbIInv'
<1>1. PICK ask \in Asks : kbCalls' = Append(kbCalls, KbCall(ask))
  BY DEF KbRequests
<1>2. PICK B : kbCalls \in Seq(KbCallIn(B))
  BY DEF KbIInv, KbTyped
<1>3. PICK n \in Nat : n = Len(kbCalls)
  BY <1>2
<1>4. table' = table
  BY DEF KbRequests
<1>5. PICK new : new = KbCall(ask)
  OBVIOUS
<1>6. PICK D : D = B \cup {<<>>}
  OBVIOUS
<1>7. /\ new \in KbCallIn(D) /\ new.ask = ask /\ new.step = "sent" /\ new.part = FullDoc
      /\ new.deleted = "no" /\ new.done = {c \in 1..n : Answered(c)}
  <2>1. NoAnswer \in [hit : Seq(KbRow), before : D, after : D]
    BY <1>6 DEF NoAnswer
  <2>2. PICK done : done = {c \in 1..n : Answered(c)}
    OBVIOUS
  <2>3. done \in SUBSET Nat
    BY <2>2
  <2>4. new = [ask |-> ask, step |-> "sent", part |-> FullDoc, answer |-> NoAnswer,
               done |-> done, deleted |-> "no"]
    BY <1>3, <1>5, <2>2 DEF KbCall
  <2>5. "sent" \in KbAllSteps /\ FullDoc \in Int
    BY DEF KbAllSteps, FullDoc
  <2> QED
    BY <2>1, <2>2, <2>3, <2>4, <2>5 DEF KbCallIn
<1>8. PICK s : s = kbCalls'
  OBVIOUS
<1>9. /\ s \in Seq(KbCallIn(D)) /\ Len(s) = n + 1 /\ s[n + 1] = new
      /\ \A c \in 1..n : s[c] = kbCalls[c]
  <2>2. PICK T : T = KbCallIn(D)
    OBVIOUS
  <2>3. kbCalls \in Seq(T)
    BY <1>2, <1>6, <2>2, CallsIn
  <2>4. s = Append(kbCalls, new) /\ new \in T
    BY <1>1, <1>5, <1>7, <1>8, <2>2
  <2> QED
    BY <1>3, <2>2, <2>3, <2>4
<1>10. KbTyped'
  BY <1>4, <1>8, <1>9 DEF KbIInv, KbTyped
<1>11. KbFrame
  BY <1>3, <1>8, <1>9 DEF KbFrame
<1>12. ASSUME NEW i \in 1..Len(table)
       PROVE  RowIsOfCall(table[i])'
  <2>1. PICK row : row = table[i]
    OBVIOUS
  <2>2. RowIsOfCall(row)'
    BY <1>11, <2>1, RowKept DEF KbIInv
  <2> QED
    BY <1>4, <2>1, <2>2 DEF RowIsOfCall, IsIndex
<1>13. ASSUME NEW c \in 1..n
       PROVE  CallIsFine(c)'
  <2>1. CallIsFine(c)
    BY <1>3 DEF KbIInv, CallIsFine
  <2>2. \A q : RowsOf(c, q)' = RowsOf(c, q)
    BY <1>4 DEF RowsOf
  <2> QED
    BY <1>3, <1>4, <1>8, <1>9, <1>11, <2>1, <2>2, OthersKept
<1>14. CallIsFine(n + 1)'
  <2>1. kbCalls'[n + 1] = new
    BY <1>8, <1>9
  <2>2. KindOf(n + 1)'
    BY <1>7, <2>1 DEF KindOf
  <2>3. \A i \in 1..Len(table) : table[i].by # n + 1
    BY <1>3 DEF KbIInv, RowIsOfCall
  <2>4. PartIsDue(n + 1)'
    BY <1>7, <2>1 DEF PartIsDue, Writing
  <2>5. \A q : RowsOf(n + 1, q)' = {}
    BY <1>4, <2>3 DEF RowsOf
  <2>6. RowsAreWritten(n + 1)'
    <3>1. Reached(n + 1)' = FullDoc
      BY <1>7, <2>1 DEF Reached
    <3>2. ASSUME NEW q \in Int, q >= FullDoc
          PROVE  PartIsThere(n + 1, q)'
      BY <2>5, <3>1, <3>2 DEF PartIsThere, FullDoc
    <3> QED
      BY <3>2 DEF RowsAreWritten
  <2>7. RowsAreGone(n + 1)'
    BY <1>7, <2>1 DEF RowsAreGone
  <2>8. HitIsRow(n + 1)'
    <3>1. new.answer.hit = <<>>
      BY <1>5 DEF KbCall, NoAnswer
    <3> QED
      BY <1>7, <2>1, <3>1 DEF HitIsRow
  <2>9. DoneIsAnswered(n + 1)'
    <3>1. ASSUME NEW d \in new.done
          PROVE  d \in 1..Len(kbCalls') /\ Answered(d)'
      <4>1. d \in 1..n /\ Answered(d)
        BY <1>7, <3>1
      <4> QED
        BY <1>3, <1>8, <1>9, <4>1 DEF Answered
    <3> QED
      BY <2>1, <3>1 DEF DoneIsAnswered
  <2> QED
    BY <2>2, <2>4, <2>6, <2>7, <2>8, <2>9 DEF CallIsFine
<1>15. \A c \in 1..Len(kbCalls') : c \in 1..n \/ c = n + 1
  BY <1>3, <1>8, <1>9
<1>16. \A c \in 1..Len(kbCalls') : CallIsFine(c)'
  BY <1>13, <1>14, <1>15
<1> QED
  BY <1>4, <1>10, <1>12, <1>16 DEF KbIInv, CallIsFine

\* A row added to the table.
LEMMA RowAdded ==
    ASSUME KbTyped, NEW row, table' = Append(table, row)
    PROVE  /\ Len(table') = Len(table) + 1 /\ table'[Len(table) + 1] = row
           /\ \A i \in 1..Len(table) : table'[i] = table[i]
           /\ \A d, q : RowsOf(d, q)' = IF row.by = d /\ row.part = q
                                        THEN RowsOf(d, q) \cup {Len(table) + 1} ELSE RowsOf(d, q)
<1>1. PICK t : t = table'
  OBVIOUS
<1>2. PICK n \in Nat : n = Len(table)
  BY KbFields
<1>3. /\ Len(t) = n + 1 /\ t[n + 1] = row
      /\ \A i \in 1..n : t[i] = table[i]
  <2>1. table \in Seq(KbRow)
    BY DEF KbTyped
  <2> QED
    BY <1>1, <1>2, <2>1
<1>4. ASSUME NEW d, NEW q
      PROVE  RowsOf(d, q)' = IF row.by = d /\ row.part = q THEN RowsOf(d, q) \cup {n + 1} ELSE RowsOf(d, q)
  <2>1. RowsOf(d, q)' = {i \in 1..n + 1 : t[i].by = d /\ t[i].part = q}
    BY <1>1, <1>3 DEF RowsOf
  <2>2. RowsOf(d, q) = {i \in 1..n : t[i].by = d /\ t[i].part = q}
    BY <1>2, <1>3 DEF RowsOf
  <2>3. 1..n + 1 = (1..n) \cup {n + 1}
    BY <1>2
  <2> QED
    BY <1>3, <2>1, <2>2, <2>3
<1> QED
  BY <1>1, <1>2, <1>3, <1>4

\* The next row of a document.
LEMMA WriteKeeps ==
    ASSUME KbIInv, NEW c \in 1..Len(kbCalls), KbWrites(c)
    PROVE  KbIInv'
<1>1. PICK B : kbCalls \in Seq(KbCallIn(B))
  BY DEF KbIInv, KbTyped
<1>2. PICK call : call = kbCalls[c]
  OBVIOUS
<1>3. CallIsFine(c) /\ KbTyped
  BY DEF KbIInv, CallIsFine
<1>4. call.step = "write"
  BY <1>2 DEF KbWrites
<1>5. IsIndex(c) /\ call.ask.kind = "index"
  BY <1>2, <1>3, <1>4 DEF CallIsFine, KindOf, IsIndex
<1>6. /\ call.ask.doc \in Docs /\ call.ask.job \in Job /\ call.part \in Int
      /\ call.part >= FullDoc
      /\ call.deleted # "after"
  <2>1. call.ask \in Asks /\ call.part \in Int
    BY <1>2, <1>3, KbFields
  <2>2. call.ask.doc \in Docs /\ call.ask.job \in Job
    BY <1>5, <2>1, AsksAre
  <2>3. call.part >= FullDoc
    BY <1>2, <1>3, <1>4, <1>5 DEF CallIsFine, PartIsDue, Writing, FullDoc
  <2>4. call.deleted # "after"
    BY <1>2, <1>3, <1>4, <1>5 DEF CallIsFine, RowsAreGone
  <2> QED
    BY <2>1, <2>2, <2>3, <2>4
<1>7. PICK row : row = [doc |-> call.ask.doc, part |-> call.part, by |-> c]
  OBVIOUS
<1>8. PICK n \in Nat : n = Len(table)
  BY <1>3, KbFields
<1>9. table' = Append(table, row)
  BY <1>2, <1>7 DEF KbWrites
<1>10. /\ Len(table') = n + 1 /\ table'[n + 1] = row
       /\ \A i \in 1..n : table'[i] = table[i]
       /\ \A d, q : RowsOf(d, q)' = IF c = d /\ call.part = q THEN RowsOf(d, q) \cup {n + 1} ELSE RowsOf(d, q)
  <2>1. row.by = c /\ row.part = call.part
    BY <1>7
  <2> QED
    BY <1>3, <1>8, <1>9, <2>1, RowAdded
<1>11. PICK next : next = IF call.part = FullDoc /\ Panics(call.ask.job) THEN "lost"
                          ELSE IF call.part = FullDoc /\ NeverEnds(call.ask.job) THEN "stuck"
                          ELSE IF call.part + 1 < Len(ChunkText(call.ask.job)) THEN "embed"
                          ELSE "answered"
  OBVIOUS
<1>12. PICK r : r = [call EXCEPT !.step = next, !.part = IF next = "embed" THEN @ + 1 ELSE @]
  OBVIOUS
<1>13. kbCalls' = [kbCalls EXCEPT ![c] = r]
  BY <1>2, <1>11, <1>12 DEF KbWrites
<1>14. /\ next \in {"lost", "stuck", "embed", "answered"}
       /\ r \in KbCallIn(B)
       /\ r.ask = call.ask /\ r.answer = call.answer /\ r.done = call.done /\ r.deleted = call.deleted
       /\ r.step = next /\ r.part = IF next = "embed" THEN call.part + 1 ELSE call.part
  <2>1. call \in KbCallIn(B)
    BY <1>1, <1>2
  <2>2. next \in {"lost", "stuck", "embed", "answered"}
    BY <1>11
  <2>3. next \in KbAllSteps
    BY <2>2 DEF KbAllSteps, KbSteps
  <2>4. PICK p \in Int : p = IF next = "embed" THEN call.part + 1 ELSE call.part
    BY <1>6
  <2>5. r = [call EXCEPT !.step = next, !.part = p]
    BY <1>12, <2>4
  <2> QED
    BY <2>1, <2>2, <2>3, <2>4, <2>5 DEF KbCallIn
<1>15. PICK s : s = kbCalls'
  OBVIOUS
<1>16. /\ s \in Seq(KbCallIn(B)) /\ Len(s) = Len(kbCalls)
       /\ s[c] = r /\ \A d \in 1..Len(kbCalls) : d # c => s[d] = kbCalls[d]
  BY <1>1, <1>13, <1>14, <1>15, CallReplaced
<1>17. KbTyped'
  <2>1. row \in KbRow
    <3>1. c \in Nat
      BY <1>1
    <3> QED
      BY <1>6, <1>7, <3>1 DEF KbRow
  <2>2. Append(table, row) \in Seq(KbRow)
    BY <2>1 DEF KbIInv, KbTyped
  <2> QED
    BY <1>9, <1>15, <1>16, <2>2 DEF KbTyped
<1>18. KbFrame
  BY <1>1, <1>2, <1>4, <1>14, <1>15, <1>16 DEF KbFrame
<1>19. ASSUME NEW i \in 1..Len(table')
       PROVE  RowIsOfCall(table[i])'
  <2>1. PICK old : old = table[i]
    OBVIOUS
  <2>2. CASE i \in 1..n
    <3>1. RowIsOfCall(old)'
      BY <1>8, <1>18, <2>1, <2>2, RowKept DEF KbIInv
    <3>2. table'[i] = old
      BY <1>10, <2>1, <2>2
    <3> QED
      BY <3>1, <3>2 DEF RowIsOfCall, IsIndex
  <2>3. CASE i = n + 1
    <3>1. /\ row.by = c /\ row.doc = call.ask.doc /\ row.part = call.part
      BY <1>7
    <3>2. /\ c \in 1..Len(kbCalls') /\ kbCalls'[c].ask = call.ask
          /\ kbCalls'[c].step # "sent"
      BY <1>14, <1>15, <1>16
    <3> QED
      BY <1>5, <1>6, <1>10, <2>3, <3>1, <3>2 DEF RowIsOfCall, IsIndex
  <2> QED
    BY <1>10, <2>2, <2>3
<1>20. ASSUME NEW d \in 1..Len(kbCalls), d # c
       PROVE  CallIsFine(d)'
  <2>1. CallIsFine(d) /\ kbCalls'[d] = kbCalls[d]
    BY <1>15, <1>16, <1>20 DEF KbIInv, CallIsFine
  <2>2. \A q : RowsOf(d, q)' = RowsOf(d, q)
    BY <1>10, <1>20
  <2>3. ASSUME \A i \in 1..Len(table) : table[i].by # d, NEW i \in 1..Len(table')
        PROVE  table'[i].by # d
    <3>1. row.by # d
      BY <1>7, <1>20
    <3> QED
      BY <1>8, <1>10, <2>3, <3>1
  <2> QED
    BY <1>18, <2>1, <2>2, <2>3, OthersKept
<1>21. kbCalls'[c] = r
  BY <1>15, <1>16
<1>22. ChunkCount(c)' = ChunkCount(c) /\ ChunkCount(c) = Len(ChunkText(call.ask.job))
  BY <1>2, <1>14, <1>21 DEF ChunkCount
<1>23. ASSUME next \notin {"stuck", "lost"}
       PROVE  /\ ~NeverEnds(call.ask.job) /\ ChunkCount(c) \in Nat
              /\ call.part + 1 \in 0..ChunkCount(c)
              /\ next = "embed" => call.part + 1 \in 0..ChunkCount(c) - 1
              /\ Reached(c)' = call.part + 1
  <2>1. \/ call.part = FullDoc /\ ~NeverEnds(call.ask.job)
        \/ ~NeverEnds(call.ask.job) /\ call.part \in 0..ChunkCount(c) - 1
    BY <1>2, <1>3, <1>4, <1>5, <1>11, <1>23 DEF CallIsFine, PartIsDue, Writing
  <2>2. ChunkCount(c) \in Nat
    BY <1>6, <1>22, <2>1, TextIsCovered
  <2>3. call.part + 1 \in 0..ChunkCount(c)
    BY <2>1, <2>2 DEF FullDoc
  <2>4. \/ next = "embed" /\ call.part + 1 < ChunkCount(c)
        \/ next = "answered" /\ ~(call.part + 1 < ChunkCount(c))
    BY <1>11, <1>22, <1>23
  <2>5. Reached(c)' = IF next = "answered" THEN ChunkCount(c) ELSE r.part
    BY <1>14, <1>21, <1>22 DEF Reached
  <2> QED
    BY <1>6, <1>14, <2>1, <2>2, <2>3, <2>4, <2>5
<1>24. CallIsFine(c)'
  <2>1. KindOf(c)'
    BY <1>5, <1>14, <1>21 DEF KindOf
  <2>2. PartIsDue(c)'
    BY <1>14, <1>21, <1>22, <1>23 DEF PartIsDue, Writing
  <2>3. RowsAreWritten(c)'
    <3> SUFFICES ASSUME next \notin {"stuck", "lost"}, call.deleted = "no", NEW q \in Int, q >= FullDoc
                 PROVE  PartIsThere(c, q)'
      BY <1>14, <1>21 DEF RowsAreWritten, Writing
    <3>1. Reached(c)' = call.part + 1
      BY <1>23
    <3>2. Reached(c) = call.part
      BY <1>2, <1>4 DEF Reached
    <3>3. PartIsThere(c, q)
      BY <1>2, <1>3, <1>4, <1>5 DEF CallIsFine, RowsAreWritten, Writing
    <3>4. CASE q = call.part
      <4>1. RowsOf(c, q) = {}
        BY <1>6, <3>2, <3>3, <3>4 DEF PartIsThere
      <4>2. RowsOf(c, q)' = {n + 1}
        BY <1>10, <3>4, <4>1
      <4>3. n + 1 \in 1..Len(table')
        BY <1>10
      <4> QED
        BY <1>6, <3>1, <3>4, <4>2, <4>3 DEF PartIsThere
    <3>5. CASE q < call.part
      <4>1. PICK i \in 1..Len(table) : RowsOf(c, q) = {i}
        BY <3>2, <3>3, <3>5 DEF PartIsThere
      <4>2. RowsOf(c, q)' = {i}
        BY <1>6, <1>10, <3>5, <4>1
      <4>3. i \in 1..Len(table') /\ q < Reached(c)'
        BY <1>6, <1>8, <1>10, <3>1, <3>5
      <4> QED
        BY <4>2, <4>3 DEF PartIsThere
    <3>6. CASE q > call.part
      <4>1. RowsOf(c, q) = {}
        BY <1>6, <3>2, <3>3, <3>6 DEF PartIsThere
      <4>2. RowsOf(c, q)' = {} /\ ~(q < Reached(c)')
        BY <1>6, <1>10, <3>1, <3>6, <4>1
      <4> QED
        BY <4>2 DEF PartIsThere
    <3> QED
      BY <1>6, <3>4, <3>5, <3>6
  <2>4. RowsAreGone(c)'
    BY <1>6, <1>14, <1>21 DEF RowsAreGone
  <2>5. HitIsRow(c)'
    BY <1>5, <1>14, <1>21 DEF HitIsRow
  <2>6. DoneIsAnswered(c)'
    BY <1>3, <1>18, DoneKept DEF CallIsFine
  <2> QED
    BY <2>1, <2>2, <2>3, <2>4, <2>5, <2>6 DEF CallIsFine
<1>25. \A d \in 1..Len(kbCalls') : CallIsFine(d)'
  BY <1>15, <1>16, <1>20, <1>24
<1> QED
  BY <1>17, <1>19, <1>25 DEF KbIInv, CallIsFine

\* The parts of a call that was answered and whose document nobody deletes.
LEMMA PartsOfAlone ==
    ASSUME KbIInv, NEW d \in 1..Len(kbCalls), IsIndex(d), Answered(d), kbCalls[d].deleted = "no"
    PROVE  /\ ChunkCount(d) \in Nat
           /\ \A i \in 1..Len(table) : table[i].by = d => table[i].part \in FullDoc..ChunkCount(d) - 1
           /\ \A q \in FullDoc..ChunkCount(d) - 1 : \E i \in 1..Len(table) : RowsOf(d, q) = {i}
<1>1. CallIsFine(d) /\ KbTyped
  BY DEF KbIInv, CallIsFine
<1>2. PICK call : call = kbCalls[d]
  OBVIOUS
<1>3. ~NeverEnds(call.ask.job) /\ call.ask.job \in Job
  <2>1. call.ask \in Asks
    BY <1>1, <1>2, KbFields
  <2>2. call.ask.job \in Job
    BY <1>2, <2>1, AsksAre DEF IsIndex
  <2> QED
    BY <1>1, <1>2, <2>2 DEF CallIsFine, PartIsDue, Answered
<1>4. PICK n \in Nat : n = ChunkCount(d)
  BY <1>2, <1>3, TextIsCovered DEF ChunkCount
<1>5. Reached(d) = n
  BY <1>4 DEF Reached, Answered
<1>6. \A q \in Int : q >= FullDoc => PartIsThere(d, q)
  BY <1>1 DEF CallIsFine, RowsAreWritten, Answered
<1>7. ASSUME NEW i \in 1..Len(table), table[i].by = d
      PROVE  table[i].part \in FullDoc..n - 1
  <2>1. PICK q : q = table[i].part
    OBVIOUS
  <2>2. q \in Int /\ q >= FullDoc
    <3>1. table[i] \in KbRow /\ RowIsOfCall(table[i])
      BY <1>1, KbFields DEF KbIInv
    <3> QED
      BY <2>1, <3>1 DEF KbRow, RowIsOfCall
  <2>3. i \in RowsOf(d, q)
    BY <1>7, <2>1 DEF RowsOf
  <2>4. q < n
    BY <1>5, <1>6, <2>2, <2>3 DEF PartIsThere
  <2> QED
    BY <2>1, <2>2, <2>4 DEF FullDoc
<1>8. ASSUME NEW q \in FullDoc..n - 1
      PROVE  \E i \in 1..Len(table) : RowsOf(d, q) = {i}
  <2>1. q \in Int /\ q >= FullDoc /\ q < n
    BY <1>8 DEF FullDoc
  <2> QED
    BY <1>5, <1>6, <2>1 DEF PartIsThere
<1> QED
  BY <1>4, <1>7, <1>8

\* What a search finds.
LEMMA SearchKeeps ==
    ASSUME KbIInv, NEW c \in 1..Len(kbCalls), KbSearches(c)
    PROVE  KbIInv'
<1>1. PICK B : kbCalls \in Seq(KbCallIn(B))
  BY DEF KbIInv, KbTyped
<1>2. PICK call : call = kbCalls[c]
  OBVIOUS
<1>3. CallIsFine(c) /\ KbTyped /\ table' = table /\ call.step = "search"
  BY <1>2 DEF KbIInv, CallIsFine, KbSearches
<1>4. call.ask.kind \in {"search", "context"} /\ call \in KbCallIn(B)
  BY <1>1, <1>2, <1>3 DEF CallIsFine, KindOf
<1>5. PICK r : /\ kbCalls' = [kbCalls EXCEPT ![c] = r]
               /\ r \in KbCallIn(B)
               /\ r.ask = call.ask /\ r.done = call.done /\ r.deleted = call.deleted
               /\ \/ r.step = "answered" /\ r.answer = call.answer
                  \/ /\ r.step = IF call.ask.kind = "search" THEN "answered" ELSE "neighbours"
                     /\ \E i \in 1..Len(table) : r.answer.hit = <<table[i]>>
  <2>1. CASE table = <<>>
    <3>1. PICK r : r = [call EXCEPT !.step = "answered"]
      OBVIOUS
    <3>2. kbCalls' = [kbCalls EXCEPT ![c] = r]
      BY <1>2, <2>1, <3>1 DEF KbSearches
    <3>3. "answered" \in KbAllSteps
      BY DEF KbAllSteps
    <3>4. /\ r \in KbCallIn(B) /\ r.ask = call.ask /\ r.done = call.done /\ r.deleted = call.deleted
          /\ r.step = "answered" /\ r.answer = call.answer
      BY <1>4, <3>1, <3>3 DEF KbCallIn
    <3> QED
      BY <3>2, <3>4
  <2>2. CASE table # <<>>
    <3>1. PICK i \in 1..Len(table) :
             kbCalls' = [kbCalls EXCEPT
                            ![c].step = IF kbCalls[c].ask.kind = "search" THEN "answered" ELSE "neighbours",
                            ![c].answer.hit = <<table[i]>>]
      BY <2>2 DEF KbSearches
    <3>2. PICK to : to = IF call.ask.kind = "search" THEN "answered" ELSE "neighbours"
      OBVIOUS
    <3>3. PICK r : r = [call EXCEPT !.step = to, !.answer.hit = <<table[i]>>]
      OBVIOUS
    <3>4. kbCalls' = [kbCalls EXCEPT ![c] = r]
      BY <1>2, <3>1, <3>2, <3>3
    <3>5. to \in KbAllSteps
      BY <3>2 DEF KbAllSteps, KbSteps
    <3>6. <<table[i]>> \in Seq(KbRow)
      BY <1>3, KbFields
    <3>7. PICK h : h = <<table[i]>>
      OBVIOUS
    <3>8. PICK a : a = [call.answer EXCEPT !.hit = h]
      OBVIOUS
    <3>9. call.answer \in [hit : Seq(KbRow), before : B, after : B]
      BY <1>4 DEF KbCallIn
    <3>10. a \in [hit : Seq(KbRow), before : B, after : B] /\ a.hit = h
      BY <3>6, <3>7, <3>8, <3>9
    <3>11. r = [call EXCEPT !.step = to, !.answer = a]
      BY <1>4, <3>3, <3>7, <3>8 DEF KbCallIn
    <3>12. /\ r \in KbCallIn(B) /\ r.ask = call.ask /\ r.done = call.done
           /\ r.deleted = call.deleted /\ r.step = to /\ r.answer = a
      BY <1>4, <3>5, <3>10, <3>11 DEF KbCallIn
    <3> QED
      BY <3>2, <3>4, <3>7, <3>10, <3>12
  <2> QED
    BY <2>1, <2>2
<1>6. PICK s : s = kbCalls'
  OBVIOUS
<1>7. /\ s \in Seq(KbCallIn(B)) /\ Len(s) = Len(kbCalls)
      /\ s[c] = r /\ \A d \in 1..Len(kbCalls) : d # c => s[d] = kbCalls[d]
  BY <1>1, <1>5, <1>6, CallReplaced
<1>8. KbTyped'
  BY <1>3, <1>6, <1>7 DEF KbTyped
<1>9. KbFrame
  BY <1>1, <1>2, <1>3, <1>5, <1>6, <1>7 DEF KbFrame
<1>10. ASSUME NEW i \in 1..Len(table)
       PROVE  RowIsOfCall(table[i])'
  <2>1. PICK row : row = table[i]
    OBVIOUS
  <2>2. RowIsOfCall(row)'
    BY <1>9, <2>1, RowKept DEF KbIInv
  <2> QED
    BY <1>3, <2>1, <2>2 DEF RowIsOfCall, IsIndex
<1>11. ASSUME NEW d \in 1..Len(kbCalls), d # c
       PROVE  CallIsFine(d)'
  <2>1. CallIsFine(d) /\ kbCalls'[d] = kbCalls[d]
    BY <1>6, <1>7, <1>11 DEF KbIInv, CallIsFine
  <2>2. \A q : RowsOf(d, q)' = RowsOf(d, q)
    BY <1>3 DEF RowsOf
  <2> QED
    BY <1>3, <1>9, <2>1, <2>2, OthersKept
<1>12. kbCalls'[c] = r
  BY <1>6, <1>7
<1>13. CallIsFine(c)'
  <2>1. KindOf(c)' /\ ~IsIndex(c)'
    BY <1>4, <1>5, <1>12 DEF KindOf, IsIndex
  <2>2. DoneIsAnswered(c)'
    BY <1>3, <1>9, DoneKept DEF CallIsFine
  <2>3. HitIsRow(c)'
    <3>1. CASE r.step = "answered" /\ r.answer = call.answer
      <4>1. call.ask.kind = "context" => call.answer.hit = <<>>
        BY <1>2, <1>3 DEF CallIsFine, HitIsRow
      <4> QED
        BY <1>5, <1>12, <3>1, <4>1 DEF HitIsRow
    <3>2. CASE /\ r.step = IF call.ask.kind = "search" THEN "answered" ELSE "neighbours"
               /\ \E i \in 1..Len(table) : r.answer.hit = <<table[i]>>
      <4>1. PICK i \in 1..Len(table) : r.answer.hit = <<table[i]>>
        BY <3>2
      <4>2. PICK row : row = table[i]
        OBVIOUS
      <4>3. r.answer.hit # <<>> /\ r.answer.hit[1] = row
        BY <4>1, <4>2
      <4>4. RowIsOfCall(row)' /\ RowIsOfCall(row)
        BY <1>9, <4>2, RowKept DEF KbIInv
      <4>5. ASSUME row.by \in r.done, Alone(row.by)'
            PROVE  row.part < ChunkCount(row.by)'
        <5>1. row.by \in 1..Len(kbCalls) /\ IsIndex(row.by)
          BY <4>4 DEF RowIsOfCall
        <5>2. Alone(row.by)
          BY <1>9, <4>5, <5>1, AloneKept
        <5>3. Answered(row.by)
          BY <1>2, <1>3, <1>5, <4>5 DEF CallIsFine, DoneIsAnswered
        <5>4. ChunkCount(row.by) \in Nat /\ row.part \in FullDoc..ChunkCount(row.by) - 1
          BY <4>2, <5>1, <5>2, <5>3, PartsOfAlone DEF Alone
        <5>5. ChunkCount(row.by)' = ChunkCount(row.by)
          BY <1>9, <5>1 DEF KbFrame, ChunkCount
        <5> QED
          BY <5>4, <5>5 DEF FullDoc
      <4> QED
        BY <1>5, <1>12, <3>2, <4>3, <4>4, <4>5 DEF HitIsRow
    <3> QED
      BY <1>5, <3>1, <3>2
  <2> QED
    BY <2>1, <2>2, <2>3 DEF CallIsFine
<1>14. \A d \in 1..Len(kbCalls') : CallIsFine(d)'
  BY <1>6, <1>7, <1>11, <1>13
<1> QED
  BY <1>3, <1>8, <1>10, <1>14 DEF KbIInv, CallIsFine

\* A set whose elements are numbered from 0 to n - 1 has n elements.
LEMMA CountedFromZero ==
    ASSUME NEW n \in Nat, NEW S, NEW f, \A i \in S : f[i] \in 0..n - 1,
           \A q \in 0..n - 1 : \E i \in S : f[i] = q,
           \A i, j \in S : f[i] = f[j] => i = j
    PROVE  Cardinality(S) = n
<1> DEFINE g == [q \in 0..n - 1 |-> CHOOSE i \in S : f[i] = q]
<1>1. \A q \in 0..n - 1 : g[q] \in S /\ f[g[q]] = q
  OBVIOUS
<1> HIDE DEF g
<1>2. g \in [0..n - 1 -> S]
  <2>1. DOMAIN g = 0..n - 1 /\ g = [q \in 0..n - 1 |-> g[q]]
    BY DEF g
  <2> QED
    BY <1>1, <2>1
<1>3. \A i \in S : \E q \in 0..n - 1 : g[q] = i
  <2> SUFFICES ASSUME NEW i \in S
               PROVE  g[f[i]] = i /\ f[i] \in 0..n - 1
    OBVIOUS
  <2> QED
    BY <1>1
<1>4. \A p, q \in 0..n - 1 : g[p] = g[q] => p = q
  BY <1>1
<1>5. ExistsBijection(0..n - 1, S)
  <2>1. IsInjective(g)
    BY <1>2, <1>4 DEF IsInjective
  <2>2. g \in Bijection(0..n - 1, S)
    BY <1>2, <1>3, <2>1 DEF Bijection, Injection, Surjection
  <2> QED
    BY <2>2 DEF ExistsBijection
<1>6. IsFiniteSet(0..n - 1) /\ Cardinality(0..n - 1) = n
  BY FS_Interval
<1> QED
  BY <1>5, <1>6, FS_Bijection

\* The chunks of a document that one call indexed and nobody deletes.
LEMMA ChunksOfAlone ==
    ASSUME KbIInv, NEW d \in 1..Len(kbCalls), IsIndex(d), Answered(d), Alone(d),
           NEW doc, doc = kbCalls[d].ask.doc
    PROVE  /\ ChunkCount(d) \in Nat
           /\ ChunksOf(doc) = [m \in 1..ChunkCount(d) |-> [doc |-> doc, part |-> m - 1, by |-> d]]
<1> DEFINE found == {i \in 1..Len(table) : table[i].doc = doc /\ table[i].part # FullDoc}
           Before(i, j) == table[i].part < table[j].part \/ (table[i].part = table[j].part /\ i < j)
           Place(i) == Cardinality({j \in found : Before(j, i)}) + 1
<1>1. ChunksOf(doc) = [m \in 1..Cardinality(found) |-> table[CHOOSE i \in found : Place(i) = m]]
  BY DEF ChunksOf
<1>2. /\ ChunkCount(d) \in Nat
      /\ \A i \in 1..Len(table) : table[i].by = d => table[i].part \in FullDoc..ChunkCount(d) - 1
      /\ \A q \in FullDoc..ChunkCount(d) - 1 : \E i \in 1..Len(table) : RowsOf(d, q) = {i}
  BY PartsOfAlone DEF Alone
<1>3. PICK n \in Nat : n = ChunkCount(d)
  BY <1>2
<1>4. \A i \in 1..Len(table) : table[i] \in KbRow /\ RowIsOfCall(table[i])
  BY KbFields DEF KbIInv
<1>5. \A i \in found : i \in 1..Len(table) /\ table[i].by = d /\ table[i].part \in 0..n - 1
  <2> SUFFICES ASSUME NEW i \in found
               PROVE  table[i].by = d /\ table[i].part \in 0..n - 1
    OBVIOUS
  <2>1. PICK e : e = table[i].by
    OBVIOUS
  <2>2. e \in 1..Len(kbCalls) /\ IsIndex(e) /\ kbCalls[e].ask.doc = doc
    BY <1>4, <2>1 DEF RowIsOfCall
  <2>3. e = d
    BY <2>2 DEF Alone
  <2>4. table[i].part \in FullDoc..n - 1
    BY <1>2, <1>3, <2>1, <2>3
  <2> QED
    BY <2>1, <2>3, <2>4 DEF FullDoc
<1>6. \A q \in 0..n - 1 : \E i \in found : table[i].part = q
  <2> SUFFICES ASSUME NEW q \in 0..n - 1
               PROVE  \E i \in found : table[i].part = q
    OBVIOUS
  <2>0. q \in FullDoc..n - 1
    BY DEF FullDoc
  <2>1. PICK i \in 1..Len(table) : RowsOf(d, q) = {i}
    BY <1>2, <1>3, <2>0
  <2>2. table[i].by = d /\ table[i].part = q
    <3>1. i \in RowsOf(d, q)
      BY <2>1
    <3> QED
      BY <3>1 DEF RowsOf
  <2>3. table[i].doc = doc
    BY <1>4, <2>2 DEF RowIsOfCall
  <2> QED
    BY <2>2, <2>3 DEF FullDoc
<1>7. \A i, j \in found : table[i].part = table[j].part => i = j
  <2> SUFFICES ASSUME NEW i \in found, NEW j \in found, table[i].part = table[j].part
               PROVE  i = j
    OBVIOUS
  <2>1. PICK q \in 0..n - 1 : q = table[i].part
    BY <1>5
  <2>0. q \in FullDoc..n - 1
    BY <2>1 DEF FullDoc
  <2>2. PICK k \in 1..Len(table) : RowsOf(d, q) = {k}
    BY <1>2, <1>3, <2>0
  <2>3. i \in RowsOf(d, q) /\ j \in RowsOf(d, q)
    BY <1>5, <2>1 DEF RowsOf
  <2> QED
    BY <2>2, <2>3
<1> HIDE DEF found
<1>8. PICK f : f = [i \in found |-> table[i].part]
  OBVIOUS
<1>9. \A i \in found : f[i] = table[i].part
  BY <1>8
<1>10. Cardinality(found) = n
  <2>1. \A i \in found : f[i] \in 0..n - 1
    BY <1>5, <1>9
  <2>2. \A q \in 0..n - 1 : \E i \in found : f[i] = q
    BY <1>6, <1>9
  <2>3. \A i, j \in found : f[i] = f[j] => i = j
    BY <1>7, <1>9
  <2> HIDE <1>8, <1>9
  <2> QED
    BY <2>1, <2>2, <2>3, CountedFromZero
<1>11. ASSUME NEW i \in found
       PROVE  Place(i) = table[i].part + 1
  <2>1. PICK q \in 0..n - 1 : q = table[i].part
    BY <1>5
  <2>2. PICK S : S = {j \in found : Before(j, i)}
    OBVIOUS
  <2>3. \A j : j \in S <=> j \in found /\ table[j].part < q
    <3> SUFFICES ASSUME NEW j \in found
                 PROVE  Before(j, i) <=> table[j].part < q
      BY <2>2
    <3>1. table[j].part \in Nat
      BY <1>5
    <3>2. table[j].part = q => j = i
      BY <1>7, <2>1
    <3>3. j \in Int /\ i \in Int
      BY <1>5
    <3> QED
      BY <2>1, <3>1, <3>2, <3>3
  <2>4. Cardinality(S) = q
    <3>1. \A j \in S : f[j] \in 0..q - 1
      BY <1>5, <1>9, <2>3
    <3>2. \A p \in 0..q - 1 : \E j \in S : f[j] = p
      BY <1>6, <1>9, <2>3
    <3>3. \A j, k \in S : f[j] = f[k] => j = k
      BY <1>7, <1>9, <2>3
    <3> QED
      BY <3>1, <3>2, <3>3, CountedFromZero
  <2> QED
    BY <2>1, <2>2, <2>4
<1> HIDE DEF Place
<1>12. ASSUME NEW m \in 1..n
       PROVE  table[CHOOSE i \in found : Place(i) = m] = [doc |-> doc, part |-> m - 1, by |-> d]
  <2>1. PICK j : j = CHOOSE i \in found : Place(i) = m
    OBVIOUS
  <2>2. \E i \in found : Place(i) = m
    <3>1. m - 1 \in 0..n - 1
      OBVIOUS
    <3>2. PICK i \in found : table[i].part = m - 1
      BY <1>6, <3>1
    <3> QED
      BY <1>11, <3>2
  <2>3. j \in found /\ Place(j) = m
    BY <2>1, <2>2
  <2>4. table[j].part = m - 1
    BY <1>5, <1>11, <2>3
  <2>5. table[j].doc = doc
    BY <2>3 DEF found
  <2>6. table[j] \in KbRow /\ table[j].by = d
    BY <1>4, <1>5, <2>3
  <2>7. table[j] = [doc |-> table[j].doc, part |-> table[j].part, by |-> table[j].by]
    BY <2>6 DEF KbRow
  <2> QED
    BY <2>1, <2>4, <2>5, <2>6, <2>7
<1> QED
  BY <1>1, <1>3, <1>10, <1>12

\* One element of a sequence.
LEMMA OneOf ==
    ASSUME NEW T, NEW s \in Seq(T), NEW i \in 1..Len(s)
    PROVE  SubSeq(s, i, i) = <<s[i]>>
<1>1. PICK t : t = SubSeq(s, i, i)
  OBVIOUS
<1>2. i - i + 1 = 1 /\ i \in Int
  OBVIOUS
<1>3. t = [k \in 1..1 |-> s[i + k - 1]]
  BY <1>1, <1>2 DEF SubSeq
<1>4. \A k \in 1..1 : i + k - 1 = i
  OBVIOUS
<1>5. t = [k \in 1..1 |-> s[i]]
  BY <1>3, <1>4
<1> QED
  BY <1>1, <1>5

\* The elements on either side of one.
LEMMA Beside ==
    ASSUME NEW T, NEW chunks \in Seq(T), NEW pos \in 1..Len(chunks)
    PROVE  /\ pos > 1 => SubSeq(chunks, Max({1, pos - Around}), pos - 1) = <<chunks[pos - 1]>>
           /\ pos < Len(chunks)
                 => SubSeq(chunks, pos + 1, Min({pos + Around, Len(chunks)})) = <<chunks[pos + 1]>>
<1>1. ASSUME pos > 1
      PROVE  SubSeq(chunks, Max({1, pos - Around}), pos - 1) = <<chunks[pos - 1]>>
  <2>1. PICK k \in 1..Len(chunks) : k = pos - 1 /\ k = pos - Around
    BY <1>1 DEF Around
  <2>2. Max({1, k}) = k
    BY MaxOfTwo
  <2>3. SubSeq(chunks, k, k) = <<chunks[k]>>
    BY OneOf
  <2> QED
    BY <2>1, <2>2, <2>3
<1>2. ASSUME pos < Len(chunks)
      PROVE  SubSeq(chunks, pos + 1, Min({pos + Around, Len(chunks)})) = <<chunks[pos + 1]>>
  <2>1. PICK k \in 1..Len(chunks) : k = pos + 1 /\ k = pos + Around
    BY <1>2 DEF Around
  <2>2. Min({k, Len(chunks)}) = k
    BY MinOfTwo
  <2>3. SubSeq(chunks, k, k) = <<chunks[k]>>
    BY OneOf
  <2> QED
    BY <2>1, <2>2, <2>3
<1> QED
  BY <1>1, <1>2

\* The neighbours of what a search found.
LEMMA NeighboursKeep ==
    ASSUME KbIInv, NEW c \in 1..Len(kbCalls), KbReadsNeighbours(c)
    PROVE  KbIInv'
<1>1. PICK B : kbCalls \in Seq(KbCallIn(B))
  BY DEF KbIInv, KbTyped
<1>2. PICK call : call = kbCalls[c]
  OBVIOUS
<1>3. CallIsFine(c) /\ KbTyped /\ table' = table /\ call.step = "neighbours"
  BY <1>2 DEF KbIInv, CallIsFine, KbReadsNeighbours
<1>4. call.ask.kind = "context" /\ call \in KbCallIn(B)
  BY <1>1, <1>2, <1>3 DEF CallIsFine, KindOf
<1>5. PICK hit : hit = call.answer.hit[1]
  OBVIOUS
<1>6. PICK chunks : chunks = ChunksOf(hit.doc)
  OBVIOUS
<1>7. PICK at : at = {n \in 1..Len(chunks) : chunks[n].part = hit.part}
  OBVIOUS
<1>8. PICK pos : pos = Min(at)
  OBVIOUS
<1>9. PICK b : b = IF at = {} THEN <<>> ELSE SubSeq(chunks, Max({1, pos - Around}), pos - 1)
  OBVIOUS
<1>10. PICK a : a = IF at = {} THEN <<>> ELSE SubSeq(chunks, pos + 1, Min({pos + Around, Len(chunks)}))
  OBVIOUS
<1>11. PICK ans : ans = [call.answer EXCEPT !.before = b, !.after = a]
  OBVIOUS
<1>12. PICK r : r = [call EXCEPT !.step = "answered", !.answer = ans]
  OBVIOUS
<1>13. PICK D : D = B \cup {a, b}
  OBVIOUS
<1>14. /\ ans \in [hit : Seq(KbRow), before : D, after : D]
       /\ ans.hit = call.answer.hit /\ ans.before = b /\ ans.after = a
  <2>1. call.answer \in [hit : Seq(KbRow), before : B, after : B]
    BY <1>4 DEF KbCallIn
  <2> QED
    BY <1>11, <1>13, <2>1
<1>15. /\ r \in KbCallIn(D) /\ r.ask = call.ask /\ r.done = call.done /\ r.deleted = call.deleted
       /\ r.step = "answered" /\ r.answer = ans
  <2>1. "answered" \in KbAllSteps
    BY DEF KbAllSteps
  <2> QED
    BY <1>4, <1>12, <1>14, <2>1 DEF KbCallIn
<1>16. kbCalls' = [kbCalls EXCEPT ![c] = r]
  <2>1. kbCalls' = [kbCalls EXCEPT ![c].step = "answered", ![c].answer.before = b, ![c].answer.after = a]
    BY <1>2, <1>5, <1>6, <1>7, <1>8, <1>9, <1>10 DEF KbReadsNeighbours
  <2>2. [kbCalls EXCEPT ![c].step = "answered", ![c].answer.before = b, ![c].answer.after = a]
           = [kbCalls EXCEPT ![c] = r]
    <3>1. r = [[[kbCalls[c] EXCEPT !.step = "answered"] EXCEPT !.answer.before = b] EXCEPT !.answer.after = a]
      <4>1. kbCalls[c].answer \in [hit : Seq(KbRow), before : B, after : B]
        BY <1>2, <1>4 DEF KbCallIn
      <4> QED
        BY <1>2, <1>4, <1>11, <1>12, <4>1 DEF KbCallIn
    <3> QED
      BY <3>1
  <2> QED
    BY <2>1, <2>2
<1>17. PICK s : s = kbCalls'
  OBVIOUS
<1>18. /\ s \in Seq(KbCallIn(D)) /\ Len(s) = Len(kbCalls)
       /\ s[c] = r /\ \A d \in 1..Len(kbCalls) : d # c => s[d] = kbCalls[d]
  <2>1. kbCalls \in Seq(KbCallIn(D))
    BY <1>1, <1>13, CallsIn
  <2>2. s = [kbCalls EXCEPT ![c] = r] /\ r \in KbCallIn(D)
    BY <1>15, <1>16, <1>17
  <2> QED
    BY <2>1, <2>2, CallReplaced
<1>19. KbTyped'
  BY <1>3, <1>17, <1>18 DEF KbTyped
<1>20. KbFrame
  BY <1>1, <1>2, <1>3, <1>15, <1>17, <1>18 DEF KbFrame
<1>21. ASSUME NEW i \in 1..Len(table)
       PROVE  RowIsOfCall(table[i])'
  <2>1. PICK row : row = table[i]
    OBVIOUS
  <2>2. RowIsOfCall(row)'
    BY <1>20, <2>1, RowKept DEF KbIInv
  <2> QED
    BY <1>3, <2>1, <2>2 DEF RowIsOfCall, IsIndex
<1>22. ASSUME NEW d \in 1..Len(kbCalls), d # c
       PROVE  CallIsFine(d)'
  <2>1. CallIsFine(d) /\ kbCalls'[d] = kbCalls[d]
    BY <1>17, <1>18, <1>22 DEF KbIInv, CallIsFine
  <2>2. \A q : RowsOf(d, q)' = RowsOf(d, q)
    BY <1>3 DEF RowsOf
  <2> QED
    BY <1>3, <1>20, <2>1, <2>2, OthersKept
<1>23. kbCalls'[c] = r
  BY <1>17, <1>18
<1>24. CallIsFine(c)'
  <2>1. KindOf(c)' /\ ~IsIndex(c)'
    BY <1>4, <1>15, <1>23 DEF KindOf, IsIndex
  <2>2. DoneIsAnswered(c)'
    BY <1>3, <1>20, DoneKept DEF CallIsFine
  <2>3. HitIsRow(c)'
    <3>1. /\ call.answer.hit # <<>> /\ RowIsOfCall(hit)
          /\ hit.by \in call.done /\ Alone(hit.by) => hit.part < ChunkCount(hit.by)
      BY <1>2, <1>3, <1>4, <1>5 DEF CallIsFine, HitIsRow
    <3>2. RowIsOfCall(hit)'
      BY <1>20, <3>1, RowKept
    <3>3. ASSUME hit.by \in call.done, Alone(hit.by)'
          PROVE  hit.part < ChunkCount(hit.by)' /\ FoundInContext(c)'
      <4>1. PICK d \in 1..Len(kbCalls) : d = hit.by /\ IsIndex(d)
        BY <3>1 DEF RowIsOfCall
      <4>2. Alone(d)
        BY <1>20, <3>3, <4>1, AloneKept
      <4>3. Answered(d)
        BY <1>2, <1>3, <3>3, <4>1 DEF CallIsFine, DoneIsAnswered
      <4>4. kbCalls'[d].ask = kbCalls[d].ask /\ ChunkCount(d)' = ChunkCount(d)
        BY <1>20 DEF KbFrame, ChunkCount
      <4>5. hit.doc = kbCalls[d].ask.doc
        BY <3>1, <4>1 DEF RowIsOfCall
      <4>6. PICK n : n = ChunkCount(d)
        OBVIOUS
      <4>7. /\ n \in Nat
            /\ chunks = [m \in 1..n |-> [doc |-> hit.doc, part |-> m - 1, by |-> d]]
        BY <1>6, <4>2, <4>3, <4>1, <4>5, <4>6, ChunksOfAlone
      <4>8. hit.part < n
        BY <3>1, <3>3, <4>1, <4>2, <4>6
      <4>9. hit = [doc |-> hit.doc, part |-> hit.part, by |-> d] /\ hit.part \in Int
        <5>1. call.answer.hit \in Seq(KbRow)
          BY <1>4 DEF KbCallIn
        <5>2. hit \in KbRow
          BY <1>5, <3>1, <5>1
        <5> QED
          BY <4>1, <5>2 DEF KbRow
      <4>10. ASSUME hit.part >= 0
             PROVE  /\ hit.part > 0 => b = <<[doc |-> hit.doc, part |-> hit.part - 1, by |-> d]>>
                    /\ hit.part + 1 < n => a = <<[doc |-> hit.doc, part |-> hit.part + 1, by |-> d]>>
        <5>1. PICK p \in 0..n - 1 : p = hit.part
          BY <4>7, <4>8, <4>9, <4>10
        <5>2. chunks \in Seq([doc : {hit.doc}, part : Int, by : {d}]) /\ Len(chunks) = n
          <6>1. \A m \in 1..n : [doc |-> hit.doc, part |-> m - 1, by |-> d]
                                  \in [doc : {hit.doc}, part : Int, by : {d}]
            OBVIOUS
          <6> QED
            BY <4>7, <6>1
        <5>3. \A m \in 1..n : chunks[m] = [doc |-> hit.doc, part |-> m - 1, by |-> d]
          BY <4>7
        <5>4. p + 1 \in 1..Len(chunks) /\ (p + 1) - 1 = p
          BY <4>7, <5>1, <5>2
        <5>5. at = {p + 1}
          <6>1. \A m \in 1..n : chunks[m].part = p <=> m = p + 1
            BY <4>7, <5>1, <5>3
          <6> QED
            BY <1>7, <5>1, <5>2, <5>4, <6>1
        <5>6. pos = p + 1
          <6>1. at \subseteq Nat /\ at # {}
            <7>1. p + 1 \in Nat
              BY <5>4
            <7> QED
              BY <5>5, <7>1, Zenon
          <6>2. pos \in at
            BY <1>8, <6>1, MinIs
          <6> QED
            BY <5>5, <6>2
        <5>7. p > 0 => b = <<chunks[p]>>
          <6>1. pos \in 1..Len(chunks) /\ pos - 1 = p /\ (p > 0 => pos > 1) /\ at # {}
            BY <5>1, <4>7, <5>4, <5>5, <5>6
          <6>2. pos > 1 => SubSeq(chunks, Max({1, pos - Around}), pos - 1) = <<chunks[pos - 1]>>
            BY <5>2, <6>1, Beside
          <6> QED
            BY <1>9, <6>1, <6>2
        <5>8. p + 1 < n => a = <<chunks[p + 2]>>
          <6>1. (p + 1) + 1 = p + 2
            BY <5>1, <4>7
          <6> QED
            BY <1>10, <5>2, <5>4, <5>5, <5>6, <6>1, Beside
        <5>9. p > 0 => chunks[p] = [doc |-> hit.doc, part |-> p - 1, by |-> d]
          BY <4>7, <5>1, <5>3
        <5>10. p + 1 < n => chunks[p + 2] = [doc |-> hit.doc, part |-> p + 1, by |-> d]
          <6>1. p + 1 < n => p + 2 \in 1..n /\ (p + 2) - 1 = p + 1
            BY <4>7, <5>1
          <6> QED
            BY <5>3, <6>1
        <5> QED
          BY <5>1, <5>7, <5>8, <5>9, <5>10
      <4>11. /\ [hit EXCEPT !.part = @ - 1] = [doc |-> hit.doc, part |-> hit.part - 1, by |-> d]
             /\ [hit EXCEPT !.part = @ + 1] = [doc |-> hit.doc, part |-> hit.part + 1, by |-> d]
        BY <4>9
      <4>12. kbCalls'[c].answer.hit[1] = hit /\ kbCalls'[c].answer.before = b /\ kbCalls'[c].answer.after = a
        BY <1>5, <1>14, <1>15, <1>23
      <4>13. Len(ChunkText(kbCalls'[d].ask.job)) = n
        BY <4>4, <4>6 DEF ChunkCount
      <4>14. FoundInContext(c)'
        BY <4>1, <4>9, <4>10, <4>11, <4>12, <4>13 DEF FoundInContext
      <4> QED
        BY <4>1, <4>4, <4>6, <4>8, <4>14
    <3> QED
      BY <1>5, <1>14, <1>15, <1>23, <3>1, <3>2, <3>3 DEF HitIsRow
  <2> QED
    BY <2>1, <2>2, <2>3 DEF CallIsFine
<1>25. \A d \in 1..Len(kbCalls') : CallIsFine(d)'
  BY <1>17, <1>18, <1>22, <1>24
<1> QED
  BY <1>3, <1>19, <1>21, <1>25 DEF KbIInv, CallIsFine

\* The deletion of a document.
LEMMA DeleteKeeps ==
    ASSUME KbIInv, NEW c \in 1..Len(kbCalls), KbDeletes(c)
    PROVE  KbIInv'
<1>1. PICK B : kbCalls \in Seq(KbCallIn(B))
  BY DEF KbIInv, KbTyped
<1>2. PICK doc : doc = kbCalls[c].ask.doc
  OBVIOUS
<1>3. PICK m \in Nat : m = Len(kbCalls)
  BY <1>1
<1>4. PICK keep : keep = {i \in 1..Len(table) : table[i].doc # doc}
  OBVIOUS
<1>5. PICK t : t = table'
  OBVIOUS
<1>6. table \in Seq(KbRow)
  BY DEF KbIInv, KbTyped
<1>7. t = Selected(table, keep) /\ keep \in SUBSET (1..Len(table))
  BY <1>2, <1>4, <1>5 DEF KbDeletes, Deleted
<1>8. Chosen(table, keep, Len(table), t)
  BY <1>6, <1>7, Selection
<1>9. /\ t \in Seq({table[k] : k \in 1..Len(table)})
      /\ \E at \in [1..Len(t) -> keep \cap 1..Len(table)] :
            /\ \A i \in 1..Len(t) : t[i] = table[at[i]]
            /\ \A i, j \in 1..Len(t) : i < j => at[i] < at[j]
            /\ \A k \in keep \cap 1..Len(table) : \E i \in 1..Len(t) : at[i] = k
  BY <1>8, Zenon DEF Chosen
<1>10. PICK at \in [1..Len(t) -> keep] :
          /\ \A i \in 1..Len(t) : t[i] = table[at[i]]
          /\ \A i, j \in 1..Len(t) : i < j => at[i] < at[j]
          /\ \A k \in keep : \E i \in 1..Len(t) : at[i] = k
  <2>1. keep \cap 1..Len(table) = keep
    BY <1>7
  <2> QED
    BY <1>9, <2>1
<1>11. t \in Seq(KbRow) /\ Len(t) \in Nat
  <2>1. PICK T : T = {table[k] : k \in 1..Len(table)}
    OBVIOUS
  <2>2. T \subseteq KbRow
    BY <1>6, <2>1
  <2>3. t \in Seq(T)
    BY <1>9, <2>1
  <2> QED
    BY <2>2, <2>3
<1>12. \A i, j \in 1..Len(t) : at[i] = at[j] => i = j
  <2> SUFFICES ASSUME NEW i \in 1..Len(t), NEW j \in 1..Len(t), i < j
               PROVE  at[i] # at[j]
    BY <1>11
  <2>1. at[i] \in Int /\ at[j] \in Int /\ at[i] < at[j]
    BY <1>7, <1>10
  <2> QED
    BY <2>1
<1>13. \A i \in 1..Len(t) : at[i] \in 1..Len(table) /\ t[i] = table[at[i]] /\ t[i].doc # doc
  BY <1>4, <1>10
<1>14. PICK s : s = kbCalls'
  OBVIOUS
<1>15. /\ s = [d \in 1..m |-> s[d]]
       /\ \A d \in 1..m : s[d] =
             IF d = c THEN [kbCalls[d] EXCEPT !.step = "answered"]
             ELSE IF IsIndex(d) /\ kbCalls[d].ask.doc = doc /\ kbCalls[d].step # "sent"
                  THEN [kbCalls[d] EXCEPT !.deleted = IF kbCalls[d].step \in KbSteps
                                                      THEN "during" ELSE "after"]
                  ELSE kbCalls[d]
  <2>1. s = [d \in 1..m |->
               CASE d = c -> [kbCalls[d] EXCEPT !.step = "answered"]
                 [] d # c /\ (IsIndex(d) /\ kbCalls[d].ask.doc = doc /\ kbCalls[d].step # "sent") ->
                      [kbCalls[d] EXCEPT !.deleted = IF kbCalls[d].step \in KbSteps
                                                     THEN "during" ELSE "after"]
                 [] OTHER -> kbCalls[d]]
    BY <1>2, <1>3, <1>14, Zenon DEF KbDeletes
  <2> QED
    BY <2>1
<1>16. CallIsFine(c) /\ KbTyped /\ kbCalls[c].step = "delete"
  BY DEF KbIInv, CallIsFine, KbDeletes
<1>17. kbCalls[c].ask.kind = "delete"
  BY <1>16 DEF CallIsFine, KindOf
<1>18. \A d \in 1..m : kbCalls[d] \in KbCallIn(B)
  BY <1>1, <1>3
<1>19. /\ s[c] \in KbCallIn(B)
       /\ s[c].ask = kbCalls[c].ask /\ s[c].done = kbCalls[c].done
       /\ s[c].deleted = kbCalls[c].deleted /\ s[c].step = "answered"
  <2>1. s[c] = [kbCalls[c] EXCEPT !.step = "answered"]
    BY <1>3, <1>15
  <2>2. "answered" \in KbAllSteps
    BY DEF KbAllSteps
  <2> QED
    BY <1>3, <1>18, <2>1, <2>2 DEF KbCallIn
<1>20. ASSUME NEW d \in 1..m, d # c, IsIndex(d), kbCalls[d].ask.doc = doc, kbCalls[d].step # "sent"
       PROVE  /\ s[d] \in KbCallIn(B)
              /\ s[d].ask = kbCalls[d].ask /\ s[d].done = kbCalls[d].done
              /\ s[d].step = kbCalls[d].step /\ s[d].part = kbCalls[d].part
              /\ s[d].deleted = IF kbCalls[d].step \in KbSteps THEN "during" ELSE "after"
  <2>1. PICK when \in {"during", "after"} : when = IF kbCalls[d].step \in KbSteps THEN "during" ELSE "after"
    OBVIOUS
  <2>2. s[d] = [kbCalls[d] EXCEPT !.deleted = when]
    BY <1>15, <1>20, <2>1
  <2> QED
    BY <1>18, <2>1, <2>2 DEF KbCallIn
<1>21. ASSUME NEW d \in 1..m, d # c,
              ~(IsIndex(d) /\ kbCalls[d].ask.doc = doc /\ kbCalls[d].step # "sent")
       PROVE  s[d] = kbCalls[d]
  BY <1>15, <1>21
<1>22. s \in Seq(KbCallIn(B)) /\ Len(s) = m
  <2>1. PICK T : T = KbCallIn(B)
    OBVIOUS
  <2>2. \A d \in 1..m : s[d] \in T
    BY <1>18, <1>19, <1>20, <1>21, <2>1
  <2>3. s \in Seq(T) /\ Len(s) = m
    BY <1>3, <1>15, <2>2
  <2> QED
    BY <2>1, <2>3
<1> HIDE <1>15
<1>23. KbTyped'
  BY <1>5, <1>11, <1>14, <1>22 DEF KbTyped
<1>24. KbFrame
  <2>1. ASSUME NEW d \in 1..m
        PROVE  /\ s[d].ask = kbCalls[d].ask /\ s[d].done = kbCalls[d].done
               /\ s[d].deleted = "no" => kbCalls[d].deleted = "no"
               /\ kbCalls[d].step # "sent" => s[d].step # "sent"
               /\ kbCalls[d].step = "answered" => s[d].step = "answered"
    BY <1>19, <1>20, <1>21
  <2> QED
    BY <1>3, <1>14, <1>22, <2>1 DEF KbFrame
<1>25. ASSUME NEW i \in 1..Len(table')
       PROVE  RowIsOfCall(table[i])'
  <2>1. PICK row : row = table[at[i]]
    OBVIOUS
  <2>2. table'[i] = row /\ at[i] \in 1..Len(table)
    BY <1>5, <1>13, <2>1
  <2>3. RowIsOfCall(row)'
    BY <1>24, <2>1, <2>2, RowKept DEF KbIInv
  <2> QED
    BY <2>2, <2>3 DEF RowIsOfCall, IsIndex
<1>26. \A i \in 1..Len(table) : RowIsOfCall(table[i])
  BY DEF KbIInv
<1>27. ASSUME NEW d \in 1..m, d # c, s[d] = kbCalls[d],
              ~(IsIndex(d) /\ kbCalls[d].ask.doc = doc /\ kbCalls[d].step # "sent")
       PROVE  CallIsFine(d)'
  <2>1. CallIsFine(d) /\ kbCalls'[d] = kbCalls[d]
    BY <1>3, <1>14, <1>27 DEF KbIInv, CallIsFine
  <2>2. \A i \in 1..Len(table) : table[i].by = d => i \in keep
    BY <1>4, <1>26, <1>27 DEF RowIsOfCall
  <2>3. ASSUME NEW q, NEW i \in 1..Len(table), RowsOf(d, q) = {i}
        PROVE  \E j \in 1..Len(t) : RowsOf(d, q)' = {j}
    <3>1. i \in keep /\ table[i].by = d /\ table[i].part = q
      <4>1. i \in RowsOf(d, q)
        BY <2>3
      <4> QED
        BY <2>2, <4>1 DEF RowsOf
    <3>2. PICK j \in 1..Len(t) : at[j] = i
      BY <1>10, <3>1
    <3>3. ASSUME NEW k \in 1..Len(t)
          PROVE  k \in RowsOf(d, q)' <=> k = j
      <4>1. k \in RowsOf(d, q)' <=> at[k] \in RowsOf(d, q)
        BY <1>5, <1>13 DEF RowsOf
      <4>2. at[k] \in RowsOf(d, q) <=> at[k] = at[j]
        BY <2>3, <3>2
      <4> QED
        BY <1>12, <4>1, <4>2
    <3>4. RowsOf(d, q)' \subseteq 1..Len(t)
      BY <1>5 DEF RowsOf
    <3> QED
      BY <3>3, <3>4
  <2>4. ASSUME NEW q, RowsOf(d, q) = {}
        PROVE  RowsOf(d, q)' = {}
    <3>1. ASSUME NEW k \in 1..Len(t)
          PROVE  ~(t[k].by = d /\ t[k].part = q)
      <4>1. at[k] \notin RowsOf(d, q)
        BY <2>4
      <4> QED
        BY <1>13, <4>1 DEF RowsOf
    <3> QED
      BY <1>5, <3>1 DEF RowsOf
  <2>5. \A q : PartIsThere(d, q) => PartIsThere(d, q)'
    <3>1. Reached(d)' = Reached(d)
      BY <2>1 DEF Reached, ChunkCount
    <3> QED
      BY <1>5, <2>3, <2>4, <3>1 DEF PartIsThere
  <2>6. (\A i \in 1..Len(table) : table[i].by # d) => \A i \in 1..Len(table') : table'[i].by # d
    BY <1>5, <1>13
  <2> QED
    BY <1>3, <1>24, <2>1, <2>5, <2>6, PartsKept
<1>28. ASSUME NEW d \in 1..m, d # c, IsIndex(d), kbCalls[d].ask.doc = doc, kbCalls[d].step # "sent"
       PROVE  CallIsFine(d)'
  <2>1. CallIsFine(d)
    BY <1>3 DEF KbIInv, CallIsFine
  <2>2. /\ kbCalls'[d].ask = kbCalls[d].ask
        /\ kbCalls'[d].step = kbCalls[d].step /\ kbCalls'[d].part = kbCalls[d].part
        /\ kbCalls'[d].deleted = IF kbCalls[d].step \in KbSteps THEN "during" ELSE "after"
    BY <1>14, <1>20, <1>28
  <2>3. KindOf(d)'
    BY <2>1, <2>2 DEF CallIsFine, KindOf
  <2>4. PartIsDue(d)'
    <3>1. ChunkCount(d)' = ChunkCount(d)
      BY <2>2 DEF ChunkCount
    <3> QED
      BY <1>28, <2>1, <2>2, <3>1 DEF CallIsFine, PartIsDue
  <2>5. RowsAreWritten(d)'
    BY <2>2 DEF RowsAreWritten
  <2>6. RowsAreGone(d)'
    <3>1. ASSUME NEW i \in 1..Len(t)
          PROVE  t[i].by # d
      <4>1. table[at[i]].by = d => t[i].doc = doc
        BY <1>13, <1>26, <1>28 DEF RowIsOfCall
      <4> QED
        BY <1>13, <4>1
    <3>2. kbCalls[d].step \in KbAllSteps
      BY <1>18 DEF KbCallIn
    <3>3. kbCalls[d].step \notin KbSteps => kbCalls[d].step \in {"stuck", "answered", "failed", "lost"}
      BY <1>28, <3>2 DEF KbAllSteps
    <3> QED
      BY <1>5, <2>2, <3>1, <3>3 DEF RowsAreGone
  <2>7. HitIsRow(d)'
    <3>1. kbCalls'[d].ask.kind # "context"
      BY <1>28, <2>2 DEF IsIndex
    <3> QED
      BY <3>1 DEF HitIsRow
  <2>8. DoneIsAnswered(d)'
    BY <1>3, <1>24, <2>1, DoneKept DEF CallIsFine
  <2> QED
    BY <2>3, <2>4, <2>5, <2>6, <2>7, <2>8 DEF CallIsFine
<1>29. CallIsFine(c)'
  <2>1. kbCalls'[c].ask.kind = "delete" /\ kbCalls'[c].step = "answered"
    BY <1>14, <1>17, <1>19
  <2>2. KindOf(c)' /\ ~IsIndex(c)' /\ HitIsRow(c)'
    BY <2>1 DEF KindOf, IsIndex, HitIsRow
  <2>3. DoneIsAnswered(c)'
    BY <1>16, <1>24, DoneKept DEF CallIsFine
  <2> QED
    BY <2>2, <2>3 DEF CallIsFine
<1>30. \A d \in 1..Len(kbCalls') : CallIsFine(d)'
  BY <1>14, <1>21, <1>22, <1>27, <1>28, <1>29
<1> QED
  BY <1>23, <1>25, <1>30 DEF KbIInv, CallIsFine

\* Nothing is there at the start.
LEMMA KbInitHolds ==
    ASSUME KbInit
    PROVE  KbIInv
<1>1. table = <<>> /\ kbCalls = <<>> /\ Len(table) = 0 /\ Len(kbCalls) = 0
  BY DEF KbInit
<1>2. table \in Seq(KbRow)
  BY <1>1
<1>3. kbCalls \in Seq(KbCallIn({}))
  <2>1. PICK T : T = KbCallIn({})
    OBVIOUS
  <2>2. <<>> \in Seq(T)
    OBVIOUS
  <2> QED
    BY <1>1, <2>1, <2>2
<1>4. KbTyped
  BY <1>2, <1>3 DEF KbTyped
<1>5. 1..Len(table) = {} /\ 1..Len(kbCalls) = {}
  BY <1>1
<1> QED
  BY <1>4, <1>5 DEF KbIInv

\* The invariant and how a step keeps it: an action by an action.
LEMMA KbStepHolds ==
    ASSUME KbIInv, [KbNext]_kbVars
    PROVE  KbIInv'
<1>1. CASE KbRequests
  BY <1>1, RequestKeeps
<1>2. CASE KbCrash
  BY <1>2, CrashKeeps
<1>3. ASSUME NEW c \in 1..Len(kbCalls),
             \/ KbMisses(c) \/ KbTakes(c) \/ KbEmbeds(c) \/ KbFails(c)
             \/ KbEnsures(c) \/ KbCreates(c) \/ KbWrites(c)
             \/ KbSearches(c) \/ KbReadsNeighbours(c) \/ KbDeletes(c) \/ KbLists(c)
      PROVE  KbIInv'
  <2>1. CASE KbWrites(c)
    BY <2>1, WriteKeeps
  <2>2. CASE KbSearches(c)
    BY <2>2, SearchKeeps
  <2>3. CASE KbReadsNeighbours(c)
    BY <2>3, NeighboursKeep
  <2>4. CASE KbDeletes(c)
    BY <2>4, DeleteKeeps
  <2> QED
    BY <1>3, <2>1, <2>2, <2>3, <2>4, GoingsKeep
<1>4. CASE UNCHANGED kbVars
  <2>1. table' = table /\ kbCalls' = kbCalls
    BY <1>4 DEF kbVars
  <2>2. KbTyped'
    BY <2>1 DEF KbIInv, KbTyped
  <2>3. \A c \in 1..Len(kbCalls) : Moves(c)
    BY <2>1 DEF Moves
  <2> QED
    BY <2>1, <2>2, <2>3, MovesKeep
<1> QED
  BY <1>1, <1>2, <1>3, <1>4 DEF KbNext

\* What the invariant gives.
LEMMA KbIInvGives ==
    ASSUME KbIInv
    PROVE  KnowledgeIsKept
<1> SUFFICES ASSUME NEW c \in 1..Len(kbCalls)
             PROVE  /\ IsIndex(c) /\ Answered(c) /\ kbCalls[c].deleted = "no" => IndexedOnce(c)
                    /\ IsIndex(c) /\ kbCalls[c].deleted = "after" => \A i \in 1..Len(table) : table[i].by # c
                    /\ LET call == kbCalls[c]
                       IN  call.ask.kind = "context" /\ Answered(c) /\ call.answer.hit # <<>>
                             => LET d == call.answer.hit[1].by
                                IN  d \in call.done /\ Alone(d) => FoundInContext(c)
  BY DEF KnowledgeIsKept
<1>1. CallIsFine(c)
  BY DEF KbIInv, CallIsFine
<1>2. ASSUME IsIndex(c), Answered(c), kbCalls[c].deleted = "no"
      PROVE  IndexedOnce(c)
  <2>1. PICK job : job = kbCalls[c].ask.job
    OBVIOUS
  <2>2. job \in Job
    <3>1. kbCalls[c].ask \in Asks
      BY KbFields DEF KbIInv
    <3> QED
      BY <1>2, <2>1, <3>1, AsksAre DEF IsIndex
  <2>3. ~NeverEnds(job)
    BY <1>1, <1>2, <2>1 DEF CallIsFine, PartIsDue, Answered
  <2>4. Covers(job)
    BY <2>2, <2>3, TextIsCovered
  <2>5. \A q \in FullDoc..ChunkCount(c) - 1 : \E i \in 1..Len(table) : RowsOf(c, q) = {i}
    BY <1>2, PartsOfAlone
  <2>6. \A q \in FullDoc..ChunkCount(c) - 1 : Cardinality(RowsOf(c, q)) = 1
    BY <2>5, FS_Singleton
  <2> QED
    BY <2>1, <2>4, <2>6 DEF IndexedOnce, ChunkCount
<1>3. IsIndex(c) /\ kbCalls[c].deleted = "after" => \A i \in 1..Len(table) : table[i].by # c
  BY <1>1 DEF CallIsFine, RowsAreGone
<1>4. ASSUME kbCalls[c].ask.kind = "context", Answered(c), kbCalls[c].answer.hit # <<>>,
             kbCalls[c].answer.hit[1].by \in kbCalls[c].done, Alone(kbCalls[c].answer.hit[1].by)
      PROVE  FoundInContext(c)
  BY <1>1, <1>4 DEF CallIsFine, HitIsRow, Answered
<1> QED
  BY <1>2, <1>3, <1>4

\* The invariant of cafe-knowledgebase, in every behaviour.
THEOREM KnowledgeInductive == KbSpec => []KbIInv
<1>1. KbInit => KbIInv
  BY KbInitHolds
<1>2. KbIInv /\ [KbNext]_kbVars => KbIInv'
  BY KbStepHolds
<1> QED
  BY <1>1, <1>2, PTL DEF KbSpec

\* A document whose index call was answered is found in full until it is deleted.
THEOREM KnowledgeKept == KbSpec => []KnowledgeIsKept
<1>1. KbIInv => KnowledgeIsKept
  BY KbIInvGives
<1> QED
  BY <1>1, KnowledgeInductive, PTL

\* The fields of the rows and of the calls have their types.
THEOREM KnowledgeTyped == KbSpec => []KbTypeOK
<1> DEFINE Rest == opened \in BOOLEAN /\ kbCrashes \in 0..MaxKbCrashes
<1>1. KbInit => Rest
  <2>1. MaxKbCrashes \in Nat
    BY KbAssumption
  <2>2. 0 \in 0..MaxKbCrashes
    BY <2>1
  <2> QED
    BY <2>2, Zenon DEF KbInit
<1>2. Rest /\ [KbNext]_kbVars => Rest'
  <2> SUFFICES ASSUME Rest, [KbNext]_kbVars
               PROVE  Rest'
    OBVIOUS
  <2>1. CASE KbCrash
    BY <2>1, KbAssumption DEF KbCrash
  <2>2. CASE KbRequests
    BY <2>2 DEF KbRequests
  <2>3. ASSUME NEW c \in 1..Len(kbCalls),
               \/ KbMisses(c) \/ KbTakes(c) \/ KbEmbeds(c) \/ KbFails(c)
               \/ KbEnsures(c) \/ KbCreates(c) \/ KbWrites(c)
               \/ KbSearches(c) \/ KbReadsNeighbours(c) \/ KbDeletes(c) \/ KbLists(c)
        PROVE  Rest'
    <3>1. kbCrashes' = kbCrashes
      BY <2>3 DEF KbMisses, KbTakes, KbEmbeds, KbFails, KbEnsures, KbCreates, KbWrites,
                  KbSearches, KbReadsNeighbours, KbDeletes, KbLists
    <3>2. opened' = opened \/ opened' = TRUE
      BY <2>3 DEF KbMisses, KbTakes, KbEmbeds, KbFails, KbEnsures, KbCreates, KbWrites,
                  KbSearches, KbReadsNeighbours, KbDeletes, KbLists
    <3> QED
      BY <3>1, <3>2
  <2>4. CASE UNCHANGED kbVars
    BY <2>4 DEF kbVars
  <2> QED
    BY <2>1, <2>2, <2>3, <2>4 DEF KbNext
<1>3. KbIInv /\ Rest => KbTypeOK
  <2> SUFFICES ASSUME KbIInv, Rest
               PROVE  KbTypeOK
    OBVIOUS
  <2>1. \A i \in 1..Len(table) : table[i] \in KbRow /\ RowIsOfCall(table[i])
    BY KbFields DEF KbIInv
  <2>2. \A c \in 1..Len(kbCalls) : kbCalls[c].step \in KbAllSteps
    BY KbFields DEF KbIInv
  <2> QED
    BY <2>1, <2>2 DEF KbTypeOK, KbRow, RowIsOfCall, KbAllSteps
<1> HIDE DEF Rest
<1> QED
  BY <1>1, <1>2, <1>3, KnowledgeInductive, PTL DEF KbSpec

=============================================================================
