----------------------------- MODULE SessionLog -----------------------------
(***************************************************************************)
(* One session of the bus as the services around it see it: the chunks in  *)
(* the order the bus took them.  BusSession shows that a subscriber is     *)
(* given the history, then HistoryComplete, then every later chunk in that *)
(* order; here a subscription is the length of the log when it was made    *)
(* and the number of chunks its owner has dealt with.  BusClient::publish  *)
(* writes over a connection of its own and waits for no answer: a chunk    *)
(* may be on its way while its publisher goes on.                          *)
(***************************************************************************)
EXTENDS Integers, Sequences

CONSTANT
    Reader      \* the tasks that hold a subscription to the session

Kind == {"user", "abort", "tick", "config", "request", "response", "text", "done",
         "toolcall", "note", "error"}

\* id: the call (or user message) a chunk belongs to; info: what readers look at.
Chunk == [kind : Kind, id : Nat, info : STRING]

VARIABLES
    log,        \* the chunks of the session, in the order of the bus
    net,        \* chunks published over connections of their own, not yet taken
    at,         \* at[p]: Len(log) when p subscribed, -1 before that
    pos         \* pos[p]: how much of the log p has dealt with

logVars == <<log, net, at, pos>>

\* A chunk that is not transient stays in the history.
Durable(c) == c.kind \notin {"request", "response"}

Published(kind, id) == {i \in 1..Len(log) : log[i].kind = kind /\ log[i].id = id}

\* Was the chunk at i given to p after HistoryComplete?
Live(p, i) == i > at[p]

\* The chunk p deals with next, if it only acts on chunks that satisfy Acts.
Upcoming(p, Acts(_)) ==
    LET rest == {i \in pos[p] + 1..Len(log) : Acts(log[i])}
    IN  {i \in rest : \A j \in rest : i <= j}

Subscribe(p) ==
    /\ at[p] = -1
    /\ at' = [at EXCEPT ![p] = Len(log)]
    /\ UNCHANGED <<log, net, pos>>

\* The bus takes a chunk that was on its way, over whichever connection.
Arrive(c) ==
    /\ log' = Append(log, c)
    /\ net' = net \ {c}
    /\ UNCHANGED <<at, pos>>

\* The tasks in late subscribe when there is something in the session already.
LogInit(late) ==
    /\ log = <<>>
    /\ net = {}
    /\ at = [p \in Reader |-> IF p \in late THEN -1 ELSE 0]
    /\ pos = [p \in Reader |-> 0]

LogTypeOK ==
    /\ log \in Seq(Chunk)
    /\ net \subseteq Chunk
    /\ at \in [Reader -> Int]
    /\ pos \in [Reader -> Nat]

=============================================================================
