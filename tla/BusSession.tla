---------------------------- MODULE BusSession ----------------------------
(***************************************************************************)
(* The delivery core of cafe-bus: sessions, their history and retained     *)
(* transient chunks, the per-session broadcast channel, the Subscribe      *)
(* handler of a connection (snapshot, replay, HistoryComplete) and the     *)
(* forwarder task it spawns (cafe-bus/src/session.rs, registry.rs and the  *)
(* Subscribe, Publish, CreateSession, ForkSession and DeleteSession arms   *)
(* of client.rs).                                                          *)
(*                                                                         *)
(* Chunks are named by their POSITION.  log[n] is everything published on  *)
(* incarnation n of a session, in the order the registry's write lock      *)
(* serialised the publishes.  The code's Vec<Chunk> history is the set     *)
(* kept[n] of positions (push appends, retain keeps the order, so the Vec  *)
(* is those positions in increasing order), and its Vec<(Chunk, Instant)>  *)
(* of retained chunks is the set ret[n] of [pos, deadline] pairs.  A fork  *)
(* copies its parent's positions; the broadcast channel of the fork holds  *)
(* only what is published after the fork, which a receiver cannot see past *)
(* because it starts at the end of the log.                                *)
(***************************************************************************)
EXTENDS BusChunks, FiniteSets

CONSTANTS
    Conn,       \* connections that subscribe
    Session,    \* session ids
    SubId,      \* executions of the Subscribe handler
    None,       \* "no such session" in the registry map
    Cap,        \* capacity of the broadcast channel (1024 in the code)
    Retain,     \* the transient.retain_secs annotation of a retained chunk
    MaxSends,   \* bound on the Publish messages
    MaxTime     \* bound on the clock

ASSUME CapAssumption == Cap \in Nat \ {0}
ASSUME BoundsAssumption == Retain \in Nat /\ MaxSends \in Nat /\ MaxTime \in Nat
ASSUME NameAssumption == None \notin Chan /\ Conn # {} /\ Chan # {}

VARIABLES
    sends,      \* how many Publish messages there were (only to bound them)
    now,        \* the monotonic clock read by Instant::now
    used,       \* the incarnations created so far
    current,    \* SessionRegistry.sessions: which incarnation a session id names
    log,        \* what was published on each incarnation
    kept,       \* SessionState.history, as positions of log
    ret,        \* SessionState.retained, as [pos, deadline] pairs
    conn,       \* "open", "hungup" (the client left, the bus has not noticed), "gone"
    subs        \* the Subscribe handlers and the forwarders they became

vars == <<sends, now, used, current, log, kept, ret, conn, subs>>
bus == <<sends, used, current, log, kept, ret>>

-----------------------------------------------------------------------------
(* Subscriptions. *)

Entry == [pos : Nat, deadline : Nat]

Phase == {"idle", "replay", "live", "lagged", "closed", "stopped"}

\* One Subscribe: who asked, on which incarnation, the part of the snapshot not
\* yet written, the length of the log at the snapshot, how far the receiver has
\* come, when the snapshot was taken, and what was written to the socket.
Sub == [conn : Conn, chan : Chan, phase : Phase,
        history : SUBSET Nat, retained : SUBSET Nat,
        from : Nat, cursor : Nat, at : Nat, got : Seq(Nat)]

\* Mutant of Unexpired: a prune that restarts the retention of what it keeps.
RestartsRetention(n) ==
    {[e EXCEPT !.deadline = now + Retain] : e \in {r \in ret[n] : r.deadline > now}}

\* SessionState::drain_retained and retained_with_deadlines: what has not expired.
Unexpired(n) == {e \in ret[n] : e.deadline > now}

\* The client loop of a connection handles one message at a time.  A message may
\* still be read from the socket of a client that has left.  Requests other than
\* Subscribe are atomic and may come from any connection, so theirs is not named.
Ready(c) == conn[c] # "gone" /\ \A i \in SubId : subs[i].phase = "replay" => subs[i].conn # c

Exists(s) == current[s] # None

-----------------------------------------------------------------------------
(* The registry, under its write lock. *)

BusChunk(n) == [id |-> n, kind |-> "durable", until |-> 0]

\* CreateSession: insert a session, empty or with the config and tags chunks the
\* handler publishes into it before the insert (one position stands for both: no
\* subscriber can come between them).
CreateSession(s, n) ==
    /\ ~Exists(s)
    /\ n \notin used
    /\ used' = used \cup {n}
    /\ current' = [current EXCEPT ![s] = n]
    /\ \/ UNCHANGED <<log, kept>>
       \/ /\ log' = [log EXCEPT ![n] = <<BusChunk(n)>>]
          /\ kept' = [kept EXCEPT ![n] = {1}]
    /\ UNCHANGED <<sends, now, ret, conn, subs>>

\* Mutant of HistoryAfter: a delete signal is broadcast but not applied.
KeepsTarget(n, ch, p) == IF ch.kind = "durable" THEN kept[n] \cup {p} ELSE kept[n]

\* The history of a session after chunk ch is published at position p.
HistoryAfter(n, ch, p) ==
    IF ch.kind = "delete" THEN {k \in kept[n] : log[n][k].id # ch.id}
    ELSE IF ch.kind = "durable" THEN kept[n] \cup {p}
    ELSE kept[n]

\* Mutant of RetainedAfter: the deadline is computed on the wrong side of now.
StoresPast(n, ch, p) ==
    IF ch.kind = "delete" THEN {e \in ret[n] : log[n][e.pos].id # ch.id}
    ELSE IF ch.kind = "retained" THEN ret[n] \cup {[pos |-> p, deadline |-> now - Retain]}
    ELSE ret[n]

\* The retained chunks of a session after chunk ch is published at position p.
RetainedAfter(n, ch, p) ==
    IF ch.kind = "delete" THEN {e \in ret[n] : log[n][e.pos].id # ch.id}
    ELSE IF ch.kind = "retained" THEN ret[n] \cup {[pos |-> p, deadline |-> ch.until]}
    ELSE ret[n]

\* SessionState::publish: apply a delete signal or store the chunk, then broadcast.
\* The tags chunk of SetSessionTags is published the same way.
Publish(s, id, kind) ==
    /\ Exists(s)
    /\ sends < MaxSends
    /\ sends' = sends + 1
    /\ LET n == current[s]
           p == Len(log[n]) + 1
           ch == [id |-> id, kind |-> kind,
                  until |-> IF kind = "retained" THEN now + Retain ELSE 0]
       IN /\ log' = [log EXCEPT ![n] = Append(@, ch)]
          /\ kept' = [kept EXCEPT ![n] = HistoryAfter(n, ch, p)]
          /\ ret' = [ret EXCEPT ![n] = RetainedAfter(n, ch, p)]
    /\ UNCHANGED <<now, used, current, conn, subs>>

\* SessionRegistry::fork: seed a new session with the parent's history and its
\* unexpired retained chunks (which prunes the parent), append the provenance
\* chunk, insert.
ForkSession(parent, s, n) ==
    /\ ~Exists(s)
    /\ Exists(parent)
    /\ n \notin used
    /\ LET m == current[parent]
           p == Len(log[m]) + 1
       IN /\ log' = [log EXCEPT ![n] = Append(log[m], BusChunk(n))]
          /\ kept' = [kept EXCEPT ![n] = kept[m] \cup {p}]
          /\ ret' = [ret EXCEPT ![n] = Unexpired(m), ![m] = Unexpired(m)]
    /\ used' = used \cup {n}
    /\ current' = [current EXCEPT ![s] = n]
    /\ UNCHANGED <<sends, now, conn, subs>>

\* DeleteSession: SessionRegistry::remove drops the SessionState and with it the
\* sender of its channel.
DeleteSession(s) ==
    /\ Exists(s)
    /\ current' = [current EXCEPT ![s] = None]
    /\ UNCHANGED <<sends, now, used, log, kept, ret, conn, subs>>

-----------------------------------------------------------------------------
(* The Subscribe handler and its forwarder. *)

\* Under the write lock: prune the expired retained chunks, copy history and
\* retained, and take a receiver that sees every later publish.
Subscribe(c, s, i) ==
    /\ Ready(c)
    /\ Exists(s)
    /\ subs[i].phase = "idle"
    /\ LET n == current[s] IN
          /\ ret' = [ret EXCEPT ![n] = Unexpired(n)]
          /\ subs' = [subs EXCEPT ![i] =
                [conn |-> c, chan |-> n, phase |-> "replay",
                 history |-> kept[n], retained |-> {e.pos : e \in Unexpired(n)},
                 from |-> Len(log[n]), cursor |-> Len(log[n]), at |-> now, got |-> <<>>]]
    /\ UNCHANGED <<sends, now, used, current, log, kept, conn>>

Least(S, p) == p \in S /\ \A q \in S : p <= q

\* One replayed chunk is written: history oldest first, then the retained chunks.
ReplayOne(i, p) ==
    /\ subs[i].phase = "replay"
    /\ conn[subs[i].conn] = "open"
    /\ \/ /\ Least(subs[i].history, p)
          /\ subs' = [subs EXCEPT ![i].history = @ \ {p}, ![i].got = Append(@, p)]
       \/ /\ subs[i].history = {}
          /\ Least(subs[i].retained, p)
          /\ subs' = [subs EXCEPT ![i].retained = @ \ {p}, ![i].got = Append(@, p)]
    /\ UNCHANGED <<now, bus, conn>>

\* Mutant of HistoryComplete: the receiver is taken after the replay, not with the
\* snapshot.
LateReceiver(i) ==
    /\ subs[i].phase = "replay"
    /\ subs[i].history = {}
    /\ subs[i].retained = {}
    /\ conn[subs[i].conn] = "open"
    /\ subs' = [subs EXCEPT ![i].phase = "live", ![i].cursor = Len(log[subs[i].chan])]
    /\ UNCHANGED <<now, bus, conn>>

\* HistoryComplete is written and the forwarder spawned.
HistoryComplete(i) ==
    /\ subs[i].phase = "replay"
    /\ subs[i].history = {}
    /\ subs[i].retained = {}
    /\ conn[subs[i].conn] = "open"
    /\ subs' = [subs EXCEPT ![i].phase = "live"]
    /\ UNCHANGED <<now, bus, conn>>

\* A write fails because the client has left: the replay is abandoned without
\* a forwarder, or the forwarder ends.
WriteFails(i) ==
    /\ subs[i].phase \in {"replay", "live"}
    /\ conn[subs[i].conn] # "open"
    /\ subs[i].phase = "live" => subs[i].cursor < Len(log[subs[i].chan])
    /\ subs' = [subs EXCEPT ![i].phase = "stopped"]
    /\ UNCHANGED <<now, bus, conn>>

\* The channel keeps the last Cap chunks: has the receiver's next one been overwritten?
Overrun(i) == Len(log[subs[i].chan]) - subs[i].cursor > Cap

\* rx.recv() returns the next chunk and the forwarder writes it.
Forward(i) ==
    /\ subs[i].phase = "live"
    /\ subs[i].cursor < Len(log[subs[i].chan])
    /\ ~Overrun(i)
    /\ conn[subs[i].conn] = "open"
    /\ subs' = [subs EXCEPT ![i].cursor = @ + 1, ![i].got = Append(@, subs[i].cursor + 1)]
    /\ UNCHANGED <<now, bus, conn>>

\* Mutant of Lag: the forwarder goes on with the oldest chunk still in the channel.
SkipsLagged(i) ==
    /\ subs[i].phase = "live"
    /\ Overrun(i)
    /\ conn[subs[i].conn] = "open"
    /\ subs' = [subs EXCEPT ![i].cursor = Len(log[subs[i].chan]) - Cap]
    /\ UNCHANGED <<now, bus, conn>>

\* rx.recv() returns Lagged: SUBSCRIBER_LAGGED is written and the forwarder ends.
Lag(i) ==
    /\ subs[i].phase = "live"
    /\ Overrun(i)
    /\ conn[subs[i].conn] = "open"
    /\ subs' = [subs EXCEPT ![i].phase = "lagged"]
    /\ UNCHANGED <<now, bus, conn>>

\* Mutant of Close: the forwarder ends as soon as the session is deleted.
ClosesEarly(i) ==
    /\ subs[i].phase = "live"
    /\ \A s \in Session : current[s] # subs[i].chan
    /\ subs' = [subs EXCEPT ![i].phase = "closed"]
    /\ UNCHANGED <<now, bus, conn>>

\* rx.recv() returns Closed: every chunk was taken and the session is gone.
Close(i) ==
    /\ subs[i].phase = "live"
    /\ subs[i].cursor = Len(log[subs[i].chan])
    /\ \A s \in Session : current[s] # subs[i].chan
    /\ subs' = [subs EXCEPT ![i].phase = "closed"]
    /\ UNCHANGED <<now, bus, conn>>

-----------------------------------------------------------------------------
(* Connections and time. *)

\* The client goes away; nothing in the bus has changed yet.
HangUp(c) ==
    /\ conn[c] = "open"
    /\ conn' = [conn EXCEPT ![c] = "hungup"]
    /\ UNCHANGED <<now, bus, subs>>

\* handle_connection after client_loop returned: the forwarders are aborted.
Cleanup(c) ==
    /\ conn[c] = "hungup"
    /\ \A i \in SubId : subs[i].phase = "replay" => subs[i].conn # c
    /\ conn' = [conn EXCEPT ![c] = "gone"]
    /\ subs' = [i \in SubId |->
          IF subs[i].phase = "live" /\ subs[i].conn = c
          THEN [subs[i] EXCEPT !.phase = "stopped"] ELSE subs[i]]
    /\ UNCHANGED <<now, bus>>

Tick ==
    /\ now < MaxTime
    /\ now' = now + 1
    /\ UNCHANGED <<bus, conn, subs>>

-----------------------------------------------------------------------------

Idle == [conn |-> CHOOSE c \in Conn : TRUE, chan |-> CHOOSE n \in Chan : TRUE,
         phase |-> "idle", history |-> {}, retained |-> {},
         from |-> 0, cursor |-> 0, at |-> 0, got |-> <<>>]

Init ==
    /\ sends = 0
    /\ now = 0
    /\ used = {}
    /\ current = [s \in Session |-> None]
    /\ log = [n \in Chan |-> <<>>]
    /\ kept = [n \in Chan |-> {}]
    /\ ret = [n \in Chan |-> {}]
    /\ conn = [c \in Conn |-> "open"]
    /\ subs = [i \in SubId |-> Idle]

RegistryStep ==
    \E s \in Session :
        \/ \E n \in Chan : CreateSession(s, n)
        \/ \E id \in Id, kind \in Kind : Publish(s, id, kind)
        \/ \E n \in used : Publish(s, n, "delete")
        \/ \E parent \in Session, n \in Chan : ForkSession(parent, s, n)
        \/ DeleteSession(s)
        \/ \E c \in Conn, i \in SubId : Subscribe(c, s, i)

\* The bus's own steps for subscription i: what the handler and the forwarder do
\* without waiting for anybody.
TaskStep(i) ==
    \/ \E p \in subs[i].history \cup subs[i].retained : ReplayOne(i, p)
    \/ HistoryComplete(i)
    \/ WriteFails(i)
    \/ Forward(i)
    \/ Lag(i)
    \/ Close(i)

Next ==
    \/ RegistryStep
    \/ \E i \in SubId : TaskStep(i)
    \/ \E c \in Conn : HangUp(c) \/ Cleanup(c)
    \/ Tick

\* The runtime keeps scheduling every task that can run, and an open connection
\* is read by its client.
Fairness == \A i \in SubId : WF_vars(TaskStep(i))

Spec == Init /\ [][Next]_vars
FairSpec == Spec /\ Fairness

-----------------------------------------------------------------------------
(* What a correct bus promises. *)

TypeOK ==
    /\ sends \in Nat
    /\ now \in Nat
    /\ used \subseteq Chan
    /\ current \in [Session -> Chan \cup {None}]
    /\ log \in [Chan -> Seq(Chunk)]
    /\ kept \in [Chan -> SUBSET Nat]
    /\ ret \in [Chan -> SUBSET Entry]
    /\ conn \in [Conn -> {"open", "hungup", "gone"}]
    /\ subs \in [SubId -> Sub]

\* The history kept by publish, delete signals and forks, one update at a time,
\* is the log minus the transient and the retired chunks: a chunk deleted before
\* a fork is absent from the fork, one deleted after it is unaffected there, and
\* a retired chunk can only come back by being published again.
HistoryIsLog == \A n \in Chan : kept[n] = Lasting(log[n], Len(log[n]))

\* Buffer r is right for log l at time t: it holds every retained chunk whose time
\* is not up and that was not retired, at the deadline set when it was published,
\* and nothing that was retired or never retained.
RightBuffer(l, r, t) ==
    /\ Retainable(l, Len(l), t) \subseteq {e.pos : e \in r}
    /\ \A e \in r :
          /\ e.pos \in 1..Len(l)
          /\ l[e.pos].kind = "retained"
          /\ e.deadline = l[e.pos].until
          /\ ~Retired(l, e.pos, Len(l))

\* No chain of forks, prunes and drains extends a retained chunk's life, loses it
\* early, or brings a retired one back.
RetentionIsExact == \A n \in Chan : RightBuffer(log[n], ret[n], now)

\* Of subscription s on log l, written to the socket so far: exactly the part of
\* the snapshot that is not pending and the later publishes up to the cursor, each
\* once and in order.
Exact(s, l) ==
    LET pending == s.history \cup s.retained
    IN /\ s.from <= s.cursor /\ s.cursor <= Len(l)
       /\ pending \subseteq Replayed(l, s.from, s.at)
       /\ {s.got[a] : a \in DOMAIN s.got} =
             (Replayed(l, s.from, s.at) \ pending) \cup (s.from + 1)..s.cursor
       /\ \A a, b \in DOMAIN s.got : a < b => Precedes(l, s.from, s.got[a], s.got[b])

\* Between the snapshot and the live forwarding nothing is lost, repeated or
\* reordered, whatever is published, retired, forked or deleted meanwhile.
DeliveryIsExact ==
    \A i \in SubId : subs[i].phase # "idle" => Exact(subs[i], log[subs[i].chan])

\* The strengthening that makes DeliveryIsExact inductive: what is pending is of
\* the snapshot and comes after all that was written, and a phase knows its cursor.
Consistent(s, l) ==
    /\ s.history \subseteq Lasting(l, s.from)
    /\ s.retained \subseteq Retainable(l, s.from, s.at)
    /\ s.phase = "replay" => s.cursor = s.from
    /\ s.phase = "live" => s.history = {} /\ s.retained = {}
    /\ \A a \in DOMAIN s.got, q \in s.history \cup s.retained :
          Precedes(l, s.from, s.got[a], q)

PendingIsConsistent ==
    \A i \in SubId : subs[i].phase # "idle" => Consistent(subs[i], log[subs[i].chan])

\* An incarnation is named by the registry or by a subscription only once it has
\* been used, and is blank until then.
Allocated ==
    /\ \A s \in Session : Exists(s) => current[s] \in used
    /\ \A i \in SubId : subs[i].phase # "idle" => subs[i].chan \in used
    /\ \A n \in Chan \ used : log[n] = <<>> /\ ret[n] = {}

IInv ==
    /\ TypeOK
    /\ Allocated
    /\ HistoryIsLog
    /\ RetentionIsExact
    /\ PendingIsConsistent
    /\ DeliveryIsExact

\* A subscription that waits for a chunk gets it, unless it is told that it
\* lagged, or its client is gone.
Outstanding(i, p) ==
    /\ subs[i].phase \in {"replay", "live"}
    /\ p \in subs[i].history \cup subs[i].retained \cup (subs[i].cursor + 1)..Len(log[subs[i].chan])

EveryChunkArrives ==
    \A i \in SubId, p \in 1..(MaxSends + Cardinality(Chan)) :
        Outstanding(i, p) ~> \/ \E a \in DOMAIN subs[i].got : subs[i].got[a] = p
                            \/ subs[i].phase = "lagged"
                            \/ conn[subs[i].conn] # "open"

\* The bus implements the abstract log: readers are subscriptions without their
\* snapshots and cursors.
ReaderState(phase) ==
    CASE phase = "idle" -> "idle"
      [] phase \in {"replay", "live"} -> "open"
      [] OTHER -> "ended"

Log == INSTANCE BusLog WITH
    ended <- {n \in used : \A s \in Session : current[s] # n},
    left <- {c \in Conn : conn[c] # "open"},
    time <- now,
    readers <- [i \in SubId |->
        [state |-> ReaderState(subs[i].phase), conn |-> subs[i].conn, chan |-> subs[i].chan,
         from |-> subs[i].from, at |-> subs[i].at, got |-> subs[i].got]]

ImplementsLog == Log!Spec

=============================================================================
