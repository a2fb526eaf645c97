-------------------------- MODULE StorePersistence --------------------------
(***************************************************************************)
(* cafe-store and the bus it persists (cafe-store/src/bus_client.rs, db.rs, *)
(* main.rs and run_with_reconnect of cafe-sdk).  The store subscribes to    *)
(* every session, writes durable chunks to its database in the order in     *)
(* which they reach it, and gives sessions that a new bus does not know     *)
(* back to it.  The bus keeps everything in memory and may stop; the store  *)
(* may be stopped and started.                                              *)
(*                                                                         *)
(* Only durable chunks are modelled (the filter of the store leaves out     *)
(* the transient ones), by their id.  Three queues separate the two: events *)
(* of the registry that the listener of the subscription has not seen,      *)
(* chunks that a forwarder has not written, and the socket (inbox).         *)
(***************************************************************************)
EXTENDS Selections, Integers, Sequences, SequencesExt

CONSTANTS
    Session,    \* session ids
    Id,         \* chunk ids; each is published once by its author
    None,       \* no session
    MaxStops,   \* bound on how often the bus or the store is stopped
    MaxCreates  \* bound on how many sessions other clients create or fork

ASSUME NoneAssumption == None \notin Session
ASSUME BoundsAssumption == MaxStops \in Nat /\ MaxCreates \in Nat

VARIABLES
    stops,      \* how often something was stopped (only to bound it)
    creates,    \* how many sessions other clients created (only to bound it)
    busUp,      \* does the bus run?
    live,       \* the sessions of the registry
    hist,       \* hist[s]: SessionState.history
    published,  \* the ids published so far
    events,     \* registry events the listener of the store's subscription has not handled
    feeds,      \* the forwarders of that subscription
    inbox,      \* messages written to the store and not handled
    phase,      \* where connect_and_run is
    linked,     \* is the store's subscription connected?
    rows,       \* the sessions table
    chunks,     \* chunks[s]: the ids in the chunks table for session s, by seq
    todo,       \* sessions restore_from_db has still to create
    current,    \* the session whose chunks it publishes, or None
    replay,     \* the chunks of current it has still to publish
    sending,    \* Publish messages it wrote that the bus has not handled
    altered,    \* ids that were forked or retired by somebody
    owed        \* <<session, id>> that the last restore has to bring back

bus == <<busUp, live, hist>>
feed == <<events, feeds>>
db == <<rows, chunks>>
restore == <<todo, current, replay>>
count == <<stops, creates>>
vars == <<count, bus, published, feed, inbox, phase, linked, db, restore, sending, altered, owed>>

Phase == {"connect", "settle", "restore", "serve", "ended"}

Created(s) == [kind |-> "created", session |-> s]
Deleted(s) == [kind |-> "deleted", session |-> s]
Stored(s, x) == [kind |-> "chunk", session |-> s, id |-> x]
Retired(s, x) == [kind |-> "delete", session |-> s, id |-> x]

Message == [kind : {"created", "deleted"}, session : Session]
           \cup [kind : {"chunk", "delete"}, session : Session, id : Id]

\* A forwarder: its session, whether that still exists, and what its receiver holds.
Feed == [session : Session, open : BOOLEAN, queue : Seq(Message)]

\* The history of s as messages.
Replay(s) == [k \in DOMAIN hist[s] |-> Stored(s, hist[s][k])]

\* The forwarders once message m was broadcast on session s.
Broadcast(s, m) ==
    [k \in DOMAIN feeds |->
        IF feeds[k].session = s /\ feeds[k].open
        THEN [feeds[k] EXCEPT !.queue = Append(@, m)] ELSE feeds[k]]

\* The ids of q without x.
Without(q, x) == Selected(q, {n \in 1..Len(q) : q[n] # x})

\* A forwarder ends once it has written everything of a session that is gone.
Unfinished(fs) == Selected(fs, {k \in 1..Len(fs) : fs[k].open \/ fs[k].queue # <<>>})

\* Registry events reach a subscription that is connected.
Emit(m) == IF linked THEN Append(events, m) ELSE events

-----------------------------------------------------------------------------
(* The bus and its other clients. *)

CreateSession(s) ==
    /\ busUp
    /\ s \notin live
    /\ creates < MaxCreates
    /\ creates' = creates + 1
    /\ live' = live \cup {s}
    /\ hist' = [hist EXCEPT ![s] = <<>>]
    /\ events' = Emit(Created(s))
    /\ owed' = {o \in owed : o[1] # s}
    /\ UNCHANGED <<stops, busUp, published, feeds, inbox, phase, linked, db, restore, sending,
                   altered>>

\* The new session holds the same chunks, under the same ids.
ForkSession(p, s) ==
    /\ busUp
    /\ p \in live
    /\ s \notin live
    /\ creates < MaxCreates
    /\ creates' = creates + 1
    /\ live' = live \cup {s}
    /\ hist' = [hist EXCEPT ![s] = hist[p]]
    /\ events' = Emit(Created(s))
    /\ altered' = altered \cup {hist[p][k] : k \in DOMAIN hist[p]}
    /\ owed' = {o \in owed : o[1] # s}
    /\ UNCHANGED <<stops, busUp, published, feeds, inbox, phase, linked, db, restore, sending>>

\* The forwarders of the session still write what they hold.
DeleteSession(s) ==
    /\ busUp
    /\ s \in live
    /\ live' = live \ {s}
    /\ hist' = [hist EXCEPT ![s] = <<>>]
    /\ events' = Emit(Deleted(s))
    /\ feeds' = Unfinished([k \in DOMAIN feeds |->
          IF feeds[k].session = s THEN [feeds[k] EXCEPT !.open = FALSE] ELSE feeds[k]])
    /\ owed' = {o \in owed : o[1] # s}
    /\ UNCHANGED <<count, busUp, published, inbox, phase, linked, db, restore, sending, altered>>

Publish(s, x) ==
    /\ busUp
    /\ s \in live
    /\ x \notin published
    /\ published' = published \cup {x}
    /\ hist' = [hist EXCEPT ![s] = Append(@, x)]
    /\ feeds' = Broadcast(s, Stored(s, x))
    /\ UNCHANGED <<count, busUp, live, events, inbox, phase, linked, db, restore, sending,
                   altered, owed>>

\* A delete signal for chunk x.
Retire(s, x) ==
    /\ busUp
    /\ s \in live
    /\ x \in published \ altered
    /\ hist' = [hist EXCEPT ![s] = Without(@, x)]
    /\ feeds' = Broadcast(s, Retired(s, x))
    /\ altered' = altered \cup {x}
    /\ owed' = owed \ {<<s, x>>}
    /\ UNCHANGED <<count, busUp, live, published, events, inbox, phase, linked, db, restore,
                   sending>>

\* The bus stops and forgets everything.  What it has written can still be read.
BusStops ==
    /\ busUp
    /\ stops < MaxStops
    /\ stops' = stops + 1
    /\ busUp' = FALSE
    /\ live' = {}
    /\ hist' = [s \in Session |-> <<>>]
    /\ events' = <<>>
    /\ feeds' = <<>>
    /\ linked' = FALSE
    /\ sending' = <<>>
    /\ owed' = {}
    /\ UNCHANGED <<creates, published, inbox, phase, db, restore, altered>>

BusStarts ==
    /\ ~busUp
    /\ busUp' = TRUE
    /\ UNCHANGED <<count, live, hist, published, feed, inbox, phase, linked, db, restore, sending,
                   altered, owed>>

-----------------------------------------------------------------------------
(* The subscription (SubscribeFiltered). *)

Attached(s) == [session |-> s, open |-> TRUE, queue |-> <<>>]

\* Mutant of Announce: what was published before the listener saw the event is not
\* replayed.
OnlyAnnounces(s) == <<Created(s)>>

\* What the bus writes for a session that it starts to forward.
Announce(s) == <<Created(s)>> \o Replay(s)

\* What it writes for the sessions it has, one after the other.
Snapshot(order) ==
    LET written[n \in 0..Len(order)] ==
            IF n = 0 THEN <<>> ELSE written[n - 1] \o Announce(order[n])
    IN  written[Len(order)]

\* The store connects: the bus writes the sessions it has and forwards them.
Connect ==
    /\ phase = "connect"
    /\ busUp
    /\ \E order \in SetToSeqs(live) :
          /\ inbox' = Snapshot(order)
          /\ feeds' = [k \in DOMAIN order |-> Attached(order[k])]
    /\ events' = <<>>
    /\ linked' = TRUE
    /\ phase' = "settle"
    /\ UNCHANGED <<count, bus, published, db, restore, sending, altered, owed>>

\* The listener takes the next registry event.
Listen ==
    /\ linked
    /\ events # <<>>
    /\ events' = Tail(events)
    /\ LET e == Head(events)
           s == e.session
       IN \/ /\ e.kind = "created" /\ s \in live
             /\ inbox' = inbox \o Announce(s)
             /\ feeds' = Append(feeds, Attached(s))
          \/ /\ e.kind = "created" /\ s \notin live
             /\ UNCHANGED <<inbox, feeds>>
          \/ /\ e.kind = "deleted"
             /\ inbox' = Append(inbox, e)
             /\ UNCHANGED feeds
    /\ UNCHANGED <<count, bus, published, phase, linked, db, restore, sending, altered, owed>>

\* A forwarder writes its next chunk.
Forward(k) ==
    /\ feeds[k].queue # <<>>
    /\ inbox' = Append(inbox, Head(feeds[k].queue))
    /\ feeds' = Unfinished([feeds EXCEPT ![k].queue = Tail(@)])
    /\ UNCHANGED <<count, bus, published, events, phase, linked, db, restore, sending, altered,
                   owed>>

-----------------------------------------------------------------------------
(* The store. *)

\* list_sessions of the database, without the sessions the bus has.
Absent == rows \ live

\* load_history: the chunks of the session by their sequence number.
LoadHistory(s) == chunks[s]

\* After 500 ms: which sessions of the database does the bus not have?
ListSessions ==
    /\ phase = "settle"
    /\ busUp
    /\ phase' = "restore"
    /\ todo' = Absent
    /\ owed' = {o \in Absent \X Id : o[2] \in ToSet(chunks[o[1]])}
    /\ UNCHANGED <<count, bus, published, feed, inbox, linked, db, current, replay, sending, altered>>

\* list_sessions fails: nothing is restored.
ListFails ==
    /\ phase = "settle"
    /\ ~busUp
    /\ phase' = "serve"
    /\ UNCHANGED <<count, bus, published, feed, inbox, linked, db, restore, sending, altered, owed>>

\* create_session, and load_history for what is to be published into it.
RestoreSession(s) ==
    /\ phase = "restore"
    /\ current = None
    /\ s \in todo
    /\ busUp
    /\ s \notin live
    /\ live' = live \cup {s}
    /\ hist' = [hist EXCEPT ![s] = <<>>]
    /\ events' = Emit(Created(s))
    /\ todo' = todo \ {s}
    /\ current' = s
    /\ replay' = LoadHistory(s)
    /\ UNCHANGED <<count, busUp, published, feeds, inbox, phase, linked, db, sending, altered, owed>>

\* create_session fails, because the bus is down or somebody else was faster.
RestoreFails(s) ==
    /\ phase = "restore"
    /\ current = None
    /\ s \in todo
    /\ ~busUp \/ s \in live
    /\ todo' = todo \ {s}
    /\ UNCHANGED <<count, bus, published, feed, inbox, phase, linked, db, current, replay, sending,
                   altered, owed>>

\* One chunk is written to a connection of its own; nobody waits for it.
ReplayOne ==
    /\ current # None
    /\ busUp
    /\ replay # <<>>
    /\ sending' = Append(sending, <<current, Head(replay)>>)
    /\ replay' = Tail(replay)
    /\ UNCHANGED <<count, bus, published, feed, inbox, phase, linked, db, todo, current, altered, owed>>

\* Mutant of ReplayEnds: the session is left after its first chunk.
EndsEarly ==
    /\ current # None
    /\ current' = None
    /\ replay' = <<>>
    /\ UNCHANGED <<count, bus, published, feed, inbox, phase, linked, db, todo, sending, altered, owed>>

\* All chunks of the session were published, or one could not be.
ReplayEnds ==
    /\ current # None
    /\ replay = <<>> \/ ~busUp
    /\ current' = None
    /\ replay' = <<>>
    /\ UNCHANGED <<count, bus, published, feed, inbox, phase, linked, db, todo, sending, altered, owed>>

\* The bus handles one of the Publish messages of the restore, in no certain order.
Accept(k) ==
    /\ sending' = RemoveAt(sending, k)
    /\ LET s == sending[k][1]
           x == sending[k][2]
       IN \/ /\ s \in live
             /\ hist' = [hist EXCEPT ![s] = Append(@, x)]
             /\ feeds' = Broadcast(s, Stored(s, x))
          \/ s \notin live /\ UNCHANGED <<hist, feeds>>
    /\ UNCHANGED <<count, busUp, live, published, events, inbox, phase, linked, db, restore, altered,
                   owed>>

RestoreEnds ==
    /\ phase = "restore"
    /\ current = None
    /\ todo = {}
    /\ phase' = "serve"
    /\ UNCHANGED <<count, bus, published, feed, inbox, linked, db, restore, sending, altered, owed>>

\* ensure_session and upsert_session leave one row per session.
Ensured(s) == rows \cup {s}

\* delete_session: the rows of its chunks go with it (ON DELETE CASCADE).
RowDeleted(s) ==
    /\ rows' = rows \ {s}
    /\ chunks' = [chunks EXCEPT ![s] = <<>>]

\* delete_chunk: only in the session the signal came from.
ChunkDeleted(s, x) == chunks' = [chunks EXCEPT ![s] = Without(@, x)]

\* Mutant of Known: a table without its primary key takes every insert.
NeverKnown(x) == FALSE

\* Ids are unique in the whole chunks table, ...
Known(x) == \E s \in Session : x \in ToSet(chunks[s])

\* insert_chunk: ... a duplicate is ignored, and a new one is the last of its session.
Inserted(s, x) == IF Known(x) THEN chunks ELSE [chunks EXCEPT ![s] = Append(@, x)]

\* The store handles the next message.
Handle ==
    /\ phase = "serve"
    /\ inbox # <<>>
    /\ inbox' = Tail(inbox)
    /\ LET m == Head(inbox)
       IN \/ m.kind = "created" /\ rows' = Ensured(m.session) /\ UNCHANGED chunks
          \/ m.kind = "deleted" /\ RowDeleted(m.session)
          \/ m.kind = "delete" /\ ChunkDeleted(m.session, m.id) /\ UNCHANGED rows
          \/ /\ m.kind = "chunk"
             /\ rows' = Ensured(m.session)
             /\ chunks' = Inserted(m.session, m.id)
    /\ UNCHANGED <<count, bus, published, feed, phase, linked, restore, sending, altered,
                   owed>>

\* The subscription ends: connect_and_run returns Ok, and run_with_reconnect takes
\* that for a clean shutdown.
SubscriptionEnds ==
    /\ phase = "serve"
    /\ ~linked
    /\ inbox = <<>>
    /\ phase' = "ended"
    /\ UNCHANGED <<count, bus, published, feed, inbox, linked, db, restore, sending, altered, owed>>

\* The process of the store is stopped anywhere and started again.
StoreRestarts ==
    /\ stops < MaxStops
    /\ stops' = stops + 1
    /\ phase' = "connect"
    /\ linked' = FALSE
    /\ events' = <<>>
    /\ feeds' = <<>>
    /\ inbox' = <<>>
    /\ todo' = {}
    /\ current' = None
    /\ replay' = <<>>
    /\ owed' = {}
    /\ UNCHANGED <<creates, bus, published, db, sending, altered>>

-----------------------------------------------------------------------------

Init ==
    /\ stops = 0
    /\ creates = 0
    /\ busUp = TRUE
    /\ live = {}
    /\ hist = [s \in Session |-> <<>>]
    /\ published = {}
    /\ events = <<>>
    /\ feeds = <<>>
    /\ inbox = <<>>
    /\ phase = "connect"
    /\ linked = FALSE
    /\ rows = {}
    /\ chunks = [s \in Session |-> <<>>]
    /\ todo = {}
    /\ current = None
    /\ replay = <<>>
    /\ sending = <<>>
    /\ altered = {}
    /\ owed = {}

ClientStep ==
    \/ \E s \in Session :
          \/ CreateSession(s)
          \/ DeleteSession(s)
          \/ \E p \in Session : ForkSession(p, s)
          \/ \E x \in Id : Publish(s, x) \/ Retire(s, x)

BusStep ==
    \/ Listen
    \/ \E k \in DOMAIN feeds : Forward(k)
    \/ \E k \in DOMAIN sending : Accept(k)

StoreStep ==
    \/ Connect
    \/ ListSessions
    \/ ListFails
    \/ \E s \in Session : RestoreSession(s) \/ RestoreFails(s)
    \/ ReplayOne
    \/ ReplayEnds
    \/ RestoreEnds
    \/ Handle
    \/ SubscriptionEnds

Next == ClientStep \/ BusStep \/ StoreStep \/ BusStops \/ BusStarts \/ StoreRestarts

\* A bus that stopped is started again, and the tasks of both processes are scheduled.
Fairness == WF_vars(BusStep) /\ WF_vars(StoreStep) /\ WF_vars(BusStarts)

Spec == Init /\ [][Next]_vars
FairSpec == Spec /\ Fairness

-----------------------------------------------------------------------------

\* The keys of the tables: a chunk is stored once, in one session, which has a row.
TablesAgree ==
    /\ \A s \in Session :
          /\ chunks[s] # <<>> => s \in rows
          /\ IsInjective(chunks[s])
    /\ \A s, p \in Session : s # p => ToSet(chunks[s]) \cap ToSet(chunks[p]) = {}

\* Types, and which parts of the state go together: a restore
\* is under way only in its phase, and only a connected store has forwarders.
TypeOK ==
    /\ count \in Nat \X Nat
    /\ busUp \in BOOLEAN
    /\ live \subseteq Session
    /\ hist \in [Session -> Seq(Id)]
    /\ published \subseteq Id
    /\ events \in Seq(Message)
    /\ feeds \in Seq(Feed)
    /\ inbox \in Seq(Message)
    /\ phase \in Phase
    /\ linked \in BOOLEAN
    /\ rows \subseteq Session
    /\ chunks \in [Session -> Seq(Id)]
    /\ todo \subseteq Session
    /\ current \in Session \cup {None}
    /\ replay \in Seq(Id)
    /\ sending \in Seq(Session \X Id)
    /\ altered \subseteq Id
    /\ owed \subseteq Session \X Id
    /\ current # None \/ todo # {} => phase = "restore"
    /\ ~linked => events = <<>> /\ feeds = <<>>
    /\ linked => busUp

\* The store has handled everything the bus had for it.
CaughtUp ==
    /\ phase = "serve" /\ linked
    /\ events = <<>> /\ inbox = <<>>
    /\ \A k \in DOMAIN feeds : feeds[k].queue = <<>>

\* Whatever was created, deleted, published and restored while the store was busy,
\* connecting, or not there at all, and however often a chunk reaches it (a replay, the
\* echo of its own restore): no chunk is stored twice or without its session, and once
\* the store has caught up, its database has every session of the bus and every chunk of
\* it that was not copied or retired.
DatabaseIsExact ==
    /\ TablesAgree
    /\ CaughtUp =>
        \A s \in live :
            /\ s \in rows
            /\ ToSet(hist[s]) \ altered \subseteq ToSet(chunks[s])

\* A restore brings back every session and chunk of the database that the bus did not
\* have, unless the bus stops, or somebody deletes or creates it meanwhile.
RestoreIsComplete ==
    phase = "serve" /\ sending = <<>> =>
        \A o \in owed : o[1] \in live /\ o[2] \in ToSet(hist[o[1]])

\* ADR-105: user sessions survive bus restarts.  A session that is in the database while
\* the bus is down comes back to the next one, unless its row is deleted.
SessionsSurvive ==
    \A s \in Session : (s \in rows /\ ~busUp) ~> (s \in live \/ s \notin rows)

=============================================================================
