------------------------------ MODULE BusWatch ------------------------------
(***************************************************************************)
(* SubscribeAll and SubscribeFiltered of cafe-bus (client.rs), seen by one *)
(* watcher and for one session id: the snapshot taken under the registry's *)
(* lock, its announcement and replay, the listener that follows the        *)
(* registry events, and one forwarder for every attachment.  Only the      *)
(* durable chunks are here (BusSession has the others); a chunk is TRUE if *)
(* it matches the filter.                                                  *)
(***************************************************************************)
EXTENDS Integers, Sequences, SequencesExt, FiniteSets

CONSTANTS
    MaxIncs,     \* bound on the creations of the session
    MaxChunks,   \* bound on the chunks published, all together
    MaxTagged,   \* bound on the changes of the tags
    EventCap,    \* capacity of a receiver of registry events (256 in the code)
    StreamCap    \* capacity of a receiver of a session (1024 in the code)

ASSUME WatchAssumption ==
    /\ {MaxIncs, MaxChunks, MaxTagged} \subseteq Nat
    /\ {EventCap, StreamCap} \subseteq Nat \ {0}

VARIABLES
    stream,    \* stream[n]: the chunks published in incarnation n
    alive,     \* the incarnation in the registry, 0 if there is none
    tagged,    \* does the session match the filter?
    tagEdits,  \* changes of the tags so far
    filtered,  \* SubscribeFiltered, or SubscribeAll?
    watch,     \* what the watcher's listener does
    events,    \* registry events it has not received
    atts,      \* its attachments: incarnation, replay and forwarder
    seen,      \* seen[n]: positions of incarnation n written to the socket
    late       \* history: incarnations created before an older creation was handled

wVars == <<stream, alive, tagged, tagEdits, filtered, watch, events, atts, seen, late>>
sessionVars == <<stream, alive, tagged, tagEdits, filtered, late>>

\* The positions of the chunks of incarnation n that match (chunk_matches_filter).
Matching(n) == {i \in 1..Len(stream[n]) : stream[n][i] \/ ~filtered}

\* session_matches_filter, and whether the session is there.
Watched == alive # 0 /\ (filtered => tagged)

Listens == watch \notin {"out", "ended", "closed"}

\* The event channel keeps nothing for a watcher that has not subscribed to it.
Notify(event) == events' = IF Listens THEN Append(events, event) ELSE events

-----------------------------------------------------------------------------
(* The other clients *)

WatchedCreate ==
    /\ alive = 0
    /\ Len(stream) < MaxIncs
    /\ stream' = Append(stream, <<>>)
    /\ seen' = Append(seen, <<>>)
    /\ alive' = Len(stream) + 1
    /\ late' = IF "created" \in ToSet(events) \/ watch = "look" THEN late \cup {alive'} ELSE late
    /\ Notify("created")
    /\ UNCHANGED <<tagged, tagEdits, filtered, watch, atts>>

WatchedDelete ==
    /\ alive # 0
    /\ alive' = 0
    /\ Notify("deleted")
    /\ UNCHANGED <<stream, tagged, tagEdits, filtered, watch, atts, seen, late>>

WatchedPublish(match) ==
    /\ alive # 0
    /\ Len(FlattenSeq(stream)) < MaxChunks
    /\ stream' = [stream EXCEPT ![alive] = Append(@, match)]
    /\ UNCHANGED <<alive, tagged, tagEdits, filtered, watch, events, atts, seen, late>>

\* set_tags: the tags chunk, the field and the event, under one lock.
WatchedTags ==
    /\ alive # 0
    /\ tagEdits < MaxTagged
    /\ tagEdits' = tagEdits + 1
    /\ tagged' = ~tagged
    /\ Notify("tags")
    /\ UNCHANGED <<stream, alive, filtered, watch, atts, seen, late>>

-----------------------------------------------------------------------------
(* The watcher *)

Attachment == [inc |-> alive, pos |-> 1, upto |-> Len(stream[alive]), state |-> "announce"]

\* Mutant of Receiver: the receiver of the session is made when the replay is over.
JoinsLate(a) == Len(stream[a.inc]) + 1

\* The receiver is made with the snapshot: the forwarder goes on where the replay ends.
Receiver(a) == a.upto + 1

\* Mutant of EventsAfter: made before the snapshot, it holds the creation of the session.
NoEvents(now) == IF alive = 0 THEN <<>> ELSE <<"created">>

\* The receiver of the registry events is made under the lock of the snapshot.
EventsAfter(now) == <<>>

WatchSubscribe ==
    /\ watch = "out"
    /\ events' = EventsAfter(alive)
    /\ IF Watched
       THEN atts' = <<Attachment>> /\ watch' = "replay"
       ELSE UNCHANGED atts /\ watch' = "listen"
    /\ UNCHANGED <<sessionVars, seen>>

\* The listener lags: while let Ok(...) ends it, and nobody is told.
ListenerLags ==
    /\ watch = "listen"
    /\ Len(events) > EventCap
    /\ watch' = "ended"
    /\ events' = <<>>
    /\ UNCHANGED <<sessionVars, atts, seen>>

\* A creation: SubscribeAll forwards the event and then looks the session up,
\* SubscribeFiltered looks it up and forwards the event if it matches.
ListenerCreated ==
    /\ watch = "listen"
    /\ events # <<>> /\ Len(events) <= EventCap
    /\ Head(events) = "created"
    /\ events' = Tail(events)
    /\ IF ~filtered
       THEN watch' = "look" /\ UNCHANGED atts
       ELSE IF Watched
            THEN watch' = "replay" /\ atts' = Append(atts, Attachment)
            ELSE UNCHANGED <<watch, atts>>
    /\ UNCHANGED <<sessionVars, seen>>

ListenerLooks ==
    /\ watch = "look"
    /\ IF alive # 0
       THEN watch' = "replay" /\ atts' = Append(atts, [Attachment EXCEPT !.state = "replay"])
       ELSE watch' = "listen" /\ UNCHANGED atts
    /\ UNCHANGED <<sessionVars, events, seen>>

\* SessionDeleted and SessionTagsUpdated are forwarded as they are.
ListenerForwards ==
    /\ watch = "listen"
    /\ events # <<>> /\ Len(events) <= EventCap
    /\ Head(events) # "created"
    /\ events' = Tail(events)
    /\ UNCHANGED <<sessionVars, watch, atts, seen>>

Newest == atts[Len(atts)]

\* The announcement of the session, and then its history.
Announce ==
    /\ watch = "replay" /\ Newest.state = "announce"
    /\ atts' = [atts EXCEPT ![Len(atts)].state = "replay"]
    /\ UNCHANGED <<sessionVars, watch, events, seen>>

Due(a) == {i \in a.pos..Len(stream[a.inc]) : stream[a.inc][i] \/ ~filtered}
First(S) == CHOOSE i \in S : \A j \in S : i <= j

ReplayChunk ==
    /\ watch = "replay" /\ Newest.state = "replay"
    /\ LET due == Due(Newest) \cap 1..Newest.upto
           i == First(due)
       IN IF due # {}
          THEN /\ seen' = [seen EXCEPT ![Newest.inc] = Append(@, i)]
               /\ atts' = [atts EXCEPT ![Len(atts)].pos = i + 1]
               /\ UNCHANGED watch
          ELSE /\ atts' = [atts EXCEPT ![Len(atts)].state = "live",
                                       ![Len(atts)].pos = Receiver(Newest)]
               /\ watch' = "listen"
               /\ UNCHANGED seen
    /\ UNCHANGED <<sessionVars, events>>

\* A replay whose receiver is overrun before its forwarder starts ends like a live one.
ForwarderLags(k) ==
    /\ atts[k].state = "live"
    /\ Len(stream[atts[k].inc]) - (atts[k].pos - 1) > StreamCap
    /\ atts' = [atts EXCEPT ![k].state = "lagged"]
    /\ UNCHANGED <<sessionVars, watch, events, seen>>

\* The forwarder writes the next chunk that matches; a closed socket ends it then.
ForwardChunk(k) ==
    /\ atts[k].state = "live"
    /\ Len(stream[atts[k].inc]) - (atts[k].pos - 1) <= StreamCap
    /\ Due(atts[k]) # {}
    /\ LET i == First(Due(atts[k]))
       IN IF watch = "closed"
          THEN atts' = [atts EXCEPT ![k].state = "ended"] /\ UNCHANGED seen
          ELSE /\ atts' = [atts EXCEPT ![k].pos = i + 1]
               /\ seen' = [seen EXCEPT ![atts[k].inc] = Append(@, i)]
    /\ UNCHANGED <<sessionVars, watch, events>>

\* The session is gone and everything was forwarded.
ForwarderEnds(k) ==
    /\ atts[k].state = "live"
    /\ atts[k].inc # alive
    /\ Due(atts[k]) = {}
    /\ atts' = [atts EXCEPT ![k].state = "ended"]
    /\ UNCHANGED <<sessionVars, watch, events, seen>>

\* The connection closes: the listener is aborted, the forwarders are not.
WatchCloses ==
    /\ watch # "out" /\ watch # "closed"
    /\ watch' = "closed"
    /\ events' = <<>>
    /\ atts' = [k \in DOMAIN atts |->
                  IF atts[k].state \in {"announce", "replay"} THEN [atts[k] EXCEPT !.state = "ended"]
                  ELSE atts[k]]
    /\ UNCHANGED <<sessionVars, seen>>

-----------------------------------------------------------------------------

WatchInit ==
    /\ alive \in {0, 1}
    /\ stream = [n \in 1..alive |-> <<TRUE>>] /\ seen = [n \in 1..alive |-> <<>>]
    /\ tagged \in BOOLEAN /\ tagEdits = 0 /\ filtered \in BOOLEAN
    /\ watch = "out" /\ events = <<>> /\ atts = <<>> /\ late = {}

Listener ==
    \/ ListenerLags \/ ListenerCreated \/ ListenerLooks \/ ListenerForwards
    \/ Announce \/ ReplayChunk

Forwarder(k) == ForwarderLags(k) \/ ForwardChunk(k) \/ ForwarderEnds(k)

WatchNext ==
    \/ WatchedCreate \/ WatchedDelete \/ WatchedTags
    \/ \E match \in BOOLEAN : WatchedPublish(match)
    \/ WatchSubscribe \/ WatchCloses
    \/ Listener
    \/ \E k \in 1..Len(atts) : Forwarder(k)

WatchSpec == WatchInit /\ [][WatchNext]_wVars

WatchFairness ==
    /\ WF_wVars(Listener)
    /\ \A k \in 1..MaxIncs + 1 : WF_wVars(k <= Len(atts) /\ Forwarder(k))

-----------------------------------------------------------------------------

WatchTypeOK ==
    /\ alive \in 0..Len(stream) /\ Len(stream) <= MaxIncs
    /\ stream \in Seq(Seq(BOOLEAN))
    /\ watch \in {"out", "replay", "look", "listen", "ended", "closed"}
    /\ \A k \in DOMAIN atts : atts[k].inc \in 1..Len(stream) /\ atts[k].pos \in 1..MaxChunks + 2
    /\ late \subseteq 1..Len(stream)

\* The watcher is written the chunks of an incarnation that match, in the order they were
\* published, each once and none left out - replay, receiver and events leave neither a gap
\* nor an overlap - unless the incarnation replaced one whose creation the listener had
\* still to handle, which makes the listener attach to it twice.
WatchIsExact ==
    \A n \in 1..Len(stream) \ late : \A k \in 1..Len(seen[n]) :
        /\ seen[n][k] \in Matching(n)
        /\ \A i \in Matching(n) : i < seen[n][k] <=> \E j \in 1..k - 1 : seen[n][j] = i

\* Every chunk that matches is written, in whatever order sessions, chunks and the watcher
\* come; except that the tags count only once, that a receiver which lags ends its task
\* without a word, and that a session may be gone before the listener looks it up.
EveryMatchIsSeen ==
    \A n \in 1..MaxIncs, i \in 1..MaxChunks :
        (/\ Listens /\ tagEdits = 0 /\ (filtered => tagged)
         /\ alive = n /\ i \in Matching(n))
            ~> \/ n \in DOMAIN seen /\ i \in ToSet(seen[n])
               \/ ~Listens \/ alive # n \/ tagEdits # 0
               \/ \E k \in DOMAIN atts : atts[k].state = "lagged"

=============================================================================
