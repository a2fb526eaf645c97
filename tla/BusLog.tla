------------------------------- MODULE BusLog -------------------------------
(***************************************************************************)
(* What the bus promises a subscriber of a session, without histories,     *)
(* snapshots, channels or tasks: a session is a log that only grows, and a *)
(* reader that opens it after k publishes is shown exactly what replays    *)
(* from those k (Replayed) and then every later chunk, each once and in    *)
(* order, until it is ended for one of three reasons.                      *)
(***************************************************************************)
EXTENDS BusChunks, FiniteSets

CONSTANTS
    Conn,       \* connections
    SubId,      \* readers
    Cap         \* how many chunks a reader may be behind

VARIABLES
    log,        \* log[n]: what was published on incarnation n
    ended,      \* the incarnations that were deleted
    left,       \* the connections whose client has left
    time,       \* the clock
    readers

vars == <<log, ended, left, time, readers>>

Reader == [state : {"idle", "open", "ended"}, conn : Conn, chan : Chan,
           from : Nat, at : Nat, got : Seq(Nat)]

\* What reader i is owed and has not been shown.
Due(i) ==
    LET r == readers[i]
        l == log[r.chan]
    IN (Replayed(l, r.from, r.at) \cup (r.from + 1)..Len(l)) \ {r.got[a] : a \in DOMAIN r.got}

Init ==
    /\ log = [n \in Chan |-> <<>>]
    /\ ended = {}
    /\ left = {}
    /\ readers \in [SubId -> {r \in Reader : r.state = "idle"}]

\* The world moves on: logs grow (not those of deleted incarnations), sessions are
\* deleted, clients leave, time passes.
World ==
    /\ \A n \in Chan :
          /\ Len(log[n]) <= Len(log'[n])
          /\ \A p \in DOMAIN log[n] : log'[n][p] = log[n][p]
          /\ n \in ended => log'[n] = log[n]
    /\ ended \subseteq ended'
    /\ left \subseteq left'
    /\ time <= time'
    /\ UNCHANGED readers

Open(i, c, n) ==
    /\ readers[i].state = "idle"
    /\ n \notin ended
    /\ readers' = [readers EXCEPT ![i] =
          [state |-> "open", conn |-> c, chan |-> n, from |-> Len(log[n]),
           at |-> time, got |-> <<>>]]
    /\ UNCHANGED <<log, ended, left, time>>

\* The first of the chunks reader i is due is shown to it.
Show(i) ==
    /\ readers[i].state = "open"
    /\ \E p \in Due(i) :
          /\ \A q \in Due(i) \ {p} :
                Precedes(log[readers[i].chan], readers[i].from, p, q)
          /\ readers' = [readers EXCEPT ![i].got = Append(@, p)]
    /\ UNCHANGED <<log, ended, left, time>>

\* A reader ends because its client has left, because it fell too far behind, or
\* because the session was deleted and it has seen everything.
End(i) ==
    /\ readers[i].state = "open"
    /\ \/ readers[i].conn \in left
       \/ Cardinality(Due(i)) > Cap
       \/ readers[i].chan \in ended /\ Due(i) = {}
    /\ readers' = [readers EXCEPT ![i].state = "ended"]
    /\ UNCHANGED <<log, ended, left, time>>

\* Several readers of one connection end together when it is cleaned up.
EndConnection(c) ==
    /\ c \in left
    /\ readers' = [i \in SubId |->
          IF readers[i].conn = c /\ readers[i].state = "open"
          THEN [readers[i] EXCEPT !.state = "ended"] ELSE readers[i]]
    /\ UNCHANGED <<log, ended, left, time>>

Next ==
    \/ World
    \/ \E i \in SubId : Show(i) \/ End(i) \/ \E c \in Conn, n \in Chan : Open(i, c, n)
    \/ \E c \in Conn : EndConnection(c)

Spec == Init /\ [][Next]_vars

=============================================================================
