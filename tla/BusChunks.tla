----------------------------- MODULE BusChunks -----------------------------
(***************************************************************************)
(* Chunks as the bus tells them apart, and what a log of published chunks  *)
(* makes of them: which are in a session's history, which are retained,    *)
(* and in which order a subscription is shown them.  Everything here is a  *)
(* function of the log, of how much of it had been published, and of the   *)
(* time; none of it mentions how cafe-bus stores a session.                *)
(***************************************************************************)
EXTENDS Integers, Sequences

CONSTANTS
    Id,     \* chunk ids chosen by publishers, who may use one again
    Chan    \* incarnations of sessions, and the ids of the chunks the bus makes

\* The bus makes one chunk of its own per incarnation at most (the config chunk of
\* a create or the provenance chunk of a fork), under an id nobody else uses: it
\* is named by the incarnation.
AnyId == Id \cup Chan

\* Stored in history; only broadcast; broadcast and kept for a while
\* (transient.retain_secs); a cafe.flow.signal = "delete" control chunk.
Kind == {"durable", "transient", "retained", "delete"}

\* A published chunk: its id (for a delete signal the id of its target), its
\* kind, and when its retention ends (0 unless it is retained).
Chunk == [id : AnyId, kind : Kind, until : Nat]

\* delete_target: does the chunk at q retire the one at p?
Retires(l, q, p) == l[q].kind = "delete" /\ l[q].id = l[p].id

\* Position p was retired by a delete signal among the first k chunks of l.
Retired(l, p, k) == \E q \in (p + 1)..k : Retires(l, q, p)

\* The history after k publishes: the durable chunks that were not retired since.
Lasting(l, k) == {p \in 1..k : l[p].kind = "durable" /\ ~Retired(l, p, k)}

\* What is still retained after k publishes, at time t.
Retainable(l, k, t) ==
    {p \in 1..k : l[p].kind = "retained" /\ l[p].until > t /\ ~Retired(l, p, k)}

\* What a subscription opened after k publishes at time t replays.
Replayed(l, k, t) == Lasting(l, k) \cup Retainable(l, k, t)

\* The order in which a subscription opened after k publishes is shown positions:
\* history, retained chunks, then what was published later, each oldest first.
Class(l, k, p) == IF p > k THEN 3 ELSE IF l[p].kind = "durable" THEN 1 ELSE 2
Precedes(l, k, p, q) ==
    \/ Class(l, k, p) < Class(l, k, q)
    \/ Class(l, k, p) = Class(l, k, q) /\ p < q

=============================================================================
