------------------------------- MODULE SdkClient -------------------------------
(***************************************************************************)
(* BusClient of cafe-sdk (bus/mod.rs) and the handshake of cafe-bus        *)
(* (handle_connection): the codec is negotiated on a connection of its own *)
(* by the first calls and kept for good; each call opens a connection,     *)
(* checks that the bus chooses that codec, sends one message and, if there *)
(* is an answer, reads until it comes or the connection ends.  The bus may *)
(* stop, and come back with or without the binary codec.                   *)
(***************************************************************************)
EXTENDS Integers, Sequences

CONSTANTS
    MaxSdkCalls,   \* bound on the calls made with the client
    MaxBusStops    \* bound on the stops of the bus

ASSUME SdkAssumption == MaxSdkCalls \in Nat /\ MaxBusStops \in Nat

VARIABLES
    busUp,     \* does the bus run?
    binary,    \* is it built with bincode-listener?
    busStops,  \* how often it has stopped
    cache,     \* negotiated_codec: "none", "json" or "bincode"
    calls      \* the calls made: operation, step, codec, connection and result

sdkVars == <<busUp, binary, busStops, cache, calls>>
busState == <<busUp, binary, busStops>>

\* "request" stands for create, delete, fork, set_tags, list_sessions and get_history: if
\* the connection ends before the answer they return Ok, with an empty list or with the
\* part of the history that came; for ping this is an error.
Operations == {"publish", "subscribe", "ping", "request"}

\* conn: "none", "open", "answered" or "cut" (the bus stopped); speaks: what the bus chose.
NewCall(op, step) ==
    [op |-> op, step |-> step, codec |-> cache, conn |-> "none", speaks |-> "none",
     done |-> FALSE, result |-> "none"]

\* The first codec of the client's list, ["bincode", "json"], that the bus knows.
Preferred == IF binary THEN "bincode" ELSE "json"

\* What the bus chooses from the codecs that negotiate() offers.
NegotiationOffer == Preferred

End(c, result) == calls' = [calls EXCEPT ![c].step = "done", ![c].result = result]

-----------------------------------------------------------------------------

StartCall(op) ==
    /\ Len(calls) < MaxSdkCalls
    /\ calls' = Append(calls, NewCall(op, IF cache = "none" THEN "negotiate" ELSE "connect"))
    /\ UNCHANGED <<busState, cache>>

\* A connection, for the negotiation or for the call itself.
OpenConnection(c) ==
    /\ calls[c].step \in {"negotiate", "connect"}
    /\ IF busUp
       THEN calls' = [calls EXCEPT ![c].conn = "open", ![c].step =
                        IF @ = "negotiate" THEN "offer" ELSE "handshake"]
       ELSE End(c, "error")
    /\ UNCHANGED <<busState, cache>>

\* do_negotiate: a bus that closed before it answered is taken for one that speaks JSON.
Negotiate(c) ==
    /\ calls[c].step = "offer"
    /\ \/ calls' = [calls EXCEPT ![c].step = "cache", ![c].conn = "none", ![c].codec =
                      IF calls[c].conn = "cut" THEN "json" ELSE NegotiationOffer]
       \/ calls[c].conn = "cut" /\ End(c, "error")
    /\ UNCHANGED <<busState, cache>>

\* negotiate: the first result is kept, the call goes on with its own.
CacheCodec(c) ==
    /\ calls[c].step = "cache"
    /\ calls' = [calls EXCEPT ![c].step = "connect"]
    /\ cache' = IF cache = "none" THEN calls[c].codec ELSE cache
    /\ UNCHANGED busState

\* Mutant of Agreed: the client goes on in its codec whatever the bus chose.
AlwaysAgreed(codec) == TRUE

\* connect_with_role compares the codec the bus chose with the one requested.
Agreed(codec) == codec = Preferred

Handshake(c) ==
    /\ calls[c].step = "handshake"
    /\ IF calls[c].conn = "cut" \/ Agreed(calls[c].codec)
       THEN calls' = [calls EXCEPT ![c].step = "send",
                        ![c].speaks = IF calls[c].conn = "cut" THEN "none" ELSE Preferred]
       ELSE End(c, "mismatch")
    /\ UNCHANGED <<busState, cache>>

\* publish and publish_direct do not wait for the bus.
SendPublish(c) ==
    /\ calls[c].step = "send" /\ calls[c].op = "publish"
    /\ calls[c].conn = "open"
    /\ End(c, "ok")
    /\ UNCHANGED <<busState, cache>>

\* subscribe, subscribe_filtered and subscribe_all: a stream from here on.
SendSubscribe(c) ==
    /\ calls[c].step = "send" /\ calls[c].op = "subscribe"
    /\ calls[c].conn = "open"
    /\ End(c, "ok")
    /\ UNCHANGED <<busState, cache>>

SendRequest(c) ==
    /\ calls[c].step = "send" /\ calls[c].op \in {"request", "ping"}
    /\ calls[c].conn = "open"
    /\ calls' = [calls EXCEPT ![c].step = "await"]
    /\ UNCHANGED <<busState, cache>>

\* The bus is gone: writing fails, or what was written nobody reads.
RequestFails(c) ==
    /\ calls[c].step = "send" /\ calls[c].conn = "cut"
    /\ \/ End(c, "error")
       \/ calls[c].op \in {"publish", "subscribe"} /\ End(c, "ok")
       \/ calls[c].op \in {"request", "ping"} /\ calls' = [calls EXCEPT ![c].step = "await"]
    /\ UNCHANGED <<busState, cache>>

\* The bus reads the message, and answers.
BusExecutes(c) ==
    /\ calls[c].conn = "open" /\ ~calls[c].done
    /\ calls[c].step = "await" \/ calls[c].result = "ok"
    /\ calls' = [calls EXCEPT ![c].done = TRUE, ![c].conn = "answered"]
    /\ UNCHANGED <<busState, cache>>

\* The answer: what was asked for, or an error of the bus.
ReadAnswer(c) ==
    /\ calls[c].step = "await" /\ calls[c].conn = "answered"
    /\ \/ End(c, "ok")
       \/ calls[c].op = "request" /\ End(c, "error")
    /\ UNCHANGED <<busState, cache>>

\* The end of the connection counts as an answer.
Tolerates(op) == op = "request"

\* The connection ends before the answer.
ReadEnd(c) ==
    /\ calls[c].step = "await" /\ calls[c].conn = "cut"
    /\ End(c, IF Tolerates(calls[c].op) THEN "ok" ELSE "error")
    /\ UNCHANGED <<busState, cache>>

-----------------------------------------------------------------------------

BusStopsHere ==
    /\ busUp /\ busStops < MaxBusStops
    /\ busUp' = FALSE
    /\ busStops' = busStops + 1
    /\ calls' = [c \in DOMAIN calls |->
                   IF calls[c].conn = "open" THEN [calls[c] EXCEPT !.conn = "cut"] ELSE calls[c]]
    /\ UNCHANGED <<binary, cache>>

BusStarts ==
    /\ ~busUp
    /\ busUp' = TRUE
    /\ binary' \in BOOLEAN
    /\ UNCHANGED <<busStops, cache, calls>>

SdkInit ==
    /\ busUp = TRUE /\ binary \in BOOLEAN /\ busStops = 0
    /\ cache = "none" /\ calls = <<>>

SdkStep(c) ==
    \/ OpenConnection(c) \/ Negotiate(c) \/ CacheCodec(c) \/ Handshake(c)
    \/ SendPublish(c) \/ SendSubscribe(c) \/ SendRequest(c) \/ RequestFails(c)
    \/ ReadAnswer(c) \/ ReadEnd(c)

SdkNext ==
    \/ \E op \in Operations : StartCall(op)
    \/ \E c \in 1..Len(calls) : SdkStep(c) \/ BusExecutes(c)
    \/ BusStopsHere \/ BusStarts

SdkSpec == SdkInit /\ [][SdkNext]_sdkVars

-----------------------------------------------------------------------------

SdkTypeOK ==
    /\ busStops \in 0..MaxBusStops /\ cache \in {"none", "json", "bincode"}
    /\ Len(calls) <= MaxSdkCalls
    /\ \A c \in DOMAIN calls :
          /\ calls[c].op \in Operations
          /\ calls[c].conn \in {"none", "open", "answered", "cut"}
          /\ calls[c].result \in {"none", "ok", "error", "mismatch"}

\* Client and bus agree on the codec: the bus never reads a message in another codec than
\* it chose for the connection, however often it is replaced between the negotiation and
\* the call; and while it has never stopped, no call ends with an error of the client's
\* own, whatever calls negotiate at the same time.  (After a stop they may: a codec that
\* was cached wrongly is never negotiated again.)
CodecIsAgreed ==
    /\ \A c \in DOMAIN calls : calls[c].done => calls[c].speaks = calls[c].codec
    /\ busStops = 0 => \A c \in DOMAIN calls :
          /\ calls[c].result # "mismatch"
          /\ calls[c].result = "error" => calls[c].done

=============================================================================
