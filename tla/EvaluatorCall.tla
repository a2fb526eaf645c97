----------------------------- MODULE EvaluatorCall -----------------------------
(***************************************************************************)
(* One tool call of cafe-mcp-bridge: rpc_dispatch makes an ephemeral       *)
(* session, waits, subscribes with the role that keeps the session alive,  *)
(* publishes the request and waits for the answer of the evaluator's       *)
(* session worker, which may crash and be started again.  cafe-tts and     *)
(* cafe-hue publish on the connection of their subscription; the others    *)
(* open a connection for every chunk, and the bus takes those in any       *)
(* order.  The audio of cafe-tts is uploaded with credentials that the     *)
(* binary store sends to the connection that published the reference.      *)
(***************************************************************************)
EXTENDS Integers, Sequences, FiniteSets

CONSTANTS
    MaxCrashes   \* bound on the crashes of the evaluator

ASSUME CallAssumption == MaxCrashes \in Nat

VARIABLES
    service,   \* the evaluator the tool belongs to
    caller,    \* the step of rpc_dispatch, or how it ended
    sub,       \* the bridge's subscription; "dropped": its receiver is gone
    heard,     \* how much of the session it was given
    room,      \* the session: "none", "live" or "gone"
    chat,      \* what was published in it
    flying,    \* chunks on a connection of their own that the bus has not read
    worker,    \* the session worker of the evaluator
    mail,      \* are upload credentials on their way to the worker?
    stored,    \* the binary store: "none", "seen" (the reference); "sending", or how that ended
    ran,       \* history: how often the tool was executed
    crashes

callVars == <<service, caller, sub, heard, room, chat, flying, worker, mail, stored, ran, crashes>>
callerVars == <<caller, sub, heard>>
serviceVars == <<service, worker, mail, stored, ran, crashes>>

Evaluators == {"tts", "hue", "stt", "comfy", "sheetbot", "kb", "dice"}

NoWorker == [step |-> "down", pos |-> 0, upto |-> 0, script |-> <<>>, pending |-> FALSE]

\* What a worker may publish for a request, in order: when all goes well, and when not.
TtsScripts == {<<"gen", "ref", "done", "response">>, <<"gen", "error", "response">>,
               <<"error", "response">>}
HueScripts == {<<"response">>}
SttScripts == {<<"text", "response">>, <<"response">>}
ComfyScripts == {<<"image", "response">>, <<"response">>}
SheetbotScripts == {<<"json", "response">>, <<"response">>}
KbScripts == {<<"response">>}
DiceScripts == {<<"response">>}

Scripts(evaluator) ==
    [tts |-> TtsScripts, hue |-> HueScripts, stt |-> SttScripts, comfy |-> ComfyScripts,
     sheetbot |-> SheetbotScripts, kb |-> KbScripts, dice |-> DiceScripts][evaluator]

\* Mutant of OwnConnection: cafe-tts publishes on a connection of its own for each chunk.
OnlyHue == {"hue"}

\* The evaluators that publish on the connection of their subscription.
OwnConnection == {"tts", "hue"}

-----------------------------------------------------------------------------
(* rpc_dispatch *)

Advance(from, to) == caller = from /\ caller' = to

CreateRoom ==
    /\ Advance("create", "settle")
    /\ room' = "live"
    /\ UNCHANGED <<sub, heard, chat, flying, serviceVars>>

\* 500 ms for the evaluators to attach, however long they take.
Settled ==
    /\ Advance("settle", "subscribe")
    /\ UNCHANGED <<sub, heard, room, chat, flying, serviceVars>>

\* subscribe_with_role and drain_until_history: what is there is read and dropped.
SubscribeRoom ==
    /\ Advance("subscribe", "publish")
    /\ sub' = "live" /\ heard' = Len(chat)
    /\ UNCHANGED <<room, chat, flying, serviceVars>>

PublishRequest ==
    /\ Advance("publish", "wait")
    /\ flying' = flying \cup {"request"}
    /\ UNCHANGED <<sub, heard, room, chat, serviceVars>>

\* wait_for_rpc_response: its receiver is dropped with the answer, ...
HearsNext ==
    /\ caller = "wait" /\ sub = "live"
    /\ heard < Len(chat)
    /\ heard' = heard + 1
    /\ IF chat[heard'] = "response"
       THEN caller' = "answered" /\ sub' = "dropped"
       ELSE UNCHANGED <<caller, sub>>
    /\ UNCHANGED <<room, chat, flying, serviceVars>>

\* ... with the timeout of 60 s, ...
CallTimesOut ==
    /\ Advance("wait", "timeout")
    /\ sub' = "dropped"
    /\ UNCHANGED <<heard, room, chat, flying, serviceVars>>

\* ... and when a call fails on the way, or the client of the bridge goes away.
CallFails ==
    /\ caller \in {"settle", "subscribe", "publish", "wait"}
    /\ caller' = "failed"
    /\ sub' = IF sub = "live" THEN "dropped" ELSE sub
    /\ UNCHANGED <<heard, room, chat, flying, serviceVars>>

\* The task that reads for a receiver that is gone sees so when it has the next message:
\* then the connection closes, and the session ends with its last counted subscriber.
ReaderEnds ==
    /\ sub = "dropped" /\ heard < Len(chat)
    /\ sub' = "closed"
    /\ room' = "gone"
    /\ UNCHANGED <<caller, heard, chat, flying, serviceVars>>

-----------------------------------------------------------------------------
(* The bus and the binary store *)

BusReadsFlying(kind) ==
    /\ kind \in flying
    /\ flying' = flying \ {kind}
    /\ chat' = IF room = "live" THEN Append(chat, kind) ELSE chat
    /\ UNCHANGED <<callerVars, room, serviceVars>>

StoreSees ==
    /\ stored = "none"
    /\ \E i \in 1..Len(chat) : chat[i] = "ref"
    /\ stored' = "seen"
    /\ mail' = (service \in OwnConnection /\ worker.pending)
    /\ UNCHANGED <<service, callerVars, room, chat, flying, worker, ran, crashes>>

-----------------------------------------------------------------------------
(* subscribe_all and the session worker of the evaluator *)

\* SessionCreated, live or from the list a new subscription starts with.
WorkerAttaches ==
    /\ worker.step = "down" /\ room = "live"
    /\ worker' = [NoWorker EXCEPT !.step = "idle", !.upto = Len(chat)]
    /\ UNCHANGED <<service, callerVars, room, chat, flying, mail, stored, ran, crashes>>

\* Mutant of Gated: requests of the replay are executed.
NeverGated == FALSE

\* The request was there before the subscription: it is skipped until HistoryComplete.
Gated == worker.pos < worker.upto

WorkerReads ==
    /\ worker.step = "idle" /\ worker.pos < Len(chat)
    /\ LET i == worker.pos + 1
       IN IF chat[i] = "request" /\ ~Gated
          THEN /\ ran' = ran + 1
               /\ \E script \in Scripts(service) :
                     worker' = [worker EXCEPT !.pos = i, !.step = "work", !.script = script]
          ELSE worker' = [worker EXCEPT !.pos = i] /\ UNCHANGED ran
    /\ UNCHANGED <<service, callerVars, room, chat, flying, mail, stored, crashes>>

\* The next chunk for the request. The upload waits for credentials from here on: they are
\* read by this same task, once it is done with the request.
WorkerPublishes ==
    /\ worker.step = "work"
    /\ LET kind == Head(worker.script)
           rest == Tail(worker.script)
       IN /\ worker' = [worker EXCEPT !.script = rest, !.pending = @ \/ kind = "ref",
                                      !.step = IF rest = <<>> THEN "idle" ELSE "work"]
          /\ IF service \in OwnConnection
             THEN /\ chat' = IF room = "live" THEN Append(chat, kind) ELSE chat
                  /\ UNCHANGED flying
             ELSE flying' = flying \cup {kind} /\ UNCHANGED chat
    /\ UNCHANGED <<service, callerVars, room, mail, stored, ran, crashes>>

\* The credentials: the audio is sent in a task of its own, ...
WorkerUploads ==
    /\ mail /\ worker.step = "idle" /\ worker.pending
    /\ mail' = FALSE
    /\ worker' = [worker EXCEPT !.pending = FALSE]
    /\ stored' = "sending"
    /\ UNCHANGED <<service, callerVars, room, chat, flying, ran, crashes>>

\* ... which logs how the request ended; nobody tries again, and it has no deadline.
UploadEnds ==
    /\ stored = "sending"
    /\ stored' \in {"uploaded", "failed"}
    /\ UNCHANGED <<service, callerVars, room, chat, flying, worker, mail, ran, crashes>>

WorkerCrashes ==
    /\ worker.step # "down" /\ crashes < MaxCrashes
    /\ crashes' = crashes + 1
    /\ worker' = NoWorker
    /\ mail' = FALSE
    /\ stored' = IF stored = "sending" THEN "failed" ELSE stored
    /\ UNCHANGED <<service, callerVars, room, chat, flying, ran>>

-----------------------------------------------------------------------------

CallInit ==
    /\ service \in Evaluators
    /\ caller = "create" /\ sub = "none" /\ heard = 0 /\ room = "none"
    /\ chat = <<>> /\ flying = {} /\ worker = NoWorker
    /\ mail = FALSE /\ stored = "none" /\ ran = 0 /\ crashes = 0

Dispatch == Settled \/ SubscribeRoom \/ PublishRequest \/ HearsNext \/ ReaderEnds
TheBus == \E kind \in flying : BusReadsFlying(kind)
TheWorker == WorkerAttaches \/ WorkerReads \/ WorkerPublishes \/ WorkerUploads

CallNext ==
    \/ CreateRoom \/ Dispatch \/ CallTimesOut \/ CallFails
    \/ TheBus \/ StoreSees
    \/ TheWorker \/ UploadEnds \/ WorkerCrashes

CallSpec == CallInit /\ [][CallNext]_callVars

CallFairness ==
    /\ WF_callVars(Dispatch) /\ WF_callVars(TheBus) /\ WF_callVars(StoreSees)
    /\ WF_callVars(TheWorker)

CallFairSpec == CallSpec /\ CallFairness

-----------------------------------------------------------------------------

CallTypeOK ==
    /\ service \in Evaluators
    /\ sub \in {"none", "live", "dropped", "closed"} /\ heard \in 0..Len(chat)
    /\ room \in {"none", "live", "gone"}
    /\ worker.step \in {"down", "idle", "work"}
    /\ stored \in {"none", "seen", "sending", "uploaded", "failed"} /\ crashes \in 0..MaxCrashes

\* A tool is executed at most once for a call, though its request stays in the session for
\* 60 s and is replayed to an evaluator that comes back; and what the caller is given is
\* the answer of that execution.
ExecutedAtMostOnce == ran <= 1 /\ (caller = "answered" => ran = 1)

\* The audio that a tts answer refers to is sent to the binary store, unless the evaluator
\* crashed; the request itself may fail, after the answer.
AudioIsSent ==
    (service = "tts" /\ caller = "answered" /\ \E i \in 1..Len(chat) : chat[i] = "ref")
        ~> (stored \in {"sending", "uploaded", "failed"} \/ crashes > 0)

\* "the session will auto-delete when this subscription's connection drops"
\* (cafe-mcp-bridge/src/main.rs): the session of a call that was answered goes away.
RoomIsDeleted == caller = "answered" ~> room = "gone"

=============================================================================
