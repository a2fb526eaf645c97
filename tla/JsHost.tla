-------------------------------- MODULE JsHost --------------------------------
(***************************************************************************)
(* cafe-agent-js and one session id: the supervisor that follows the       *)
(* registry events, the run_session tasks it starts, and the long-lived    *)
(* JS runtime of a stateful agent, which is shared through a map, fed by   *)
(* a channel, respawned when the source changes or main() has ended, and   *)
(* torn down on SessionDeleted.  All tasks share one thread: what happens  *)
(* between two awaits is one action.  A trigger is named by the            *)
(* incarnation of the session and its number in it.                        *)
(***************************************************************************)
EXTENDS Integers, Sequences, SequencesExt, FiniteSets

CONSTANTS
    MaxSessions,   \* bound on the incarnations of the session
    MaxTriggers,   \* bound on the triggers published, all together
    MaxEdits       \* bound on the changes of the agent's file

ASSUME JsAssumption == MaxSessions \in Nat /\ MaxTriggers \in Nat /\ MaxEdits \in Nat

VARIABLES
    inc,       \* the incarnation on the bus, 0 if there is none
    msgs,      \* msgs[n]: how many triggers were published in incarnation n
    evq,       \* registry events the supervisor has not handled
    source,    \* hash of the agent's source in the registry, 0 if it is unloaded
    edits,     \* changes of the file so far
    stateful,  \* the mode of the agent
    attached,  \* is the session in the attached set?
    loops,     \* the run_session tasks, in the order of their start
    entry,     \* the StatefulEntry of the session, or NoEntry
    chans,     \* chans[c]: what is in the c-th event channel made
    tasks,     \* the JS runtimes spawned
    taken,     \* history: triggers an agent has handled
    lost       \* history: triggers a runtime ended or was aborted with

jsVars == <<inc, msgs, evq, source, edits, stateful, attached, loops, entry, chans,
            tasks, taken, lost>>
busVars == <<inc, msgs>>
fileVars == <<source, edits, stateful>>

Loop == [step |-> "start", inc |-> 0, seen |-> 0, trigger |-> <<0, 0>>, source |-> 0, chan |-> 0]
NoWork(loop) == [Loop EXCEPT !.step = "idle", !.inc = loop.inc, !.seen = loop.seen]
NoEntry == [chan |-> 0, source |-> 0, task |-> 0]
NoTrigger == <<0, 0>>

Triggers == {t \in (1..Len(msgs)) \X (1..MaxTriggers) : t[2] <= msgs[t[1]]}

-----------------------------------------------------------------------------
(* Other clients and the file system *)

JsCreate ==
    /\ inc = 0
    /\ Len(msgs) < MaxSessions
    /\ inc' = Len(msgs) + 1
    /\ msgs' = Append(msgs, 0)
    /\ evq' = Append(evq, "created")
    /\ UNCHANGED <<fileVars, attached, loops, entry, chans, tasks, taken, lost>>

JsDelete ==
    /\ inc # 0
    /\ inc' = 0
    /\ evq' = Append(evq, "deleted")
    /\ UNCHANGED <<msgs, fileVars, attached, loops, entry, chans, tasks, taken, lost>>

\* A chunk that classify_event turns into an event.
Trigger ==
    /\ inc # 0
    /\ Cardinality(Triggers) < MaxTriggers
    /\ msgs' = [msgs EXCEPT ![inc] = @ + 1]
    /\ UNCHANGED <<inc, evq, fileVars, attached, loops, entry, chans, tasks, taken, lost>>

\* reload_file and remove_by_path: the registry has a new source, or none.
Edit ==
    /\ edits < MaxEdits
    /\ edits' = edits + 1
    /\ source' \in {0, edits + 2}
    /\ UNCHANGED <<busVars, evq, stateful, attached, loops, entry, chans, tasks, taken, lost>>

-----------------------------------------------------------------------------
(* The supervisor *)

\* A runtime that was aborted, or whose main() has ended.
Over == [chan |-> 0, at |-> NoTrigger, state |-> "over"]

\* What an aborted task had in its hands is lost.
Abort(t) == IF t = 0 \/ tasks[t].state # "running" THEN tasks
            ELSE [tasks EXCEPT ![t] = Over]
InHands(t) == IF t = 0 \/ tasks[t].state # "running" THEN {} ELSE {tasks[t].at} \ {NoTrigger}

\* attach: at most one task for a session in the set, and only for an agent it knows.
Attach ==
    /\ evq # <<>> /\ Head(evq) = "created"
    /\ evq' = Tail(evq)
    /\ IF source # 0 /\ ~attached
       THEN attached' = TRUE /\ loops' = Append(loops, Loop)
       ELSE UNCHANGED <<attached, loops>>
    /\ UNCHANGED <<busVars, fileVars, entry, chans, tasks, taken, lost>>

Teardown ==
    /\ evq # <<>> /\ Head(evq) = "deleted"
    /\ evq' = Tail(evq)
    /\ attached' = FALSE
    /\ entry' = NoEntry
    /\ tasks' = Abort(entry.task)
    /\ lost' = lost \cup InHands(entry.task)
    /\ UNCHANGED <<busVars, fileVars, loops, chans, taken>>

-----------------------------------------------------------------------------
(* run_session and drive_stateful *)

\* subscribe_session: what is there is replayed before HistoryComplete and skipped; a
\* session that is gone is answered with an error, and the stream stays silent.
LoopSubscribes(l) ==
    /\ loops[l].step = "start"
    /\ loops' = [loops EXCEPT ![l] = [@ EXCEPT !.step = "idle", !.inc = inc,
                                      !.seen = IF inc = 0 THEN 0 ELSE msgs[inc]]]
    /\ UNCHANGED <<busVars, evq, fileVars, attached, entry, chans, tasks, taken, lost>>

\* The next trigger: the agent is looked up, and a stateful one gets its entry.
LoopReads(l) ==
    /\ loops[l].step = "idle" /\ loops[l].inc # 0
    /\ loops[l].seen < msgs[loops[l].inc]
    /\ LET i == loops[l].seen + 1
           step == IF source = 0 THEN "ended" ELSE IF stateful THEN "config" ELSE "run"
           fresh == step = "config" /\ entry = NoEntry
           chan == IF fresh THEN Len(chans) + 1 ELSE entry.chan
       IN /\ loops' = [loops EXCEPT ![l] = [@ EXCEPT !.step = step, !.seen = i,
                         !.trigger = <<loops[l].inc, i>>, !.source = source,
                         !.chan = IF step = "config" THEN chan ELSE 0]]
          /\ entry' = IF fresh THEN [NoEntry EXCEPT !.chan = chan] ELSE entry
          /\ chans' = IF fresh THEN Append(chans, <<>>) ELSE chans
    /\ UNCHANGED <<busVars, evq, fileVars, attached, tasks, taken, lost>>

\* A stateless agent runs for this one event; the task waits for it.
LoopRuns(l) ==
    /\ loops[l].step = "run"
    /\ loops' = [loops EXCEPT ![l] = NoWork(@)]
    /\ taken' = taken \cup {loops[l].trigger}
    /\ UNCHANGED <<busVars, evq, fileVars, attached, entry, chans, tasks, lost>>

Stale(l) ==
    /\ entry # NoEntry
    /\ \/ entry.source # loops[l].source
       \/ entry.task = 0
       \/ tasks[entry.task].state # "running"

Spawned(chan) == [chan |-> chan, at |-> NoTrigger, state |-> "running"]

\* Mutant of Respawned: the old task is forgotten, not aborted.
KeepsOld(l) == Append(tasks, Spawned(loops[l].chan))

\* Mutant of Respawned: the new task is given a channel of its own.
OwnChannel(l) == Append(Abort(entry.task), Spawned(Len(chans) + 1))

Respawned(l) == Append(Abort(entry.task), Spawned(loops[l].chan))

\* After the config snapshot: respawn if need be, and send the event.
LoopDrives(l) ==
    /\ loops[l].step = "config"
    /\ loops' = [loops EXCEPT ![l] = NoWork(@)]
    /\ IF Stale(l)
       THEN /\ tasks' = Respawned(l)
            /\ entry' = [entry EXCEPT !.source = loops[l].source, !.task = Len(tasks) + 1]
            /\ lost' = lost \cup InHands(entry.task)
       ELSE UNCHANGED <<tasks, entry, lost>>
    /\ chans' = [chans EXCEPT ![loops[l].chan] = Append(@, loops[l].trigger)]
    /\ UNCHANGED <<busVars, evq, fileVars, attached, taken>>

-----------------------------------------------------------------------------
(* The runtime: for await (const event of cafe.events()) ... *)

Queue(t) == IF tasks[t].chan \in DOMAIN chans THEN chans[tasks[t].chan] ELSE <<>>

TaskTakes(t) ==
    /\ tasks[t].state = "running" /\ tasks[t].at = NoTrigger
    /\ Queue(t) # <<>>
    /\ tasks' = [tasks EXCEPT ![t].at = Head(Queue(t))]
    /\ chans' = [chans EXCEPT ![tasks[t].chan] = Tail(@)]
    /\ UNCHANGED <<busVars, evq, fileVars, attached, loops, entry, taken, lost>>

TaskHandles(t) ==
    /\ tasks[t].state = "running" /\ tasks[t].at # NoTrigger
    /\ tasks' = [tasks EXCEPT ![t].at = NoTrigger]
    /\ taken' = taken \cup {tasks[t].at}
    /\ UNCHANGED <<busVars, evq, fileVars, attached, loops, entry, chans, lost>>

\* main() returns or throws: nobody reads what is in its channel before the next event.
TaskEnds(t) ==
    /\ tasks[t].state = "running"
    /\ tasks' = [tasks EXCEPT ![t] = Over]
    /\ lost' = lost \cup InHands(t) \cup ToSet(Queue(t))
    /\ UNCHANGED <<busVars, evq, fileVars, attached, loops, entry, chans, taken>>

\* Somebody can still send on channel c: the entry, or a task in drive_stateful.
Open(c) == entry.chan = c \/ \E l \in 1..Len(loops) : loops[l].step = "config" /\ loops[l].chan = c

\* The generator ends with the channel, and main() with it.
StreamEnds(t) ==
    /\ tasks[t].state = "running" /\ tasks[t].at = NoTrigger
    /\ Queue(t) = <<>> /\ ~Open(tasks[t].chan)
    /\ tasks' = [tasks EXCEPT ![t] = Over]
    /\ UNCHANGED <<busVars, evq, fileVars, attached, loops, entry, chans, taken, lost>>

-----------------------------------------------------------------------------

\* run_once: a session that exists is attached from the list, then announced again.
JsInit ==
    /\ inc \in {0, 1}
    /\ msgs = [n \in 1..inc |-> 0]
    /\ evq = [n \in 1..inc |-> "created"]
    /\ loops = [n \in 1..inc |-> Loop]
    /\ attached = (inc = 1)
    /\ source = 1 /\ edits = 0 /\ stateful \in BOOLEAN
    /\ entry = NoEntry /\ chans = <<>> /\ tasks = <<>>
    /\ taken = {} /\ lost = {}

Supervise == Attach \/ Teardown
LoopStep(l) == LoopSubscribes(l) \/ LoopReads(l) \/ LoopRuns(l) \/ LoopDrives(l)
RuntimeStep(t) == TaskTakes(t) \/ TaskHandles(t) \/ StreamEnds(t)

JsNext ==
    \/ JsCreate \/ JsDelete \/ Trigger \/ Edit
    \/ Supervise
    \/ \E l \in 1..Len(loops) : LoopStep(l)
    \/ \E t \in 1..Len(tasks) : RuntimeStep(t) \/ TaskEnds(t)

JsSpec == JsInit /\ [][JsNext]_jsVars

\* Every task of the host is scheduled; nothing makes a main() end.
JsFairness ==
    /\ WF_jsVars(Supervise)
    /\ \A l \in 1..MaxSessions + 1 : WF_jsVars(l <= Len(loops) /\ LoopStep(l))
    /\ \A t \in 1..MaxTriggers + 1 : WF_jsVars(t <= Len(tasks) /\ RuntimeStep(t))

-----------------------------------------------------------------------------

JsTypeOK ==
    /\ inc \in 0..Len(msgs) /\ Len(msgs) <= MaxSessions
    /\ evq \in Seq({"created", "deleted"})
    /\ source \in 0..MaxEdits + 1
    /\ entry.chan \in 0..Len(chans) /\ entry.task \in 0..Len(tasks)
    /\ \A t \in 1..Len(tasks) : tasks[t].state \in {"running", "over"}
    /\ taken \subseteq Triggers /\ lost \subseteq Triggers

\* The session never has two runtimes: whatever is reloaded, torn down and created again
\* in whatever order, the runtime in the entry is the only one that runs.
OneRuntime ==
    \A t \in 1..Len(tasks) : tasks[t].state = "running" => t = entry.task

\* Has a session task still to read this trigger?
Waits(trigger) ==
    \E l \in 1..Len(loops) :
        loops[l].step # "ended" /\ loops[l].inc = 1 /\ loops[l].seen < trigger[2]

\* A trigger that comes after the replay of an attached session reaches the agent, unless
\* the session is deleted, the agent unloaded, or a runtime ended or was aborted with it.
\* (Of a session that was deleted and created again the code does not promise as much: the
\* events of the old one tear down the runtime of the new one.)
TriggersArrive ==
    \A trigger \in {1} \X (1..MaxTriggers) :
        (inc = 1 /\ trigger \in Triggers /\ Waits(trigger))
            ~> (trigger \in taken \cup lost \/ inc # 1 \/ source = 0)

=============================================================================
