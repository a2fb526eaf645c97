------------------------- MODULE EphemeralLifecycle -------------------------
(***************************************************************************)
(* Ephemeral sessions of cafe-bus (ADR-116): which connections a session   *)
(* counts as its users, what the bus does when one of them departs, and    *)
(* the grace-period timers (session.rs, SessionRegistry::schedule_deletion *)
(* and the Subscribe arm and cleanup of client.rs).                        *)
(*                                                                         *)
(* A timer is a sleeping task that holds a session id and nothing else, so *)
(* the timers of one id form a bag, counted here by the time they have     *)
(* left: timers[s][k].  Time is relative, one Tick shortens them all, and  *)
(* a task whose time is up may still be scheduled late.                    *)
(***************************************************************************)
EXTENDS Integers, FiniteSets

CONSTANTS
    Conn,       \* connections; an id is never used again (NEXT_CONN_ID)
    Session,    \* session ids; an id may be created again after a deletion
    Role,       \* roles that clients declare
    None,       \* no role, no session, not subscribed
    MaxKeep     \* the longest keepalive_secs of a session

ASSUME NoneAssumption == None \notin Role
ASSUME SessionAssumption == {"loop", "gone"} \cap Session = {}
ASSUME KeepAssumption == MaxKeep \in Nat

VARIABLES
    config,     \* config[s]: how session s was created, None if there is none
    subscribed, \* subscribed[s]: SessionState.subscribers, conn id -> role
    role,       \* role[c]: ConnectionMeta.role
    client,     \* client[c]: is the peer still there?
    doing,      \* doing[c]: "loop", "gone", or the session whose history is replayed
    tracked,    \* tracked[c]: the session ids in subscriber_tasks
    timers,     \* timers[s][k]: the deletion timers of s with k to go
    counted,    \* has a counted connection subscribed since s was created?
    quiet,      \* time since the last counted departure from s (up to MaxKeep)
    recast      \* did a subscriber of s subscribe to it again under another role?

vars == <<config, subscribed, role, client, doing, tracked, timers, counted, quiet, recast>>

Persistent == [ephemeral |-> FALSE, keepalive |-> 0, countRole |-> None]
Config == {Persistent} \cup
          [ephemeral : {TRUE}, keepalive : 0..MaxKeep, countRole : Role \cup {None}]

\* An entry of the subscribers map carries the role of its connection, None
\* included; Absent says that there is no entry.
Absent == [role |-> None, present |-> FALSE]
Entry == [role : Role \cup {None}, present : BOOLEAN]

Exists(s) == config[s] # None

\* Does an entry of the subscribers map count for a session created with cfg?
Matches(cfg, e) == e.present /\ (cfg.countRole # None => e.role = cfg.countRole)

\* counted_subscriber_count, as the set that is counted.
Counted(s) == {c \in Conn : Matches(config[s], subscribed[s][c])}

\* Does entry e take the place of an entry of another role?
Recasts(old, e) == old.present /\ old.role # e.role

\* The subscribers of s once connection c is removed from them.
Remaining(s, c) == [subscribed[s] EXCEPT ![c] = Absent]

-----------------------------------------------------------------------------
(* Requests. *)

\* SetMeta, at any time.  The entries of the connection keep the role they carry.
SetMeta(c, r) ==
    /\ client[c]
    /\ doing[c] = "loop"
    /\ role' = [role EXCEPT ![c] = r]
    /\ UNCHANGED <<config, subscribed, client, doing, tracked, timers, counted, quiet, recast>>

CreateSession(s, cfg) ==
    /\ ~Exists(s)
    /\ config' = [config EXCEPT ![s] = cfg]
    /\ subscribed' = [subscribed EXCEPT ![s] = [c \in Conn |-> Absent]]
    /\ counted' = [counted EXCEPT ![s] = FALSE]
    /\ quiet' = [quiet EXCEPT ![s] = 0]
    /\ recast' = [recast EXCEPT ![s] = FALSE]
    /\ UNCHANGED <<role, client, doing, tracked, timers>>

DeleteSession(s) ==
    /\ Exists(s)
    /\ config' = [config EXCEPT ![s] = None]
    /\ UNCHANGED <<subscribed, role, client, doing, tracked, timers, counted, quiet, recast>>

\* Subscribe registers the connection under the write lock, in the place of the entry
\* it may have already, and starts to replay.
\* cancel_scheduled_deletion cancels nothing.  (A message still read after its
\* client has left is one the client left right after.)
Subscribe(c, s) ==
    /\ client[c]
    /\ doing[c] = "loop"
    /\ Exists(s)
    /\ LET e == [role |-> role[c], present |-> TRUE] IN
          /\ subscribed' = [subscribed EXCEPT ![s][c] = e]
          /\ counted' = [counted EXCEPT ![s] = @ \/ Matches(config[s], e)]
          /\ recast' = [recast EXCEPT ![s] = @ \/ Recasts(subscribed[s][c], e)]
    /\ doing' = [doing EXCEPT ![c] = s]
    /\ UNCHANGED <<config, role, client, tracked, timers, quiet>>

\* HistoryComplete was written (a socket may take it even if the peer has left):
\* the subscription is recorded for the cleanup.
FinishSubscribe(c) ==
    /\ doing[c] \in Session
    /\ tracked' = [tracked EXCEPT ![c] = @ \cup {doing[c]}]
    /\ doing' = [doing EXCEPT ![c] = "loop"]
    /\ UNCHANGED <<config, subscribed, role, client, timers, counted, quiet, recast>>

\* HistoryComplete could not be written: back to the loop, nothing is recorded.
AbandonSubscribe(c) ==
    /\ doing[c] \in Session
    /\ ~client[c]
    /\ doing' = [doing EXCEPT ![c] = "loop"]
    /\ UNCHANGED <<config, subscribed, role, client, tracked, timers, counted, quiet, recast>>

-----------------------------------------------------------------------------
(* Departures. *)

HangUp(c) ==
    /\ client[c]
    /\ client' = [client EXCEPT ![c] = FALSE]
    /\ UNCHANGED <<config, subscribed, role, doing, tracked, timers, counted, quiet, recast>>

\* Mutant of Vacated: the role of the departing connection is not looked at.
AnyoneVacates(s, c) ==
    /\ Exists(s)
    /\ config[s].ephemeral
    /\ subscribed[s][c].present
    /\ \A d \in Conn \ {c} : ~Matches(config[s], subscribed[s][d])

\* Mutant of Vacated: the session waits until nobody at all is subscribed.
LastVacates(s, c) ==
    /\ Exists(s)
    /\ config[s].ephemeral
    /\ Matches(config[s], subscribed[s][c])
    /\ \A d \in Conn \ {c} : ~subscribed[s][d].present

\* The departure of c leaves the ephemeral session s without a counted subscriber,
\* and c was one of them (departing_connection_was_counted).
Vacated(s, c) ==
    /\ Exists(s)
    /\ config[s].ephemeral
    /\ Matches(config[s], subscribed[s][c])
    /\ \A d \in Conn \ {c} : ~Matches(config[s], subscribed[s][d])

\* The cleanup of handle_connection, once client_loop has returned: every tracked
\* session forgets the connection, and schedule_deletion removes at once or
\* starts a timer for each one it vacates.
Cleanup(c) ==
    /\ ~client[c]
    /\ doing[c] = "loop"
    /\ LET vacated == {s \in tracked[c] : Vacated(s, c)}
           now == {s \in vacated : config[s].keepalive = 0}
       IN /\ config' = [s \in Session |-> IF s \in now THEN None ELSE config[s]]
          /\ timers' = [s \in Session |->
                IF s \in vacated \ now
                THEN [timers[s] EXCEPT ![config[s].keepalive] = @ + 1] ELSE timers[s]]
          /\ quiet' = [s \in Session |->
                IF s \in tracked[c] /\ Exists(s) /\ Matches(config[s], subscribed[s][c])
                THEN 0 ELSE quiet[s]]
          /\ subscribed' = [s \in Session |->
                IF s \in tracked[c] /\ Exists(s) THEN Remaining(s, c) ELSE subscribed[s]]
    /\ doing' = [doing EXCEPT ![c] = "gone"]
    /\ tracked' = [tracked EXCEPT ![c] = {}]
    /\ role' = [role EXCEPT ![c] = None]
    /\ UNCHANGED <<client, counted, recast>>

\* Mutant of Removable: the recheck counts every subscriber, whatever its role.
Deserted(s) == Exists(s) /\ config[s].ephemeral /\ \A c \in Conn : ~subscribed[s][c].present

\* Mutant of Removable: the timer does not look at the session again.
Unchecked(s) == Exists(s) /\ config[s].ephemeral

\* What a timer finds when it wakes up.
Removable(s) == Exists(s) /\ config[s].ephemeral /\ Counted(s) = {}

\* Mutant of TimerFires: a timer that does not wait.
FiresAtOnce(s) ==
    /\ \E k \in 0..MaxKeep : timers[s][k] > 0
    /\ timers' = [timers EXCEPT ![s][0] = @ - 1]
    /\ config' = [config EXCEPT ![s] = IF Removable(s) THEN None ELSE @]
    /\ UNCHANGED <<subscribed, role, client, doing, tracked, counted, quiet, recast>>

\* A timer of s whose time is up takes the write lock.
TimerFires(s) ==
    /\ timers[s][0] > 0
    /\ timers' = [timers EXCEPT ![s][0] = @ - 1]
    /\ config' = [config EXCEPT ![s] = IF Removable(s) THEN None ELSE @]
    /\ UNCHANGED <<subscribed, role, client, doing, tracked, counted, quiet, recast>>

\* Time passes while somebody waits for it.
Tick ==
    /\ \E s \in Session : \E k \in 1..MaxKeep : timers[s][k] > 0
    /\ timers' = [s \in Session |-> [k \in 0..MaxKeep |->
          (IF k = 0 THEN timers[s][0] ELSE 0) + (IF k < MaxKeep THEN timers[s][k + 1] ELSE 0)]]
    /\ quiet' = [s \in Session |-> IF quiet[s] < MaxKeep THEN quiet[s] + 1 ELSE quiet[s]]
    /\ UNCHANGED <<config, subscribed, role, client, doing, tracked, counted, recast>>

-----------------------------------------------------------------------------

Init ==
    /\ config = [s \in Session |-> None]
    /\ subscribed = [s \in Session |-> [c \in Conn |-> Absent]]
    /\ role = [c \in Conn |-> None]
    /\ client = [c \in Conn |-> TRUE]
    /\ doing = [c \in Conn |-> "loop"]
    /\ tracked = [c \in Conn |-> {}]
    /\ timers = [s \in Session |-> [k \in 0..MaxKeep |-> 0]]
    /\ counted = [s \in Session |-> FALSE]
    /\ quiet = [s \in Session |-> 0]
    /\ recast = [s \in Session |-> FALSE]

Next ==
    \/ \E s \in Session :
          \/ \E cfg \in Config : CreateSession(s, cfg)
          \/ DeleteSession(s)
          \/ TimerFires(s)
    \/ \E c \in Conn :
          \/ \E r \in Role \cup {None} : SetMeta(c, r)
          \/ \E s \in Session : Subscribe(c, s)
          \/ FinishSubscribe(c)
          \/ AbandonSubscribe(c)
          \/ HangUp(c)
          \/ Cleanup(c)
    \/ Tick

\* The runtime schedules handlers and timers, and time passes.  No client has to
\* subscribe, to leave or to delete anything.
Fairness ==
    /\ \A c \in Conn : WF_vars(FinishSubscribe(c) \/ AbandonSubscribe(c)) /\ WF_vars(Cleanup(c))
    /\ \A s \in Session : WF_vars(TimerFires(s))
    /\ WF_vars(Tick)

Spec == Init /\ [][Next]_vars
FairSpec == Spec /\ Fairness

-----------------------------------------------------------------------------

TypeOK ==
    /\ config \in [Session -> Config \cup {None}]
    /\ subscribed \in [Session -> [Conn -> Entry]]
    /\ role \in [Conn -> Role \cup {None}]
    /\ client \in [Conn -> BOOLEAN]
    /\ doing \in [Conn -> {"loop", "gone"} \cup Session]
    /\ tracked \in [Conn -> SUBSET Session]
    /\ timers \in [Session -> [0..MaxKeep -> Nat]]
    /\ counted \in [Session -> BOOLEAN]
    /\ quiet \in [Session -> 0..MaxKeep]
    /\ recast \in [Session -> BOOLEAN]

\* Session s is removed by this step, and nobody asked for it.
Expires(s) == Exists(s) /\ config'[s] = None /\ ~DeleteSession(s)

\* Nobody who counts and whose connection the bus still serves loses a session
\* to a departure or a timer, whatever happened to the id before.
NobodyCutOff ==
    [][\A s \in Session : Expires(s) =>
          \A c \in Conn : doing'[c] # "gone" => ~Matches(config[s], subscribed[s][c])]_vars

\* Connections that do not count (the temporary ones of get_history, internal
\* services) do not drive the lifecycle: a departure ends a session, or starts its
\* grace period, only if the session was used before.
OnlyUsersVacate ==
    [][\A c \in Conn, s \in Session :
          Cleanup(c) /\ (Expires(s) \/ timers'[s] # timers[s]) => counted[s]]_vars

\* A session with no counted subscriber left after one was there has a timer: each
\* of them departed.  (One that subscribes again under a role that does not count has
\* not departed; the bus starts no timer for it, and recast leaves that out.)
Unused(s) ==
    /\ Exists(s) /\ config[s].ephemeral /\ counted[s] /\ ~recast[s]
    /\ Counted(s) = {}
UnusedIsTimed == \A s \in Session : Unused(s) => \E k \in 0..MaxKeep : timers[s][k] > 0

\* The strengthening that makes UnusedIsTimed inductive: who counts now was counted.
UsersWereCounted ==
    \A s \in Session, c \in Conn : Exists(s) /\ Matches(config[s], subscribed[s][c]) => counted[s]

IInv ==
    /\ TypeOK
    /\ UsersWereCounted
    /\ UnusedIsTimed

\* ... and ends, unless somebody uses it again.
UnusedEnds == \A s \in Session : Unused(s) ~> ~Unused(s)

\* ADR-116: a session is kept for keepalive_secs after the last counted subscriber
\* disconnects.
GraceIsKept ==
    [][\A s \in Session : Expires(s) /\ counted[s] => quiet'[s] >= config[s].keepalive]_vars

\* ADR-116: an ephemeral session is cleaned up once all its users are gone.
Abandoned(s) ==
    /\ Exists(s) /\ config[s].ephemeral /\ counted[s]
    /\ \A c \in Conn : ~client[c]
AbandonedEnds == \A s \in Session : Abandoned(s) ~> ~Exists(s)

=============================================================================
