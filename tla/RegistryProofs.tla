--------------------------- MODULE RegistryProofs ---------------------------
(***************************************************************************)
(* Proofs about the sessions of the registry as they come and go:          *)
(*                                                                         *)
(*   EphemeralLifecycle  when an ephemeral session is deleted, and when    *)
(*                       not, for any connections, sessions, roles and     *)
(*                       keepalive bound;                                  *)
(*   BusWatch            what a subscription to every session is given,    *)
(*                       for every number of incarnations and chunks and   *)
(*                       every capacity of the channels.                   *)
(*                                                                         *)
(* The modules have no variable in common.                                 *)
(***************************************************************************)
EXTENDS EphemeralLifecycle, BusWatch, WellFoundedInduction, NaturalsInduction, TLAPS

-----------------------------------------------------------------------------
(* EphemeralLifecycle: types *)


\* Initially every variable has its type.
LEMMA InitType == Init => TypeOK
<1> SUFFICES ASSUME Init PROVE TypeOK
  OBVIOUS
<1>1. 0 \in 0..MaxKeep
  BY KeepAssumption
<1>2. timers \in [Session -> [0..MaxKeep -> Nat]]
  BY DEF Init
<1>3. subscribed \in [Session -> [Conn -> Entry]]
  BY DEF Init, Entry, Absent
<1> QED BY <1>1, <1>2, <1>3 DEF Init, TypeOK

\* The keepalive of a session is within its bound.
LEMMA KeepaliveType ==
  ASSUME NEW cfg \in Config
  PROVE  cfg.keepalive \in 0..MaxKeep
<1>1. CASE cfg = Persistent
  BY <1>1, KeepAssumption DEF Persistent
<1>2. CASE cfg \in [ephemeral : {TRUE}, keepalive : 0..MaxKeep, countRole : Role \cup {None}]
  BY <1>2
<1> QED BY <1>1, <1>2 DEF Config

\* One timer more.
LEMMA OneMoreTimer ==
  ASSUME NEW f \in [0..MaxKeep -> Nat], NEW k \in 0..MaxKeep
  PROVE  [f EXCEPT ![k] = @ + 1] \in [0..MaxKeep -> Nat]
<1>1. f[k] + 1 \in Nat
  OBVIOUS
<1> QED BY <1>1

\* Subscribers, timers and quiet times after a departure have their types.
LEMMA CleanupType ==
  ASSUME TypeOK, NEW c \in Conn, Cleanup(c)
  PROVE  TypeOK'
<1> DEFINE vacated == {s \in tracked[c] : Vacated(s, c)}
<1> DEFINE now == {s \in vacated : config[s].keepalive = 0}
<1>1. config' \in [Session -> Config \cup {None}]
  BY DEF Cleanup, TypeOK
<1>2. subscribed' \in [Session -> [Conn -> Entry]]
  BY DEF Cleanup, TypeOK, Remaining, Absent, Entry
<1>3. role' \in [Conn -> Role \cup {None}]
  BY DEF Cleanup, TypeOK
<1>4. doing' \in [Conn -> {"loop", "gone"} \cup Session]
  BY DEF Cleanup, TypeOK
<1>5. tracked' \in [Conn -> SUBSET Session]
  BY DEF Cleanup, TypeOK
<1>6. timers' \in [Session -> [0..MaxKeep -> Nat]]
  <2> SUFFICES ASSUME NEW s \in Session, s \in vacated
               PROVE  [timers[s] EXCEPT ![config[s].keepalive] = @ + 1] \in [0..MaxKeep -> Nat]
    BY DEF Cleanup, TypeOK
  <2>1. timers[s] \in [0..MaxKeep -> Nat]
    BY DEF TypeOK
  <2>2. config[s] \in Config
    BY DEF TypeOK, Vacated, Exists
  <2> QED BY <2>1, <2>2, KeepaliveType, OneMoreTimer
<1>7. quiet' \in [Session -> 0..MaxKeep]
  <2>1. 0 \in 0..MaxKeep /\ quiet \in [Session -> 0..MaxKeep]
    BY KeepAssumption DEF TypeOK
  <2>2. quiet' = [s \in Session |->
           IF s \in tracked[c] /\ Exists(s) /\ Matches(config[s], subscribed[s][c])
           THEN 0 ELSE quiet[s]]
    BY Zenon DEF Cleanup
  <2>3. ASSUME NEW s \in Session PROVE quiet'[s] \in 0..MaxKeep
    BY <2>1, <2>2, Zenon
  <2> QED BY <2>2, <2>3
<1>8. client' = client /\ counted' = counted
  BY DEF Cleanup
<1>9. recast' \in [Session -> BOOLEAN]
  BY DEF Cleanup, TypeOK
<1> QED BY <1>1, <1>2, <1>3, <1>4, <1>5, <1>6, <1>7, <1>8, <1>9 DEF TypeOK

\* Time passes for timers of the right type.
LEMMA TickType ==
  ASSUME TypeOK, Tick
  PROVE  TypeOK'
<1>1. timers' \in [Session -> [0..MaxKeep -> Nat]]
  <2> SUFFICES ASSUME NEW s \in Session, NEW k \in 0..MaxKeep
               PROVE  /\ (IF k = 0 THEN timers[s][0] ELSE 0) \in Nat
                      /\ (IF k < MaxKeep THEN timers[s][k + 1] ELSE 0) \in Nat
    BY KeepAssumption DEF Tick
  <2>1. timers[s] \in [0..MaxKeep -> Nat]
    BY DEF TypeOK
  <2> QED BY <2>1, KeepAssumption
<1>2. quiet' \in [Session -> 0..MaxKeep]
  BY KeepAssumption, SMTT(60) DEF Tick, TypeOK
<1> QED BY <1>1, <1>2 DEF Tick, TypeOK

\* Every step preserves the types.
LEMMA NextType == TypeOK /\ [Next]_vars => TypeOK'
<1> SUFFICES ASSUME TypeOK, [Next]_vars PROVE TypeOK'
  OBVIOUS
<1>1. ASSUME NEW s \in Session, NEW cfg \in Config, CreateSession(s, cfg) PROVE TypeOK'
  <2>1. quiet' \in [Session -> 0..MaxKeep]
    BY <1>1, KeepAssumption DEF CreateSession, TypeOK
  <2> QED BY <1>1, <2>1 DEF CreateSession, TypeOK, Absent, Entry
<1>2. ASSUME NEW s \in Session, DeleteSession(s) PROVE TypeOK'
  BY <1>2 DEF DeleteSession, TypeOK
<1>3. ASSUME NEW s \in Session, TimerFires(s) PROVE TypeOK'
  <2>1. timers[s] \in [0..MaxKeep -> Nat] /\ timers[s][0] - 1 \in Nat
    BY <1>3, KeepAssumption DEF TypeOK, TimerFires
  <2>2. timers' \in [Session -> [0..MaxKeep -> Nat]]
    BY <1>3, <2>1 DEF TypeOK, TimerFires
  <2> QED BY <1>3, <2>2 DEF TimerFires, TypeOK
<1>4. ASSUME NEW c \in Conn, NEW r \in Role \cup {None}, SetMeta(c, r) PROVE TypeOK'
  BY <1>4 DEF SetMeta, TypeOK
<1>5. ASSUME NEW c \in Conn, NEW s \in Session, Subscribe(c, s) PROVE TypeOK'
  <2>1. [role |-> role[c], present |-> TRUE] \in Entry
    BY DEF TypeOK, Entry
  <2>2. subscribed' \in [Session -> [Conn -> Entry]]
    BY <1>5, <2>1 DEF Subscribe, TypeOK
  <2>3. counted' \in [Session -> BOOLEAN]
    BY <1>5 DEF Subscribe, TypeOK
  <2>4. doing' \in [Conn -> {"loop", "gone"} \cup Session]
    BY <1>5 DEF Subscribe, TypeOK
  <2> QED BY <1>5, <2>2, <2>3, <2>4 DEF Subscribe, TypeOK
<1>6. ASSUME NEW c \in Conn, FinishSubscribe(c) PROVE TypeOK'
  BY <1>6 DEF FinishSubscribe, TypeOK
<1>7. ASSUME NEW c \in Conn, AbandonSubscribe(c) PROVE TypeOK'
  BY <1>7 DEF AbandonSubscribe, TypeOK
<1>8. ASSUME NEW c \in Conn, HangUp(c) PROVE TypeOK'
  BY <1>8 DEF HangUp, TypeOK
<1>9. ASSUME NEW c \in Conn, Cleanup(c) PROVE TypeOK'
  BY <1>9, CleanupType
<1>10. CASE Tick
  BY <1>10, TickType
<1>11. CASE UNCHANGED vars
  BY <1>11 DEF vars, TypeOK
<1> QED
  BY <1>1, <1>2, <1>3, <1>4, <1>5, <1>6, <1>7, <1>8, <1>9, <1>10, <1>11 DEF Next

\* Every variable always has its type.
THEOREM TypeCorrect == Spec => []TypeOK
<1>1. Init => TypeOK
  BY InitType
<1>2. TypeOK /\ [Next]_vars => TypeOK'
  BY NextType
<1> QED BY <1>1, <1>2, PTL DEF Spec

-----------------------------------------------------------------------------
(* No used session is cut off. *)

\* A departure removes only sessions that no other connection counts for.
LEMMA CleanupExpires ==
  ASSUME NEW d \in Conn, Cleanup(d), NEW s \in Session, Expires(s)
  PROVE  Vacated(s, d)
<1> DEFINE vacated == {r \in tracked[d] : Vacated(r, d)}
<1> DEFINE now == {r \in vacated : config[r].keepalive = 0}
<1>1. config' = [r \in Session |-> IF r \in now THEN None ELSE config[r]]
  BY Zenon DEF Cleanup
<1>2. config'[s] # config[s]
  BY DEF Expires, Exists
<1>3. s \in now
  BY <1>1, <1>2
<1> QED BY <1>3

\* A connection that counts and is still served never loses its session to a
\* departure or to a timer, however old the timer is.
THEOREM NobodyIsCutOff == Spec => NobodyCutOff
<1>1. ASSUME TypeOK, [Next]_vars, NEW s \in Session, Expires(s),
             NEW c \in Conn, doing'[c] # "gone"
      PROVE  ~Matches(config[s], subscribed[s][c])
  <2>1. config'[s] # config[s]
    BY <1>1 DEF Expires, Exists
  <2>2. config' # config
    BY <2>1
  <2>3. CASE \E r \in Session, cfg \in Config : CreateSession(r, cfg)
    BY <1>1, <2>1, <2>3 DEF CreateSession, Expires, Exists, TypeOK
  <2>4. CASE \E r \in Session : DeleteSession(r)
    BY <1>1, <2>1, <2>4 DEF DeleteSession, Expires, TypeOK
  <2>5. ASSUME NEW r \in Session, TimerFires(r) PROVE ~Matches(config[s], subscribed[s][c])
    <3>1. r = s /\ Removable(s)
      BY <1>1, <2>1, <2>5 DEF TimerFires, TypeOK
    <3> QED BY <3>1 DEF Removable, Counted
  <2>6. ASSUME NEW d \in Conn, Cleanup(d) PROVE ~Matches(config[s], subscribed[s][c])
    <3>1. Vacated(s, d)
      BY <1>1, <2>6, CleanupExpires
    <3>2. c # d
      BY <1>1, <2>6 DEF Cleanup, TypeOK
    <3> QED BY <3>1, <3>2 DEF Vacated
  <2> QED
    BY <1>1, <2>2, <2>3, <2>4, <2>5, <2>6
    DEF Next, SetMeta, Subscribe, FinishSubscribe, AbandonSubscribe, HangUp, Tick, vars
<1>2. TypeOK /\ [Next]_vars => [\A s \in Session : Expires(s) =>
          \A c \in Conn : doing'[c] # "gone" => ~Matches(config[s], subscribed[s][c])]_vars
  BY <1>1
<1> QED BY <1>2, TypeCorrect, PTL DEF Spec, NobodyCutOff

-----------------------------------------------------------------------------
(* The inductive invariant. *)

\* Initially there are no sessions and no subscribers.
LEMMA InitInv == Init => IInv
<1> SUFFICES ASSUME Init PROVE IInv
  OBVIOUS
<1>1. TypeOK
  BY InitType
<1>2. \A s \in Session : ~Exists(s) /\ \A c \in Conn : ~subscribed[s][c].present
  BY DEF Init, Exists, Absent
<1> QED BY <1>1, <1>2 DEF IInv, UsersWereCounted, UnusedIsTimed, Unused

\* What a departure does to one session and its subscribers.
LEMMA CleanupEffect ==
  ASSUME TypeOK, NEW c \in Conn, Cleanup(c), NEW s \in Session
  PROVE  /\ config'[s] \in {config[s], None}
         /\ s \in tracked[c] /\ Vacated(s, c) /\ config'[s] # None
               => /\ config[s].keepalive \in 0..MaxKeep
                  /\ timers'[s] = [timers[s] EXCEPT ![config[s].keepalive] = @ + 1]
         /\ ~(s \in tracked[c] /\ Vacated(s, c)) => timers'[s] = timers[s]
         /\ s \in tracked[c] /\ Exists(s) => subscribed'[s] = Remaining(s, c)
         /\ ~(s \in tracked[c] /\ Exists(s)) => subscribed'[s] = subscribed[s]
<1> DEFINE vacated == {r \in tracked[c] : Vacated(r, c)}
<1> DEFINE now == {r \in vacated : config[r].keepalive = 0}
<1>1. config' = [r \in Session |-> IF r \in now THEN None ELSE config[r]]
  BY Zenon DEF Cleanup
<1>2. timers' = [r \in Session |->
         IF r \in vacated \ now
         THEN [timers[r] EXCEPT ![config[r].keepalive] = @ + 1] ELSE timers[r]]
  BY Zenon DEF Cleanup
<1>3. subscribed' = [r \in Session |->
         IF r \in tracked[c] /\ Exists(r) THEN Remaining(r, c) ELSE subscribed[r]]
  BY Zenon DEF Cleanup
<1>4. s \in now => config'[s] = None
  BY <1>1
<1>5. s \notin now => config'[s] = config[s]
  BY <1>1
<1>6. s \in vacated \ now => timers'[s] = [timers[s] EXCEPT ![config[s].keepalive] = @ + 1]
  BY <1>2, Zenon
<1>7. s \notin vacated \ now => timers'[s] = timers[s]
  BY <1>2, Zenon
<1>8. s \in tracked[c] /\ Exists(s) => subscribed'[s] = Remaining(s, c)
  BY <1>3, Zenon
<1>9. ~(s \in tracked[c] /\ Exists(s)) => subscribed'[s] = subscribed[s]
  BY <1>3, Zenon
<1>10. Vacated(s, c) => config[s].keepalive \in 0..MaxKeep
  <2>1. Exists(s) => config[s] \in Config
    BY DEF Exists, TypeOK
  <2> QED BY <2>1, KeepaliveType DEF Vacated
<1>11. s \in vacated <=> s \in tracked[c] /\ Vacated(s, c)
  OBVIOUS
<1> HIDE DEF vacated, now
<1> QED BY <1>4, <1>5, <1>6, <1>7, <1>8, <1>9, <1>10, <1>11

\* A departing connection is removed from the entries and nobody else is.
LEMMA CleanupEntries ==
  ASSUME TypeOK, NEW c \in Conn, Cleanup(c), NEW s \in Session, NEW d \in Conn
  PROVE  /\ d # c => subscribed'[s][d] = subscribed[s][d]
         /\ s \in tracked[c] /\ Exists(s) => subscribed'[s][c] = Absent
         /\ ~(s \in tracked[c] /\ Exists(s)) => subscribed'[s] = subscribed[s]
<1>1. subscribed[s] \in [Conn -> Entry]
  BY DEF TypeOK
<1>2. CASE s \in tracked[c] /\ Exists(s)
  <2>1. subscribed'[s] = [subscribed[s] EXCEPT ![c] = Absent]
    BY <1>2, CleanupEffect DEF Remaining
  <2> QED BY <1>1, <1>2, <2>1
<1>3. CASE ~(s \in tracked[c] /\ Exists(s))
  BY <1>3, CleanupEffect
<1> QED BY <1>2, <1>3

\* Who counts now was counted when it subscribed.
LEMMA NextUsers == IInv /\ [Next]_vars => UsersWereCounted'
<1> SUFFICES ASSUME TypeOK, UsersWereCounted, [Next]_vars,
                    NEW s \in Session, NEW c \in Conn,
                    Exists(s)', Matches(config'[s], subscribed'[s][c])
             PROVE  counted'[s]
  BY DEF IInv, UsersWereCounted
<1>1. ASSUME NEW r \in Session, NEW cfg \in Config, CreateSession(r, cfg)
      PROVE  counted'[s]
  <2>1. r # s
    BY <1>1 DEF CreateSession, TypeOK, Absent, Matches
  <2> QED BY <1>1, <2>1 DEF CreateSession, TypeOK, UsersWereCounted, Exists
<1>2. ASSUME NEW r \in Session, DeleteSession(r) \/ TimerFires(r) PROVE counted'[s]
  <2>1. config'[s] = config[s]
    BY <1>2 DEF DeleteSession, TimerFires, TypeOK, Exists
  <2> QED BY <1>2, <2>1 DEF DeleteSession, TimerFires, UsersWereCounted, Exists
<1>3. ASSUME NEW d \in Conn, NEW r \in Session, Subscribe(d, r) PROVE counted'[s]
  <2>1. config' = config
    BY <1>3 DEF Subscribe
  <2>2. CASE r = s /\ d = c
    <3>1. subscribed'[s][c] = [role |-> role[c], present |-> TRUE]
      BY <1>3, <2>2 DEF Subscribe, TypeOK
    <3>2. counted'[s] = (counted[s] \/ Matches(config[s], [role |-> role[c], present |-> TRUE]))
      BY <1>3, <2>2 DEF Subscribe, TypeOK
    <3> QED BY <2>1, <3>1, <3>2
  <2>3. CASE ~(r = s /\ d = c)
    <3>1. subscribed'[s][c] = subscribed[s][c]
      BY <1>3, <2>3 DEF Subscribe, TypeOK
    <3>2. counted[s]
      BY <2>1, <3>1 DEF UsersWereCounted, Exists
    <3>3. counted'[s] = counted[s] \/ counted'[s] = (counted[s] \/ Matches(config[s], [role |-> role[d], present |-> TRUE]))
      BY <1>3 DEF Subscribe, TypeOK
    <3> QED BY <3>2, <3>3
  <2> QED BY <2>2, <2>3
<1>4. ASSUME NEW d \in Conn, Cleanup(d) PROVE counted'[s]
  <2>1. config'[s] = config[s]
    BY <1>4, CleanupEffect DEF Exists
  <2>2. subscribed'[s][c] \in {subscribed[s][c], Absent}
    <3>1. CASE c # d
      BY <1>4, <3>1, CleanupEntries
    <3>2. CASE c = d /\ s \in tracked[c] /\ Exists(s)
      BY <1>4, <3>2, CleanupEntries
    <3>3. CASE c = d /\ ~(s \in tracked[c] /\ Exists(s))
      BY <1>4, <3>3, CleanupEntries
    <3> QED BY <3>1, <3>2, <3>3
  <2>3. subscribed'[s][c] = subscribed[s][c]
    BY <2>2 DEF Matches, Absent
  <2> QED BY <1>4, <2>1, <2>3 DEF Cleanup, UsersWereCounted, Exists
<1>5. CASE UNCHANGED <<config, subscribed, counted>>
  BY <1>5 DEF UsersWereCounted, Exists
<1> QED
  BY <1>1, <1>2, <1>3, <1>4, <1>5
  DEF Next, SetMeta, FinishSubscribe, AbandonSubscribe, HangUp, Tick, vars

\* A session that is not used any more has a timer: the last counted departure starts
\* one, and the one that fires removes the session.
LEMMA NextTimed == IInv /\ [Next]_vars => UnusedIsTimed'
<1> SUFFICES ASSUME IInv, [Next]_vars, NEW s \in Session, Unused(s)'
             PROVE  \E k \in 0..MaxKeep : timers'[s][k] > 0
  BY DEF UnusedIsTimed
<1>0. TypeOK /\ UsersWereCounted /\ UnusedIsTimed
  BY DEF IInv
<1>1. \A c \in Conn : ~Matches(config'[s], subscribed'[s][c])
  BY DEF Unused, Counted
<1>2. Exists(s)' /\ config'[s].ephemeral /\ counted'[s] /\ ~recast'[s]
  BY DEF Unused
<1>3. ASSUME Unused(s), timers'[s] = timers[s]
      PROVE  \E k \in 0..MaxKeep : timers'[s][k] > 0
  BY <1>0, <1>3 DEF UnusedIsTimed
<1>4. ASSUME config'[s] = config[s], subscribed'[s] = subscribed[s], counted'[s] = counted[s],
             recast'[s] = recast[s]
      PROVE  Unused(s)
  BY <1>1, <1>2, <1>4 DEF Unused, Counted, Exists
<1>5. ASSUME NEW r \in Session, NEW cfg \in Config, CreateSession(r, cfg)
      PROVE  \E k \in 0..MaxKeep : timers'[s][k] > 0
  <2>1. r # s
    BY <1>0, <1>2, <1>5 DEF CreateSession, TypeOK
  <2> QED BY <1>0, <1>3, <1>4, <1>5, <2>1 DEF CreateSession, TypeOK
<1>6. ASSUME NEW r \in Session, DeleteSession(r)
      PROVE  \E k \in 0..MaxKeep : timers'[s][k] > 0
  <2>1. r # s
    BY <1>0, <1>2, <1>6 DEF DeleteSession, TypeOK, Exists
  <2> QED BY <1>0, <1>3, <1>4, <1>6, <2>1 DEF DeleteSession, TypeOK
<1>7. ASSUME NEW r \in Session, TimerFires(r)
      PROVE  \E k \in 0..MaxKeep : timers'[s][k] > 0
  <2>1. config'[s] = config[s]
    BY <1>0, <1>2, <1>7 DEF TimerFires, TypeOK, Exists
  <2>2. Unused(s)
    BY <1>4, <1>7, <2>1 DEF TimerFires
  <2>3. r # s
    BY <1>0, <1>2, <1>7, <2>2 DEF TimerFires, TypeOK, Removable, Unused, Exists
  <2> QED BY <1>0, <1>3, <1>7, <2>2, <2>3 DEF TimerFires, TypeOK
<1>8. ASSUME NEW c \in Conn, NEW r \in Session, Subscribe(c, r)
      PROVE  \E k \in 0..MaxKeep : timers'[s][k] > 0
  <2>1. config' = config /\ timers' = timers
    BY <1>8 DEF Subscribe
  <2>2. CASE r # s
    BY <1>0, <1>3, <1>4, <1>8, <2>1, <2>2 DEF Subscribe, TypeOK
  <2>3. CASE r = s
    <3> DEFINE e == [role |-> role[c], present |-> TRUE]
    <3>1. subscribed'[s] = [subscribed[s] EXCEPT ![c] = e] /\ subscribed[s] \in [Conn -> Entry]
      BY <1>0, <1>8, <2>3 DEF Subscribe, TypeOK
    <3>2. subscribed'[s][c] = e /\ \A d \in Conn \ {c} : subscribed'[s][d] = subscribed[s][d]
      BY <3>1
    <3>3. ~Matches(config[s], e)
      BY <1>1, <2>1, <3>2
    <3>4. counted'[s] = (counted[s] \/ Matches(config[s], e))
      BY <1>0, <1>8, <2>3 DEF Subscribe, TypeOK
    <3>5. counted[s]
      BY <1>2, <3>3, <3>4
    <3>6. ~Matches(config[s], subscribed[s][c])
      <4>1. subscribed[s][c] \in Entry
        BY <3>1
      <4>2. recast'[s] = (recast[s] \/ Recasts(subscribed[s][c], e))
        BY <1>0, <1>8, <2>3 DEF Subscribe, TypeOK
      <4>3. subscribed[s][c].present => subscribed[s][c].role = role[c]
        BY <1>2, <4>2 DEF Recasts
      <4> QED BY <3>3, <4>1, <4>3 DEF Matches, Entry
    <3>7. Counted(s) = {}
      BY <1>1, <2>1, <3>2, <3>6 DEF Counted
    <3>8. ~recast[s]
      <4>1. recast'[s] = (recast[s] \/ Recasts(subscribed[s][c], e))
        BY <1>0, <1>8, <2>3 DEF Subscribe, TypeOK
      <4> QED BY <1>2, <4>1
    <3>9. Unused(s)
      BY <1>2, <2>1, <3>5, <3>7, <3>8 DEF Unused, Exists
    <3> QED BY <1>3, <2>1, <3>9
  <2> QED BY <2>2, <2>3
<1>9. ASSUME NEW c \in Conn, Cleanup(c)
      PROVE  \E k \in 0..MaxKeep : timers'[s][k] > 0
  <2>1. config'[s] = config[s] /\ Exists(s) /\ counted[s] /\ ~recast[s]
    BY <1>0, <1>2, <1>9, CleanupEffect DEF Cleanup, Exists
  <2>2. \A d \in Conn \ {c} : ~Matches(config[s], subscribed[s][d])
    BY <1>0, <1>1, <1>9, <2>1, CleanupEntries
  <2>3. CASE s \in tracked[c] /\ Matches(config[s], subscribed[s][c])
    <3>1. Vacated(s, c)
      BY <1>2, <2>1, <2>2, <2>3 DEF Vacated
    <3>2. /\ config[s].keepalive \in 0..MaxKeep
          /\ timers'[s] = [timers[s] EXCEPT ![config[s].keepalive] = @ + 1]
      BY <1>0, <1>2, <1>9, <2>3, <3>1, CleanupEffect DEF Exists
    <3>3. timers[s] \in [0..MaxKeep -> Nat]
      BY <1>0 DEF TypeOK
    <3>4. ASSUME NEW k \in 0..MaxKeep, timers'[s] = [timers[s] EXCEPT ![k] = @ + 1]
          PROVE  timers'[s][k] > 0
      <4>1. timers[s][k] \in Nat
        BY <3>3
      <4>2. timers'[s][k] = timers[s][k] + 1
        BY <3>3, <3>4
      <4> QED BY <4>1, <4>2
    <3> QED BY <3>2, <3>4
  <2>4. CASE ~(s \in tracked[c] /\ Matches(config[s], subscribed[s][c]))
    <3>1. ~Matches(config[s], subscribed[s][c])
      BY <1>0, <1>1, <1>9, <2>1, <2>4, CleanupEntries
    <3>2. Unused(s)
      BY <1>2, <2>1, <2>2, <3>1 DEF Unused, Counted
    <3>3. timers'[s] = timers[s]
      BY <1>0, <1>9, <3>1, CleanupEffect DEF Vacated
    <3> QED BY <1>3, <3>2, <3>3
  <2> QED BY <2>3, <2>4
<1>10. ASSUME Tick
      PROVE  \E k \in 0..MaxKeep : timers'[s][k] > 0
  <2>1. Unused(s)
    BY <1>4, <1>10 DEF Tick
  <2>2. PICK k \in 0..MaxKeep : timers[s][k] > 0
    BY <1>0, <2>1 DEF UnusedIsTimed
  <2>3. timers'[s] = [j \in 0..MaxKeep |->
           (IF j = 0 THEN timers[s][0] ELSE 0)
           + (IF j < MaxKeep THEN timers[s][j + 1] ELSE 0)]
    BY <1>10 DEF Tick
  <2>4. timers[s] \in [0..MaxKeep -> Nat]
    BY <1>0 DEF TypeOK
  <2> DEFINE due(j) == IF j = 0 THEN timers[s][0] ELSE 0
  <2> DEFINE next(j) == IF j < MaxKeep THEN timers[s][j + 1] ELSE 0
  <2>5. \A j \in 0..MaxKeep : due(j) \in Nat /\ next(j) \in Nat
    BY <2>4, KeepAssumption
  <2>6. \A j \in 0..MaxKeep : timers'[s][j] = due(j) + next(j)
    BY <2>3
  <2>7. CASE k = 0
    <3>1. due(k) > 0
      BY <2>2, <2>7
    <3> HIDE DEF due, next
    <3> QED BY <2>5, <2>6, <3>1
  <2>8. CASE k # 0
    <3>1. k - 1 \in 0..MaxKeep /\ k - 1 < MaxKeep /\ (k - 1) + 1 = k
      BY <2>8, KeepAssumption
    <3>2. next(k - 1) > 0
      BY <2>2, <3>1
    <3> HIDE DEF due, next
    <3> QED BY <2>5, <2>6, <3>1, <3>2
  <2> QED BY <2>7, <2>8
<1>11. CASE UNCHANGED <<config, subscribed, counted, timers, recast>>
  BY <1>3, <1>4, <1>11
<1> QED
  BY <1>5, <1>6, <1>7, <1>8, <1>9, <1>10, <1>11
  DEF Next, SetMeta, FinishSubscribe, AbandonSubscribe, HangUp, vars

\* The conjunction the next two results rest on.
THEOREM Inductive == Spec => []IInv
<1>1. Init => IInv
  BY InitInv
<1>2. IInv /\ [Next]_vars => IInv'
  BY NextType, NextUsers, NextTimed DEF IInv
<1> QED BY <1>1, <1>2, PTL DEF Spec

\* Whatever connects, leaves and comes back, a session that was used and is not any
\* more has a timer that will look at it.
THEOREM UnusedIsAlwaysTimed == Spec => []UnusedIsTimed
<1>1. IInv => UnusedIsTimed
  BY DEF IInv
<1> QED BY <1>1, Inductive, PTL

\* Connections that do not count never end a session that was not used, nor start its
\* grace period.
THEOREM OnlyUsersEverVacate == Spec => OnlyUsersVacate
<1>1. ASSUME IInv, NEW c \in Conn, NEW s \in Session, Cleanup(c),
             Expires(s) \/ timers'[s] # timers[s]
      PROVE  counted[s]
  <2>1. Vacated(s, c)
    BY <1>1, CleanupExpires, CleanupEffect DEF IInv
  <2> QED BY <1>1, <2>1 DEF Vacated, IInv, UsersWereCounted
<1>2. IInv => [\A c \in Conn, s \in Session :
          Cleanup(c) /\ (Expires(s) \/ timers'[s] # timers[s]) => counted[s]]_vars
  BY <1>1
<1> QED BY <1>2, Inductive, PTL DEF OnlyUsersVacate

-----------------------------------------------------------------------------
(* BusWatch *)

Att == [inc : Nat, pos : Nat, upto : Nat, state : {"announce", "replay", "live", "lagged", "ended"}]

\* An attachment is to an incarnation, and somewhere in its stream.
PlacedIn(a, streams) ==
    /\ a.inc \in 1..Len(streams)
    /\ a.pos \in 1..Len(streams[a.inc]) + 1 /\ a.upto \in 0..Len(streams[a.inc])
    /\ a.state \in {"announce", "replay"} => a.pos <= a.upto + 1

Placed(a) == PlacedIn(a, stream)

WatchTyped ==
    /\ stream \in Seq(Seq(BOOLEAN)) /\ filtered \in BOOLEAN
    /\ seen \in Seq(Seq(Nat)) /\ Len(seen) = Len(stream)
    /\ alive \in 0..Len(stream) /\ late \subseteq 1..Len(stream)
    /\ events \in Seq({"created", "deleted", "tags"})
    /\ watch \in {"out", "replay", "look", "listen", "ended", "closed"}
    /\ atts \in Seq(Att)
    /\ \A k \in 1..Len(atts) : Placed(atts[k])
    /\ watch = "out" => atts = <<>>
    /\ watch = "replay" => atts # <<>> /\ atts[Len(atts)].state \in {"announce", "replay"}

\* The members of M up to p, and no others, are written in q in their order.
Written(q, M, p) ==
    /\ \A k \in 1..Len(q) :
          /\ q[k] \in M /\ q[k] <= p
          /\ \A i \in M : i < q[k] <=> \E j \in 1..k - 1 : q[j] = i
    /\ \A i \in M : i <= p => \E k \in 1..Len(q) : q[k] = i

AttachedTo(n) == \E k \in 1..Len(atts) : atts[k].inc = n

\* An attachment has written what matches before its position; without one there is nothing.
AllWritten ==
    /\ \A k \in 1..Len(atts) : atts[k].inc \notin late =>
          Written(seen[atts[k].inc], Matching(atts[k].inc), atts[k].pos - 1)
    /\ \A n \in 1..Len(stream) \ late : ~AttachedTo(n) => seen[n] = <<>>

\* The listener attaches once to an incarnation ...
AttachedOnce ==
    \A k, j \in 1..Len(atts) : atts[k].inc = atts[j].inc /\ atts[k].inc \notin late => k = j

\* ... because its creation is announced once, and is handled when it is attached to.
AnnouncedOnce ==
    alive # 0 /\ alive \notin late =>
        /\ \A i, j \in 1..Len(events) : events[i] = "created" /\ events[j] = "created" => i = j
        /\ watch = "look" => "created" \notin ToSet(events)
        /\ AttachedTo(alive) => "created" \notin ToSet(events) /\ watch # "look"

WatchInv == WatchTyped /\ AllWritten /\ AttachedOnce /\ AnnouncedOnce

-----------------------------------------------------------------------------
(* Lemmas about the operators. *)

\* A set of naturals has a least element.
LEMMA LeastOf ==
    ASSUME NEW T, T \subseteq Nat, T # {}
    PROVE  \E m \in T : \A k \in T : m <= k
<1>1. PICK m \in T : \A k \in T : <<k, m>> \notin OpToRel(<, Nat)
  BY WFMin, NatLessThanWellFounded, Zenon
<1>2. \A k \in T : ~(k < m)
  BY <1>1, Zenon DEF OpToRel
<1> QED
  BY <1>2

\* First is it.
LEMMA FirstOf ==
    ASSUME NEW S, S \subseteq Nat, S # {}
    PROVE  First(S) \in S /\ \A j \in S : First(S) <= j
<1>1. \E i \in S : \A j \in S : i <= j
  BY LeastOf
<1> QED
  BY <1>1 DEF First

\* The stream of an incarnation and what was written of it.
LEMMA Streams ==
    ASSUME WatchTyped, NEW n \in 1..Len(stream)
    PROVE  /\ stream[n] \in Seq(BOOLEAN) /\ seen[n] \in Seq(Nat)
           /\ Len(stream[n]) \in Nat /\ Len(seen[n]) \in Nat
           /\ Matching(n) \subseteq 1..Len(stream[n])
BY DEF WatchTyped, Matching

\* What an attachment still has to write is part of the stream of its incarnation.
LEMMA DueIs ==
    ASSUME WatchTyped, NEW k \in 1..Len(atts)
    PROVE  /\ Due(atts[k]) = {i \in Matching(atts[k].inc) : i >= atts[k].pos}
           /\ Due(atts[k]) \subseteq Nat \ {0}
<1> DEFINE a == atts[k]
           n == a.inc
<1>1. n \in 1..Len(stream) /\ a.pos \in Nat \ {0} /\ Len(stream[n]) \in Nat
  <2>1. a \in Att /\ Placed(a)
    BY DEF WatchTyped
  <2>2. n \in 1..Len(stream) /\ a.pos \in 1..Len(stream[n]) + 1 /\ a.pos \in Nat
    BY <2>1 DEF Placed, PlacedIn, Att
  <2>3. Len(stream[n]) \in Nat
    BY <2>2, Streams
  <2> QED
    BY <2>2, <2>3
<1> HIDE DEF a
<1>2. ASSUME NEW i
      PROVE  i \in a.pos..Len(stream[n]) <=> i \in 1..Len(stream[n]) /\ i >= a.pos
  BY <1>1
<1>3. Due(a) = {i \in Matching(n) : i >= a.pos}
  BY <1>2 DEF Due, Matching
<1>4. Matching(n) \subseteq Nat \ {0}
  BY <1>1, Streams
<1> QED
  BY <1>3, <1>4 DEF a

\* Writing the next one extends what is written.
LEMMA WrittenMore ==
    ASSUME NEW q \in Seq(Nat), NEW M, M \subseteq Nat, NEW p \in Nat, Written(q, M, p),
           NEW i \in M, i > p, \A j \in M : j <= p \/ i <= j
    PROVE  Append(q, i) \in Seq(Nat) /\ Written(Append(q, i), M, i)
<1> DEFINE r == Append(q, i)
<1>1. r \in Seq(Nat) /\ Len(r) = Len(q) + 1 /\ Len(q) \in Nat /\ r[Len(q) + 1] = i /\ i \in Nat
  OBVIOUS
<1>2. \A k \in 1..Len(q) : r[k] = q[k] /\ q[k] \in Nat
  OBVIOUS
<1> HIDE DEF r
<1>3. /\ \A k \in 1..Len(q) : /\ q[k] \in M /\ q[k] <= p
                              /\ \A m \in M : m < q[k] <=> \E j \in 1..k - 1 : q[j] = m
      /\ \A m \in M : m <= p => \E k \in 1..Len(q) : q[k] = m
  BY DEF Written
<1>4. \A k \in 1..Len(r) : k \in 1..Len(q) \/ k = Len(q) + 1
  BY <1>1
<1>5. \A k \in 1..Len(r) : r[k] \in M /\ r[k] <= i
  <2>1. \A k \in 1..Len(q) : r[k] \in M /\ r[k] <= p /\ r[k] \in Nat
    BY <1>2, <1>3
  <2>2. \A k \in 1..Len(q) : r[k] \in M /\ r[k] <= i
    BY <1>1, <2>1
  <2> QED
    BY <1>1, <1>4, <2>2
<1>6. ASSUME NEW k \in 1..Len(r), NEW m \in M
      PROVE  m < r[k] <=> \E j \in 1..k - 1 : r[j] = m
  <2>0. \A j \in 1..k - 1 : j \in 1..Len(q) /\ r[j] = q[j]
    BY <1>1, <1>2
  <2>1. CASE k \in 1..Len(q)
    <3>1. r[k] = q[k]
      BY <2>1, <1>2
    <3>2. m < q[k] <=> \E j \in 1..k - 1 : q[j] = m
      BY <2>1, <1>3
    <3> QED
      BY <2>0, <3>1, <3>2
  <2>2. CASE k = Len(q) + 1
    <3>1. m < i <=> m <= p
      BY <1>1
    <3>2. \A j \in 1..Len(q) : q[j] <= p /\ (q[j] = m => m <= p)
      BY <1>3
    <3>3. k - 1 = Len(q) /\ r[k] = i
      BY <2>2, <1>1
    <3> QED
      BY <2>0, <3>1, <3>2, <3>3, <1>3
  <2> QED
    BY <2>1, <2>2, <1>4
<1>7. ASSUME NEW m \in M, m <= i
      PROVE  \E k \in 1..Len(r) : r[k] = m
  <2>1. m <= p \/ m = i
    BY <1>1, <1>7
  <2>2. \A k \in 1..Len(q) : k \in 1..Len(r)
    BY <1>1
  <2>3. Len(q) + 1 \in 1..Len(r)
    BY <1>1
  <2> QED
    BY <2>1, <2>2, <2>3, <1>1, <1>2, <1>3
<1> QED
  BY <1>1, <1>5, <1>6, <1>7 DEF Written, r

\* Where nothing matches there is nothing to write.
LEMMA WrittenUpTo ==
    ASSUME NEW q \in Seq(Nat), NEW M, M \subseteq Nat, NEW p \in Nat, NEW r \in Nat, p <= r,
           Written(q, M, p), \A j \in M : j <= p \/ r < j
    PROVE  Written(q, M, r)
<1>1. \A k \in 1..Len(q) : q[k] \in Nat
  OBVIOUS
<1> QED
  BY <1>1 DEF Written

\* Chunks published behind what is written change nothing about it.
LEMMA WrittenGrows ==
    ASSUME NEW q \in Seq(Nat), NEW M, NEW L, M \subseteq L, L \subseteq Nat, NEW p \in Nat,
           Written(q, M, p), \A j \in L : j \in M \/ p < j
    PROVE  Written(q, L, p)
<1>1. /\ \A k \in 1..Len(q) : /\ q[k] \in M /\ q[k] <= p
                              /\ \A m \in M : m < q[k] <=> \E j \in 1..k - 1 : q[j] = m
      /\ \A m \in M : m <= p => \E k \in 1..Len(q) : q[k] = m
  BY DEF Written
<1>2. ASSUME NEW k \in 1..Len(q), NEW m \in L
      PROVE  m < q[k] <=> \E j \in 1..k - 1 : q[j] = m
  <2>1. CASE m \in M
    BY <2>1, <1>1
  <2>2. CASE m \notin M
    <3>1. p < m /\ q[k] \in Nat /\ q[k] <= p /\ m \in Nat
      BY <2>2, <1>1
    <3>2. \A j \in 1..k - 1 : j \in 1..Len(q)
      OBVIOUS
    <3> QED
      BY <2>2, <3>1, <3>2, <1>1
  <2> QED
    BY <2>1, <2>2
<1>3. \A m \in L : m <= p => \E k \in 1..Len(q) : q[k] = m
  BY <1>1
<1>4. \A k \in 1..Len(q) : q[k] \in L /\ q[k] <= p
  BY <1>1
<1> QED
  BY <1>2, <1>3, <1>4 DEF Written

-----------------------------------------------------------------------------
(* Types, and where the attachments are. *)

\* At the start nothing is attached or written.
LEMMA WatchInitInv == WatchInit => WatchInv
<1> SUFFICES ASSUME WatchInit PROVE WatchInv
  OBVIOUS
<1>1. CASE alive = 0
  <2>1. stream = <<>> /\ seen = <<>>
    BY <1>1 DEF WatchInit
  <2> QED
    BY <1>1, <2>1 DEF WatchInit, WatchInv, WatchTyped, AllWritten, AttachedOnce, AnnouncedOnce
<1>2. CASE alive = 1
  <2>1. stream = [n \in 1..1 |-> <<TRUE>>] /\ seen = [n \in 1..1 |-> <<>>]
    BY <1>2, Zenon DEF WatchInit
  <2>a. <<TRUE>> \in Seq(BOOLEAN) /\ <<>> \in Seq(Nat)
    OBVIOUS
  <2>2. /\ stream \in Seq(Seq(BOOLEAN)) /\ Len(stream) = 1
        /\ seen \in Seq(Seq(Nat)) /\ Len(seen) = 1 /\ seen[1] = <<>>
    BY <2>1, <2>a
  <2> QED
    BY <1>2, <2>2 DEF WatchInit, WatchInv, WatchTyped, AllWritten, AttachedOnce, AnnouncedOnce,
       AttachedTo, ToSet
<1>3. alive \in {0, 1}
  BY Zenon DEF WatchInit
<1> QED
  BY <1>1, <1>2, <1>3

\* A watcher that attaches to the incarnation of the registry: by its first look, or one
\* that a creation makes it take.
Attaches(a) ==
    /\ atts = <<>> \/ watch = "look" \/ "created" \in ToSet(events)
    /\ alive # 0 /\ a.inc = alive /\ a.pos = 1 /\ a.upto = Len(stream[alive])
    /\ a.state \in {"announce", "replay"}
    /\ atts' = Append(atts, a) /\ watch' = "replay"
    /\ UNCHANGED <<stream, seen, late, filtered, alive>>

\* The attachments are at the same places, in states that are as far or further.
StayPlaced ==
    /\ Len(atts') = Len(atts)
    /\ \A k \in 1..Len(atts) : /\ atts'[k].inc = atts[k].inc /\ atts'[k].pos = atts[k].pos
                               /\ atts'[k].upto = atts[k].upto
                               /\ atts'[k].state \in {"announce", "replay"} =>
                                     atts[k].state \in {"announce", "replay"}
    /\ UNCHANGED <<stream, seen, late, filtered>>

\* Position i of the stream of attachment k is written, or nothing up to its next position.
Writes(k, i) ==
    LET a == atts[k]
    IN  /\ i \in Due(a) /\ \A j \in Due(a) : i <= j
        /\ a.state = "replay" => i <= a.upto
        /\ a.state \in {"replay", "live"}
        /\ seen' = [seen EXCEPT ![a.inc] = Append(@, i)]
        /\ atts' = [atts EXCEPT ![k].pos = i + 1]
        /\ UNCHANGED <<stream, late, filtered, alive>>

Starts(k) ==
    LET a == atts[k]
    IN  /\ k = Len(atts) /\ Due(a) \cap 1..a.upto = {} /\ watch' = "listen" /\ a.state = "replay"
        /\ atts' = [atts EXCEPT ![k].state = "live", ![k].pos = a.upto + 1]
        /\ UNCHANGED <<stream, seen, late, filtered, alive>>

\* While the history is replayed there is a newest attachment.
LEMMA LastAttachment ==
    ASSUME WatchTyped, watch = "replay"
    PROVE  /\ Len(atts) \in 1..Len(atts) /\ Len(atts) \in Nat
           /\ Newest \in Att /\ Placed(Newest) /\ Newest.state \in {"announce", "replay"}
           /\ atts \in Seq(Att)
<1>1. atts \in Seq(Att) /\ atts # <<>> /\ atts[Len(atts)].state \in {"announce", "replay"}
  BY DEF WatchTyped
<1>2. Len(atts) \in 1..Len(atts) /\ Len(atts) \in Nat
  BY <1>1
<1> QED
  BY <1>1, <1>2 DEF WatchTyped, Newest

\* Only the state of attachment k changes.
LEMMA StateChanges ==
    ASSUME WatchTyped, NEW k \in 1..Len(atts),
           NEW st \in {"announce", "replay", "live", "lagged", "ended"},
           st \in {"announce", "replay"} => atts[k].state \in {"announce", "replay"},
           atts' = [atts EXCEPT ![k].state = st], UNCHANGED <<stream, seen, late, filtered>>
    PROVE  StayPlaced /\ atts' \in Seq(Att)
<1>1. atts \in Seq(Att) /\ atts[k] \in Att
  BY DEF WatchTyped
<1> DEFINE a == [atts[k] EXCEPT !.state = st]
<1>2. a \in Att /\ a.inc = atts[k].inc /\ a.pos = atts[k].pos /\ a.upto = atts[k].upto /\ a.state = st
  BY <1>1 DEF Att
<1>3. atts' = [atts EXCEPT ![k] = a]
  OBVIOUS
<1> HIDE DEF a
<1>4. atts' \in Seq(Att) /\ Len(atts') = Len(atts)
  BY <1>1, <1>2, <1>3
<1>5. \A j \in 1..Len(atts) : atts'[j] = IF j = k THEN a ELSE atts[j]
  BY <1>1, <1>3
<1> QED
  BY <1>2, <1>4, <1>5 DEF StayPlaced

\* The steps, by the part of the system that takes them.
LEMMA WatchActions ==
    ASSUME [WatchNext]_wVars
    PROVE  \/ WatchedCreate \/ WatchedDelete \/ WatchedTags \/ UNCHANGED wVars
           \/ \E match \in BOOLEAN : WatchedPublish(match)
           \/ WatchSubscribe \/ WatchCloses
           \/ ListenerLags \/ ListenerCreated \/ ListenerLooks \/ ListenerForwards
           \/ Announce \/ ReplayChunk
           \/ \E k \in 1..Len(atts) : ForwarderLags(k) \/ ForwardChunk(k) \/ ForwarderEnds(k)
BY DEF WatchNext, Listener, Forwarder

\* The creation that is handled was an event; the events after it are those that stay.
LEMMA Handled ==
    ASSUME WatchTyped, ListenerCreated \/ ListenerForwards
    PROVE  /\ Head(events) \in ToSet(events) /\ Head(events) = events[1] /\ Len(events) \in Nat \ {0}
           /\ ListenerCreated => "created" \in ToSet(events)
           /\ Len(events') = Len(events) - 1
           /\ \A i \in 1..Len(events') : i + 1 \in 1..Len(events) /\ events'[i] = events[i + 1]
<1>1. events \in Seq({"created", "deleted", "tags"}) /\ events # <<>> /\ events' = Tail(events)
  BY DEF WatchTyped, ListenerCreated, ListenerForwards
<1>2. Len(events) \in Nat \ {0} /\ Head(events) = events[1]
  BY <1>1
<1>3. Head(events) \in ToSet(events)
  BY <1>1, <1>2 DEF ToSet
<1>4. ListenerCreated => Head(events) = "created"
  BY DEF ListenerCreated
<1>5. /\ Len(events') = Len(events) - 1
      /\ \A i \in 1..Len(events') : i + 1 \in 1..Len(events) /\ events'[i] = events[i + 1]
  BY <1>1, <1>2
<1> QED
  BY <1>2, <1>3, <1>4, <1>5

\* A look at the registry attaches to the session there, or leaves everything.
LEMMA Attaching ==
    ASSUME WatchTyped, WatchSubscribe \/ ListenerCreated \/ ListenerLooks
    PROVE  \/ \E a \in Att : Attaches(a)
           \/ /\ UNCHANGED <<stream, seen, late, filtered, atts>>
              /\ watch' \in {"listen", "look"}
<1> USE DEF sessionVars
<1>1. ASSUME alive # 0
      PROVE  /\ Attachment \in Att /\ Attachment.inc = alive /\ Attachment.pos = 1
             /\ Attachment.upto = Len(stream[alive]) /\ Attachment.state = "announce"
  <2>1. alive \in 1..Len(stream)
    BY <1>1 DEF WatchTyped
  <2>2. Len(stream[alive]) \in Nat /\ alive \in Nat
    BY <2>1, Streams
  <2> QED
    BY <2>2 DEF Attachment, Att
<1>2. ASSUME WatchSubscribe
      PROVE  \/ \E a \in Att : Attaches(a)
             \/ UNCHANGED <<stream, seen, late, filtered, atts>> /\ watch' \in {"listen", "look"}
  <2>1. CASE Watched
    <3>1. alive # 0 /\ atts = <<>>
      BY <1>2, <2>1 DEF WatchSubscribe, Watched, WatchTyped
    <3>2. atts' = Append(atts, Attachment)
      BY <1>2, <2>1, <3>1 DEF WatchSubscribe
    <3> QED
      BY <1>1, <1>2, <2>1, <3>1, <3>2 DEF WatchSubscribe, Attaches
  <2>2. CASE ~Watched
    BY <1>2, <2>2 DEF WatchSubscribe
  <2> QED
    BY <2>1, <2>2
<1>3. ASSUME ListenerCreated
      PROVE  \/ \E a \in Att : Attaches(a)
             \/ UNCHANGED <<stream, seen, late, filtered, atts>> /\ watch' \in {"listen", "look"}
  <2>1. CASE filtered /\ Watched
    <3>1. "created" \in ToSet(events)
      BY <1>3, Handled
    <3> QED
      BY <1>1, <1>3, <2>1, <3>1 DEF ListenerCreated, Attaches, Watched
  <2>2. CASE ~(filtered /\ Watched)
    BY <1>3, <2>2 DEF ListenerCreated
  <2> QED
    BY <2>1, <2>2
<1>4. ASSUME ListenerLooks
      PROVE  \/ \E a \in Att : Attaches(a)
             \/ UNCHANGED <<stream, seen, late, filtered, atts>> /\ watch' \in {"listen", "look"}
  <2>1. CASE alive # 0
    <3> DEFINE a == [Attachment EXCEPT !.state = "replay"]
    <3>1. /\ a \in Att /\ a.inc = alive /\ a.pos = 1
          /\ a.upto = Len(stream[alive]) /\ a.state = "replay"
      BY <1>1, <2>1 DEF Att
    <3>2. atts' = Append(atts, a)
      BY <1>4, <2>1 DEF ListenerLooks
    <3> HIDE DEF a
    <3> QED
      BY <1>4, <2>1, <3>1, <3>2 DEF ListenerLooks, Attaches
  <2>2. CASE alive = 0
    BY <1>4, <2>2 DEF ListenerLooks
  <2> QED
    BY <2>1, <2>2
<1> QED
  BY <1>2, <1>3, <1>4

\* What the steps do to the attachments and to what is written.
LEMMA WatchSteps ==
    ASSUME WatchTyped, [WatchNext]_wVars
    PROVE  \/ WatchedCreate
           \/ \E match \in BOOLEAN : WatchedPublish(match)
           \/ StayPlaced /\ atts' \in Seq(Att)
           \/ \E a \in Att : Attaches(a)
           \/ \E k \in 1..Len(atts), i \in Nat : Writes(k, i)
           \/ \E k \in 1..Len(atts) : Starts(k)
<1> USE DEF sessionVars
<1>0. atts \in Seq(Att)
  BY DEF WatchTyped
<1>1. ASSUME UNCHANGED <<stream, seen, late, filtered, atts>>
      PROVE  StayPlaced /\ atts' \in Seq(Att)
  BY <1>0, <1>1 DEF StayPlaced
<1>2. ASSUME \/ WatchedDelete \/ WatchedTags \/ ListenerLags \/ ListenerForwards \/ UNCHANGED wVars
      PROVE  StayPlaced /\ atts' \in Seq(Att)
  BY <1>1, <1>2 DEF WatchedDelete, WatchedTags, ListenerLags, ListenerForwards, wVars
<1>3. ASSUME WatchSubscribe \/ ListenerCreated \/ ListenerLooks
      PROVE  (\E a \in Att : Attaches(a)) \/ (StayPlaced /\ atts' \in Seq(Att))
  BY <1>1, <1>3, Attaching
<1>4. ASSUME Announce
      PROVE  StayPlaced /\ atts' \in Seq(Att)
  <2>1. Len(atts) \in 1..Len(atts) /\ atts[Len(atts)].state = "announce"
    BY <1>4, LastAttachment DEF Announce, Newest
  <2>2. /\ atts' = [atts EXCEPT ![Len(atts)].state = "replay"]
        /\ UNCHANGED <<stream, seen, late, filtered>>
    BY <1>4 DEF Announce
  <2> QED
    BY <2>1, <2>2, StateChanges
<1>5. ASSUME ReplayChunk
      PROVE  (\E k \in 1..Len(atts), i \in Nat : Writes(k, i)) \/ (\E k \in 1..Len(atts) : Starts(k))
  <2> DEFINE k == Len(atts)
             a == atts[k]
             due == Due(a) \cap 1..a.upto
  <2>1. k \in 1..Len(atts) /\ a \in Att /\ Placed(a)
    BY <1>5, LastAttachment DEF ReplayChunk, Newest
  <2>2. a.upto \in Nat /\ a.state = "replay" /\ watch = "replay"
    BY <1>5, <2>1 DEF Att, ReplayChunk, Newest
  <2>3. Due(a) \subseteq Nat \ {0}
    BY <2>1, DueIs
  <2>4. CASE due # {}
    <3>1. First(due) \in due /\ \A j \in due : First(due) <= j
      BY <2>3, <2>4, FirstOf
    <3> DEFINE i == First(due)
    <3>2. i \in Due(a) /\ i <= a.upto /\ i \in Nat
      BY <2>2, <2>3, <3>1
    <3>3. ASSUME NEW j \in Due(a)
          PROVE  i <= j
      <4>1. j \in Nat /\ j >= 1 /\ a.upto \in Nat /\ i \in Nat /\ i <= a.upto
        BY <2>2, <2>3, <3>2
      <4>2. CASE j <= a.upto
        <5>1. j \in due
          BY <4>1, <4>2
        <5> QED
          BY <3>1, <5>1
      <4>3. CASE ~(j <= a.upto)
        <5> HIDE DEF i, a
        <5> QED
          BY <4>1, <4>3
      <4> QED
        BY <4>2, <4>3
    <3>4. /\ seen' = [seen EXCEPT ![a.inc] = Append(@, i)]
          /\ atts' = [atts EXCEPT ![k].pos = i + 1]
          /\ UNCHANGED <<stream, late, filtered, alive>>
      BY <1>5, <2>4 DEF ReplayChunk, Newest
    <3> HIDE DEF i
    <3> QED
      BY <2>1, <2>2, <3>2, <3>3, <3>4 DEF Writes
  <2>5. CASE due = {}
    <3>1. /\ atts' = [atts EXCEPT ![k].state = "live", ![k].pos = a.upto + 1]
          /\ watch' = "listen"
          /\ UNCHANGED <<stream, seen, late, filtered, alive>>
      BY <1>5, <2>5 DEF ReplayChunk, Newest, Receiver
    <3> QED
      BY <2>1, <2>2, <2>5, <3>1 DEF Starts
  <2> QED
    BY <2>4, <2>5
<1>6. ASSUME NEW k \in 1..Len(atts), ForwarderLags(k) \/ ForwarderEnds(k)
      PROVE  StayPlaced /\ atts' \in Seq(Att)
  BY <1>6, StateChanges DEF ForwarderLags, ForwarderEnds
<1>7. ASSUME NEW k \in 1..Len(atts), ForwardChunk(k)
       PROVE  (\E i \in Nat : Writes(k, i)) \/ (StayPlaced /\ atts' \in Seq(Att))
  <2>1. CASE watch = "closed"
    BY <1>7, <2>1, StateChanges DEF ForwardChunk
  <2>2. CASE watch # "closed"
    <3> DEFINE i == First(Due(atts[k]))
    <3>1. Due(atts[k]) \subseteq Nat
      BY DueIs
    <3>2. i \in Due(atts[k]) /\ \A j \in Due(atts[k]) : i <= j
      BY <1>7, <3>1, FirstOf DEF ForwardChunk
    <3>3. /\ seen' = [seen EXCEPT ![atts[k].inc] = Append(@, i)]
          /\ atts' = [atts EXCEPT ![k].pos = i + 1]
          /\ UNCHANGED <<stream, late, filtered, alive>> /\ atts[k].state = "live"
      BY <1>7, <2>2 DEF ForwardChunk
    <3> HIDE DEF i
    <3>4. i \in Nat /\ Writes(k, i)
      BY <3>1, <3>2, <3>3 DEF Writes
    <3> QED
      BY <3>4
  <2> QED
    BY <2>1, <2>2
<1>8. ASSUME WatchCloses
       PROVE  StayPlaced /\ atts' \in Seq(Att)
  <2> DEFINE Shut(a) == IF a.state \in {"announce", "replay"} THEN [a EXCEPT !.state = "ended"] ELSE a
  <2>1. DOMAIN atts = 1..Len(atts) /\ Len(atts) \in Nat /\ \A k \in 1..Len(atts) : atts[k] \in Att
    BY <1>0
  <2>2. atts' = [k \in 1..Len(atts) |-> Shut(atts[k])]
    BY <1>8, <2>1 DEF WatchCloses
  <2>3. ASSUME NEW a \in Att
        PROVE  /\ Shut(a) \in Att /\ Shut(a).inc = a.inc /\ Shut(a).pos = a.pos
               /\ Shut(a).upto = a.upto /\ Shut(a).state \notin {"announce", "replay"}
    BY DEF Att
  <2> HIDE DEF Shut
  <2>4. atts' \in Seq(Att) /\ Len(atts') = Len(atts)
    BY <2>1, <2>2, <2>3
  <2>5. \A k \in 1..Len(atts) : atts'[k] = Shut(atts[k])
    BY <2>2
  <2> QED
    BY <1>8, <2>1, <2>3, <2>4, <2>5 DEF WatchCloses, StayPlaced
<1> QED
  BY <1>2, <1>3, <1>4, <1>5, <1>6, <1>7, <1>8 DEF WatchNext, Listener, Forwarder

-----------------------------------------------------------------------------
(* Every step keeps the invariant. *)

\* What a step leaves of the streams.
LEMMA NextStreams ==
    ASSUME WatchTyped, [WatchNext]_wVars
    PROVE  /\ stream' \in Seq(Seq(BOOLEAN)) /\ Len(stream') \in Nat /\ Len(stream) \in Nat
           /\ Len(stream) <= Len(stream') /\ Len(stream') <= Len(stream) + 1
           /\ filtered' = filtered
           /\ late \subseteq late' /\ late' \subseteq 1..Len(stream')
           /\ \A n \in 1..Len(stream) : /\ n \in 1..Len(stream')
                                        /\ Len(stream[n]) <= Len(stream'[n])
                                        /\ \A i \in 1..Len(stream[n]) : stream'[n][i] = stream[n][i]
           /\ alive' \in 0..Len(stream')
<1>1. stream \in Seq(Seq(BOOLEAN)) /\ alive \in 0..Len(stream) /\ late \subseteq 1..Len(stream)
      /\ Len(stream) \in Nat
  BY DEF WatchTyped
<1>2. \A n \in 1..Len(stream) : stream[n] \in Seq(BOOLEAN) /\ Len(stream[n]) \in Nat
  BY <1>1
<1>3. CASE WatchedCreate
  <2>1. stream' = Append(stream, <<>>) /\ alive' = Len(stream) + 1 /\ filtered' = filtered
    BY <1>3 DEF WatchedCreate
  <2>2. late' = late \/ late' = late \cup {alive'}
    BY <1>3 DEF WatchedCreate
  <2>3. <<>> \in Seq(BOOLEAN)
    OBVIOUS
  <2>4. /\ stream' \in Seq(Seq(BOOLEAN)) /\ Len(stream') = Len(stream) + 1
        /\ \A n \in 1..Len(stream) : stream'[n] = stream[n]
    BY <1>1, <2>1, <2>3
  <2>5. late \subseteq late' /\ late' \subseteq late \cup {Len(stream')} /\ alive' = Len(stream')
    BY <2>1, <2>2, <2>4
  <2>6. Len(stream') \in Nat /\ 1..Len(stream) \subseteq 1..Len(stream')
        /\ Len(stream') \in 1..Len(stream') /\ Len(stream') \in 0..Len(stream')
    BY <1>1, <2>4
  <2>7. \A n \in 1..Len(stream) : Len(stream[n]) <= Len(stream'[n])
    <3> TAKE n \in 1..Len(stream)
    <3>1. stream'[n] = stream[n] /\ Len(stream[n]) \in Nat
      BY <1>2, <2>4
    <3> QED
      BY <3>1
  <2>8. late' \subseteq 1..Len(stream')
    BY <1>1, <2>5, <2>6, Zenon
  <2> QED
    BY <1>1, <2>1, <2>4, <2>5, <2>6, <2>7, <2>8
<1>4. ASSUME NEW match \in BOOLEAN, WatchedPublish(match)
      PROVE  /\ stream' \in Seq(Seq(BOOLEAN)) /\ Len(stream') = Len(stream)
             /\ filtered' = filtered /\ late' = late /\ alive' = alive
             /\ \A n \in 1..Len(stream) : /\ Len(stream[n]) <= Len(stream'[n])
                                          /\ \A i \in 1..Len(stream[n]) : stream'[n][i] = stream[n][i]
  <2> DEFINE q == Append(stream[alive], match)
  <2>1. stream' = [stream EXCEPT ![alive] = q] /\ alive \in 1..Len(stream)
        /\ filtered' = filtered /\ late' = late /\ alive' = alive
    BY <1>1, <1>4 DEF WatchedPublish
  <2>2. /\ q \in Seq(BOOLEAN) /\ Len(q) = Len(stream[alive]) + 1
        /\ \A i \in 1..Len(stream[alive]) : q[i] = stream[alive][i]
    BY <1>2, <2>1
  <2> HIDE DEF q
  <2>3. /\ stream' \in Seq(Seq(BOOLEAN)) /\ Len(stream') = Len(stream)
        /\ \A n \in 1..Len(stream) : stream'[n] = IF n = alive THEN q ELSE stream[n]
    BY <1>1, <2>1, <2>2
  <2> QED
    BY <1>2, <2>1, <2>2, <2>3
<1>5. ASSUME stream' = stream, late' = late, filtered' = filtered, alive' = alive \/ alive' = 0
      PROVE  /\ stream' \in Seq(Seq(BOOLEAN)) /\ Len(stream') = Len(stream)
             /\ \A n \in 1..Len(stream) : /\ Len(stream[n]) <= Len(stream'[n])
                                          /\ \A i \in 1..Len(stream[n]) : stream'[n][i] = stream[n][i]
  BY <1>1, <1>2, <1>5
<1>6. \/ WatchedCreate
      \/ \E match \in BOOLEAN : WatchedPublish(match)
      \/ stream' = stream /\ late' = late /\ filtered' = filtered /\ (alive' = alive \/ alive' = 0)
  BY DEF WatchNext, Listener, Forwarder, sessionVars, wVars, WatchedDelete, WatchedTags,
     WatchSubscribe, WatchCloses, ListenerLags, ListenerCreated, ListenerLooks, ListenerForwards,
     Announce, ReplayChunk, ForwarderLags, ForwardChunk, ForwarderEnds
<1>7. CASE ~WatchedCreate
  <2>1. /\ stream' \in Seq(Seq(BOOLEAN)) /\ Len(stream') = Len(stream)
        /\ filtered' = filtered /\ late' = late /\ (alive' = alive \/ alive' = 0)
        /\ \A n \in 1..Len(stream) : /\ Len(stream[n]) <= Len(stream'[n])
                                     /\ \A i \in 1..Len(stream[n]) : stream'[n][i] = stream[n][i]
    BY <1>4, <1>5, <1>6, <1>7
  <2> QED
    BY <1>1, <2>1
<1> QED
  BY <1>3, <1>7

\* What matches stays, and what is new is at the end.
LEMMA NextMatching ==
    ASSUME WatchTyped, [WatchNext]_wVars, NEW n \in 1..Len(stream)
    PROVE  /\ Matching(n) \subseteq Matching(n)' /\ Matching(n)' \subseteq Nat
           /\ \A i \in Matching(n)' : i \in Matching(n) \/ Len(stream[n]) < i
           /\ UNCHANGED stream => Matching(n)' = Matching(n)
<1>1. Len(stream[n]) \in Nat /\ n \in 1..Len(stream')
  BY Streams, NextStreams
<1>2. Len(stream'[n]) \in Nat
  BY <1>1, NextStreams
<1>3. /\ Len(stream[n]) <= Len(stream'[n]) /\ filtered' = filtered
      /\ \A i \in 1..Len(stream[n]) : stream'[n][i] = stream[n][i]
  BY NextStreams
<1> QED
  BY <1>1, <1>2, <1>3 DEF Matching

\* A chunk is written to the socket for one incarnation.
LEMMA SeenGrow ==
    ASSUME WatchTyped, NEW n \in 1..Len(stream), NEW i \in Nat,
           seen' = [seen EXCEPT ![n] = Append(@, i)]
    PROVE  /\ seen' \in Seq(Seq(Nat)) /\ Len(seen') = Len(seen)
           /\ seen'[n] = Append(seen[n], i)
           /\ \A m \in 1..Len(stream) : m # n => seen'[m] = seen[m]
<1>1. seen \in Seq(Seq(Nat)) /\ Len(seen) = Len(stream) /\ Append(seen[n], i) \in Seq(Nat)
  BY DEF WatchTyped
<1> QED
  BY <1>1

\* The attachment k gets other fields; the others stay.
LEMMA AttachmentMoves ==
    ASSUME WatchTyped, NEW k \in 1..Len(atts), NEW a \in Att, atts' = [atts EXCEPT ![k] = a]
    PROVE  /\ atts' \in Seq(Att) /\ Len(atts') = Len(atts) /\ Len(atts) \in Nat
           /\ atts'[k] = a /\ \A j \in 1..Len(atts) : j # k => atts'[j] = atts[j]
<1>1. atts \in Seq(Att)
  BY DEF WatchTyped
<1> QED
  BY <1>1

\* The position and the state of an attachment that writes, or starts its forwarder.
LEMMA WritesMove ==
    ASSUME WatchTyped, NEW k \in 1..Len(atts), NEW i \in Nat, Writes(k, i)
    PROVE  /\ atts' \in Seq(Att) /\ Len(atts') = Len(atts) /\ Len(atts) \in Nat
           /\ \A j \in 1..Len(atts) : /\ atts'[j].inc = atts[j].inc
                                      /\ atts'[j].upto = atts[j].upto
                                      /\ atts'[j].state = atts[j].state
                                      /\ j # k => atts'[j] = atts[j]
           /\ atts'[k].pos = i + 1
           /\ atts[k].inc \in 1..Len(stream)
           /\ i \in Matching(atts[k].inc) /\ i >= atts[k].pos
           /\ \A j \in Matching(atts[k].inc) : j <= atts[k].pos - 1 \/ i <= j
<1>1. atts[k] \in Att /\ Placed(atts[k])
  BY DEF WatchTyped
<1> DEFINE a == [atts[k] EXCEPT !.pos = i + 1]
<1>2. /\ a \in Att /\ a.inc = atts[k].inc /\ a.upto = atts[k].upto /\ a.state = atts[k].state
      /\ a.pos = i + 1
  BY <1>1 DEF Att
<1>3. atts' = [atts EXCEPT ![k] = a]
  BY DEF Writes
<1> HIDE DEF a
<1>4. atts' \in Seq(Att) /\ Len(atts') = Len(atts) /\ Len(atts) \in Nat
      /\ atts'[k] = a /\ \A j \in 1..Len(atts) : j # k => atts'[j] = atts[j]
  BY <1>2, <1>3, AttachmentMoves
<1>5. /\ Due(atts[k]) = {j \in Matching(atts[k].inc) : j >= atts[k].pos}
      /\ i \in Due(atts[k]) /\ \A j \in Due(atts[k]) : i <= j
  BY DueIs DEF Writes
<1>6. atts[k].inc \in 1..Len(stream) /\ atts[k].pos \in Nat
  BY <1>1 DEF Placed, PlacedIn, Att
<1>7. Matching(atts[k].inc) \subseteq Nat
  BY <1>6, Streams
<1> QED
  BY <1>2, <1>4, <1>5, <1>6, <1>7

\* A forwarder starts behind the replay.
LEMMA StartsMove ==
    ASSUME WatchTyped, NEW k \in 1..Len(atts), Starts(k)
    PROVE  /\ atts' \in Seq(Att) /\ Len(atts') = Len(atts) /\ Len(atts) \in Nat
           /\ \A j \in 1..Len(atts) : /\ atts'[j].inc = atts[j].inc
                                      /\ j # k => atts'[j] = atts[j]
           /\ atts'[k].pos = atts[k].upto + 1 /\ atts'[k].upto = atts[k].upto
           /\ atts'[k].state = "live"
           /\ atts[k].inc \in 1..Len(stream)
           /\ atts[k].upto \in Nat /\ atts[k].pos - 1 \in Nat /\ atts[k].pos - 1 <= atts[k].upto
           /\ \A j \in Matching(atts[k].inc) : j <= atts[k].pos - 1 \/ atts[k].upto < j
<1>1. atts[k] \in Att /\ Placed(atts[k])
  BY DEF WatchTyped
<1> DEFINE a == [atts[k] EXCEPT !.state = "live", !.pos = atts[k].upto + 1]
<1>2. /\ a \in Att /\ a.inc = atts[k].inc /\ a.upto = atts[k].upto /\ a.state = "live"
      /\ a.pos = atts[k].upto + 1
  <2>1. atts[k].upto + 1 \in Nat
    BY <1>1 DEF Att
  <2> DEFINE b == [atts[k] EXCEPT !.state = "live"]
  <2>2. b \in Att /\ b.inc = atts[k].inc /\ b.upto = atts[k].upto /\ b.state = "live"
    BY <1>1 DEF Att
  <2>3. a = [b EXCEPT !.pos = atts[k].upto + 1]
    OBVIOUS
  <2> HIDE DEF a, b
  <2> QED
    BY <2>1, <2>2, <2>3 DEF Att
<1>3. atts' = [atts EXCEPT ![k] = a]
  BY DEF Starts
<1> HIDE DEF a
<1>4. atts' \in Seq(Att) /\ Len(atts') = Len(atts) /\ Len(atts) \in Nat
      /\ atts'[k] = a /\ \A j \in 1..Len(atts) : j # k => atts'[j] = atts[j]
  BY <1>2, <1>3, AttachmentMoves
<1>5. /\ Due(atts[k]) = {j \in Matching(atts[k].inc) : j >= atts[k].pos}
      /\ Due(atts[k]) \cap 1..atts[k].upto = {}
  BY DueIs DEF Starts
<1>6. atts[k].inc \in 1..Len(stream) /\ atts[k].pos \in Nat \ {0} /\ atts[k].upto \in Nat
      /\ atts[k].pos <= atts[k].upto + 1
  <2>1. Len(stream[atts[k].inc]) \in Nat
    BY <1>1, Streams DEF Placed, PlacedIn
  <2> QED
    BY <1>1, <2>1 DEF Placed, PlacedIn, Att, Starts
<1>7. Matching(atts[k].inc) \subseteq Nat \ {0}
  BY <1>6, Streams
<1>8. ASSUME NEW j \in Matching(atts[k].inc), ~(j <= atts[k].pos - 1), ~(atts[k].upto < j)
      PROVE  FALSE
  <2>1. j \in Due(atts[k])
    BY <1>5, <1>6, <1>7, <1>8
  <2>2. j \in 1..atts[k].upto
    BY <1>6, <1>7, <1>8
  <2> QED
    BY <1>5, <2>1, <2>2
<1> QED
  BY <1>2, <1>4, <1>6, <1>8

\* The attachment that is made, after those there are.
LEMMA AttachesLast ==
    ASSUME WatchTyped, NEW a \in Att, Attaches(a)
    PROVE  /\ atts' \in Seq(Att) /\ Len(atts') = Len(atts) + 1 /\ Len(atts) \in Nat
           /\ atts'[Len(atts) + 1] = a /\ \A j \in 1..Len(atts) : atts'[j] = atts[j]
           /\ alive \in 1..Len(stream)
<1>1. atts \in Seq(Att) /\ atts' = Append(atts, a) /\ alive \in 0..Len(stream) /\ alive # 0
  BY DEF WatchTyped, Attaches
<1> QED
  BY <1>1

\* A place stays one when the streams grow.
LEMMA PlaceStays ==
    ASSUME WatchTyped, [WatchNext]_wVars, NEW a \in Att, Placed(a), NEW b \in Att,
           b.inc = a.inc, b.pos = a.pos, b.upto = a.upto,
           b.state \in {"announce", "replay"} => a.state \in {"announce", "replay"}
    PROVE  PlacedIn(b, stream')
<1>1. /\ a.inc \in 1..Len(stream) /\ a.pos \in 1..Len(stream[a.inc]) + 1
      /\ a.upto \in 0..Len(stream[a.inc]) /\ Len(stream[a.inc]) \in Nat
      /\ a.state \in {"announce", "replay"} => a.pos <= a.upto + 1
  BY Streams DEF Placed, PlacedIn
<1>2. a.inc \in 1..Len(stream') /\ Len(stream[a.inc]) <= Len(stream'[a.inc])
      /\ stream' \in Seq(Seq(BOOLEAN))
  BY <1>1, NextStreams
<1>3. Len(stream'[a.inc]) \in Nat
  BY <1>2
<1> QED
  BY <1>1, <1>2, <1>3, SMTT(60) DEF PlacedIn

\* Every step keeps attachments inside the streams of their incarnations.
LEMMA NextPlaced ==
    ASSUME WatchTyped, [WatchNext]_wVars
    PROVE  /\ atts' \in Seq(Att)
           /\ \A k \in 1..Len(atts') : PlacedIn(atts'[k], stream')
           /\ seen' \in Seq(Seq(Nat)) /\ Len(seen') = Len(stream')
<1>1. /\ atts \in Seq(Att) /\ seen \in Seq(Seq(Nat)) /\ Len(seen) = Len(stream)
      /\ Len(stream) \in Nat /\ Len(atts) \in Nat /\ stream \in Seq(Seq(BOOLEAN))
      /\ alive \in 0..Len(stream)
  BY DEF WatchTyped
<1>2. \A k \in 1..Len(atts) : atts[k] \in Att /\ Placed(atts[k])
  BY DEF WatchTyped
<1>3. \A k \in 1..Len(atts) : PlacedIn(atts[k], stream')
  BY <1>2, PlaceStays
<1>4. CASE WatchedCreate
  <2>1. stream' = Append(stream, <<>>) /\ seen' = Append(seen, <<>>) /\ atts' = atts
    BY <1>4 DEF WatchedCreate
  <2>2. <<>> \in Seq(Nat) /\ <<>> \in Seq(BOOLEAN)
    OBVIOUS
  <2>3. seen' \in Seq(Seq(Nat)) /\ Len(seen') = Len(stream')
    BY <1>1, <2>1, <2>2
  <2> QED
    BY <1>1, <1>3, <2>1, <2>3
<1>5. ASSUME NEW match \in BOOLEAN, WatchedPublish(match)
      PROVE  /\ atts' \in Seq(Att)
             /\ \A k \in 1..Len(atts') : PlacedIn(atts'[k], stream')
             /\ seen' \in Seq(Seq(Nat)) /\ Len(seen') = Len(stream')
  <2>1. atts' = atts /\ seen' = seen /\ Len(stream') = Len(stream)
    BY <1>1, <1>5 DEF WatchedPublish
  <2> QED
    BY <1>1, <1>3, <2>1
<1>6. CASE StayPlaced /\ atts' \in Seq(Att)
  <2>1. Len(atts') = Len(atts) /\ seen' = seen /\ stream' = stream
    BY <1>6 DEF StayPlaced
  <2>2. ASSUME NEW k \in 1..Len(atts')
        PROVE  PlacedIn(atts'[k], stream')
    <3>1. k \in 1..Len(atts) /\ atts'[k] \in Att
      BY <1>6, <2>1
    <3> QED
      BY <1>2, <1>6, <3>1, PlaceStays DEF StayPlaced
  <2> QED
    BY <1>1, <1>6, <2>1, <2>2
<1>7. ASSUME NEW a \in Att, Attaches(a)
      PROVE  /\ atts' \in Seq(Att)
             /\ \A k \in 1..Len(atts') : PlacedIn(atts'[k], stream')
             /\ seen' \in Seq(Seq(Nat)) /\ Len(seen') = Len(stream')
  <2>1. /\ atts' \in Seq(Att) /\ Len(atts') = Len(atts) + 1
        /\ atts'[Len(atts) + 1] = a /\ \A j \in 1..Len(atts) : atts'[j] = atts[j]
        /\ alive \in 1..Len(stream)
    BY <1>7, AttachesLast
  <2>2. /\ a.inc = alive /\ a.pos = 1 /\ a.upto = Len(stream[alive])
        /\ seen' = seen /\ stream' = stream
    BY <1>7 DEF Attaches
  <2>3. Len(stream[alive]) \in Nat
    BY <2>1, Streams
  <2>4. PlacedIn(a, stream')
    BY <2>1, <2>2, <2>3 DEF PlacedIn
  <2>5. \A k \in 1..Len(atts') : k \in 1..Len(atts) \/ k = Len(atts) + 1
    BY <1>1, <2>1
  <2> QED
    BY <1>1, <1>3, <2>1, <2>2, <2>4, <2>5
<1>8. ASSUME NEW k \in 1..Len(atts), NEW i \in Nat, Writes(k, i)
      PROVE  /\ atts' \in Seq(Att)
             /\ \A j \in 1..Len(atts') : PlacedIn(atts'[j], stream')
             /\ seen' \in Seq(Seq(Nat)) /\ Len(seen') = Len(stream')
  <2>1. /\ atts' \in Seq(Att) /\ Len(atts') = Len(atts)
        /\ \A j \in 1..Len(atts) : j # k => atts'[j] = atts[j]
        /\ atts'[k].inc = atts[k].inc /\ atts'[k].upto = atts[k].upto
        /\ atts'[k].state = atts[k].state /\ atts'[k].pos = i + 1
        /\ atts[k].inc \in 1..Len(stream) /\ i \in Matching(atts[k].inc)
    BY <1>8, WritesMove
  <2>2. /\ seen' = [seen EXCEPT ![atts[k].inc] = Append(@, i)] /\ stream' = stream
        /\ atts[k].state \in {"replay", "live"} /\ (atts[k].state = "replay" => i <= atts[k].upto)
    BY <1>8 DEF Writes
  <2>3. i \in 1..Len(stream[atts[k].inc]) /\ Len(stream[atts[k].inc]) \in Nat
    BY <2>1, Streams
  <2>4. PlacedIn(atts[k], stream) /\ atts[k].upto \in Nat
    BY <1>2 DEF Placed, PlacedIn, Att
  <2>5. PlacedIn(atts'[k], stream')
    BY <2>1, <2>2, <2>3, <2>4 DEF PlacedIn
  <2>6. seen' \in Seq(Seq(Nat)) /\ Len(seen') = Len(seen)
    BY <2>1, <2>2, SeenGrow
  <2>7. ASSUME NEW j \in 1..Len(atts')
        PROVE  PlacedIn(atts'[j], stream')
    BY <1>3, <2>1, <2>5
  <2> QED
    BY <1>1, <2>1, <2>2, <2>6, <2>7
<1>9. ASSUME NEW k \in 1..Len(atts), Starts(k)
      PROVE  /\ atts' \in Seq(Att)
             /\ \A j \in 1..Len(atts') : PlacedIn(atts'[j], stream')
             /\ seen' \in Seq(Seq(Nat)) /\ Len(seen') = Len(stream')
  <2>1. /\ atts' \in Seq(Att) /\ Len(atts') = Len(atts)
        /\ \A j \in 1..Len(atts) : j # k => atts'[j] = atts[j]
        /\ atts'[k].inc = atts[k].inc /\ atts'[k].upto = atts[k].upto
        /\ atts'[k].state = "live" /\ atts'[k].pos = atts[k].upto + 1
        /\ atts[k].inc \in 1..Len(stream) /\ atts[k].upto \in Nat
    BY <1>9, StartsMove
  <2>2. seen' = seen /\ stream' = stream
    BY <1>9 DEF Starts
  <2>3. Len(stream[atts[k].inc]) \in Nat
    BY <2>1, Streams
  <2>4. PlacedIn(atts[k], stream)
    BY <1>2 DEF Placed
  <2>5. PlacedIn(atts'[k], stream')
    BY <2>1, <2>2, <2>3, <2>4 DEF PlacedIn
  <2>6. ASSUME NEW j \in 1..Len(atts')
        PROVE  PlacedIn(atts'[j], stream')
    BY <1>3, <2>1, <2>5
  <2> QED
    BY <1>1, <2>1, <2>2, <2>6
<1> QED
  BY <1>4, <1>5, <1>6, <1>7, <1>8, <1>9, WatchSteps

\* Every step keeps the types of the listener and its channel.
LEMMA NextWatch ==
    ASSUME WatchTyped, [WatchNext]_wVars
    PROVE  /\ watch' \in {"out", "replay", "look", "listen", "ended", "closed"}
           /\ watch' = "out" => atts' = <<>>
           /\ watch' = "replay" => atts' # <<>> /\ atts'[Len(atts')].state \in {"announce", "replay"}
           /\ events' \in Seq({"created", "deleted", "tags"})
<1> DEFINE Good == /\ watch' \in {"out", "replay", "look", "listen", "ended", "closed"}
                   /\ watch' = "out" => atts' = <<>>
                   /\ watch' = "replay" =>
                         atts' # <<>> /\ atts'[Len(atts')].state \in {"announce", "replay"}
           Event == {"created", "deleted", "tags"}
<1>1. /\ watch \in {"out", "replay", "look", "listen", "ended", "closed"}
      /\ watch = "out" => atts = <<>>
      /\ watch = "replay" => atts # <<>> /\ atts[Len(atts)].state \in {"announce", "replay"}
      /\ events \in Seq(Event) /\ atts \in Seq(Att) /\ Len(atts) \in Nat
  BY DEF WatchTyped
<1>2. events' \in Seq(Event)
  <2>1. \A e \in Event : Append(events, e) \in Seq(Event)
    BY <1>1
  <2>2. <<>> \in Seq(Event) /\ (events # <<>> => Tail(events) \in Seq(Event))
    BY <1>1
  <2>3. \/ events' = events \/ events' = <<>>
        \/ events # <<>> /\ events' = Tail(events)
        \/ \E e \in Event : events' = Append(events, e)
    <3>0. ASSUME NEW e \in Event, Notify(e)
          PROVE  events' = events \/ events' = Append(events, e)
      BY <3>0 DEF Notify
    <3>1. ASSUME WatchedCreate \/ WatchedDelete \/ WatchedTags
          PROVE  events' = events \/ \E e \in Event : events' = Append(events, e)
      <4>1. Notify("created") \/ Notify("deleted") \/ Notify("tags")
        BY <3>1 DEF WatchedCreate, WatchedDelete, WatchedTags
      <4> QED
        BY <3>0, <4>1
    <3>2. ASSUME WatchSubscribe \/ WatchCloses \/ ListenerLags
          PROVE  events' = <<>>
      BY <3>2 DEF WatchSubscribe, EventsAfter, WatchCloses, ListenerLags
    <3>3. ASSUME ListenerCreated \/ ListenerForwards
          PROVE  events # <<>> /\ events' = Tail(events)
      BY <3>3 DEF ListenerCreated, ListenerForwards
    <3>4. ASSUME \/ \E match \in BOOLEAN : WatchedPublish(match)
                 \/ ListenerLooks \/ Announce \/ ReplayChunk
                 \/ \E k \in 1..Len(atts) : ForwarderLags(k) \/ ForwardChunk(k) \/ ForwarderEnds(k)
                 \/ UNCHANGED wVars
          PROVE  events' = events
      BY <3>4 DEF WatchedPublish, ListenerLooks, Announce, ReplayChunk, ForwarderLags,
         ForwardChunk, ForwarderEnds, wVars
    <3> HIDE DEF Event
    <3> QED
      BY <3>1, <3>2, <3>3, <3>4, WatchActions
  <2> QED
    BY <1>1, <2>1, <2>2, <2>3
<1>3. ASSUME UNCHANGED <<watch, atts>>
      PROVE  Good
  BY <1>1, <1>3
<1>4. ASSUME NEW a \in Att, Attaches(a)
      PROVE  Good
  <2>1. /\ Len(atts') = Len(atts) + 1 /\ atts'[Len(atts) + 1] = a /\ watch' = "replay"
        /\ a.state \in {"announce", "replay"} /\ atts' \in Seq(Att)
    BY <1>4, AttachesLast DEF Attaches
  <2> QED
    BY <1>1, <2>1
<1>5. ASSUME watch' \in {"listen", "look", "ended", "closed"}
      PROVE  Good
  BY <1>5
<1>6. ASSUME NEW k \in 1..Len(atts), ForwarderLags(k) \/ ForwarderEnds(k) \/ ForwardChunk(k)
      PROVE  Good
  <2>1. atts[k].state = "live" /\ watch' = watch
    BY <1>6 DEF ForwarderLags, ForwarderEnds, ForwardChunk
  <2>2. \E a : atts' = [atts EXCEPT ![k] = a]
    BY <1>6 DEF ForwarderLags, ForwarderEnds, ForwardChunk
  <2>3. Len(atts') = Len(atts) /\ \A j \in 1..Len(atts) : j # k => atts'[j] = atts[j]
    BY <1>1, <2>2
  <2>4. Len(atts) \in 1..Len(atts) /\ atts # <<>> /\ atts' # <<>> /\ watch # "out"
    BY <1>1, <2>3, NextPlaced
  <2> QED
    BY <1>1, <2>1, <2>3, <2>4
<1>7. ASSUME Announce
      PROVE  Good
  <2>1. /\ Len(atts) \in 1..Len(atts) /\ watch' = watch /\ watch = "replay"
        /\ atts' = [atts EXCEPT ![Len(atts)].state = "replay"]
    BY <1>7, LastAttachment DEF Announce
  <2>2. Len(atts') = Len(atts) /\ atts'[Len(atts)] = [atts[Len(atts)] EXCEPT !.state = "replay"]
        /\ atts[Len(atts)] \in Att
    BY <1>1, <2>1
  <2>3. atts'[Len(atts)].state = "replay"
    BY <2>2 DEF Att
  <2>4. atts' # <<>>
    BY <2>1, <2>2, NextPlaced
  <2> QED
    BY <2>1, <2>2, <2>3, <2>4
<1>8. ASSUME ReplayChunk
      PROVE  Good
  <2> DEFINE due == Due(Newest) \cap 1..Newest.upto
             k == Len(atts)
  <2>1. k \in 1..Len(atts) /\ watch = "replay" /\ Newest = atts[k]
    BY <1>8, LastAttachment DEF ReplayChunk, Newest
  <2>2. CASE due = {}
    BY <1>5, <1>8, <2>2 DEF ReplayChunk
  <2>3. CASE due # {}
    <3>1. watch' = watch /\ \E p : atts' = [atts EXCEPT ![k].pos = p]
      BY <1>8, <2>3 DEF ReplayChunk
    <3>2. PICK p : atts' = [atts EXCEPT ![k].pos = p]
      BY <3>1
    <3>3. Len(atts') = Len(atts) /\ atts'[k] = [atts[k] EXCEPT !.pos = p] /\ atts[k] \in Att
      BY <1>1, <2>1, <3>2
    <3>4. atts'[k].state = atts[k].state
      BY <3>3 DEF Att
    <3>5. atts' # <<>>
      BY <2>1, <3>3, NextPlaced
    <3> QED
      BY <1>1, <2>1, <3>1, <3>3, <3>4, <3>5
  <2> QED
    BY <2>2, <2>3
<1>9. \/ UNCHANGED <<watch, atts>>
      \/ watch' \in {"listen", "look", "ended", "closed"}
      \/ \E a \in Att : Attaches(a)
      \/ \E k \in 1..Len(atts) : ForwarderLags(k) \/ ForwarderEnds(k) \/ ForwardChunk(k)
      \/ Announce \/ ReplayChunk
  <2>1. CASE WatchSubscribe \/ ListenerCreated \/ ListenerLooks
    BY <2>1, Attaching
  <2>2. ASSUME \/ WatchedCreate \/ WatchedDelete \/ WatchedTags \/ ListenerForwards \/ UNCHANGED wVars
               \/ \E match \in BOOLEAN : WatchedPublish(match)
        PROVE  UNCHANGED <<watch, atts>>
    BY <2>2 DEF wVars, WatchedCreate, WatchedDelete, WatchedTags, WatchedPublish, ListenerForwards
  <2>3. ASSUME WatchCloses \/ ListenerLags
        PROVE  watch' \in {"listen", "look", "ended", "closed"}
    BY <2>3 DEF WatchCloses, ListenerLags
  <2> QED
    BY <2>1, <2>2, <2>3, WatchActions
<1> QED
  BY <1>2, <1>3, <1>4, <1>5, <1>6, <1>7, <1>8, <1>9

\* Every step keeps the types.
LEMMA NextTyped ==
    ASSUME WatchTyped, [WatchNext]_wVars
    PROVE  WatchTyped'
<1>1. \A k \in 1..Len(atts') : PlacedIn(atts'[k], stream')
  BY NextPlaced
<1>2. filtered \in BOOLEAN
  BY DEF WatchTyped
<1> QED
  BY <1>1, <1>2, NextStreams, NextPlaced, NextWatch DEF WatchTyped, Placed

\* What is written of an incarnation stays what matches before position p.
LEMMA StaysWritten ==
    ASSUME WatchTyped, [WatchNext]_wVars, NEW k \in 1..Len(atts), NEW n, n = atts[k].inc,
           Written(seen[n], Matching(n), atts[k].pos - 1), seen'[n] = seen[n]
    PROVE  Written(seen'[n], Matching(n)', atts[k].pos - 1)
<1>1. atts[k] \in Att /\ PlacedIn(atts[k], stream)
  BY DEF WatchTyped, Placed
<1>2. n \in 1..Len(stream)
  BY <1>1 DEF PlacedIn
<1>3. seen[n] \in Seq(Nat) /\ Len(stream[n]) \in Nat
  BY <1>2, Streams
<1>4. atts[k].pos - 1 \in Nat /\ atts[k].pos - 1 <= Len(stream[n])
  BY <1>1, <1>3 DEF PlacedIn, Att
<1>5. /\ Matching(n) \subseteq Matching(n)' /\ Matching(n)' \subseteq Nat
      /\ \A i \in Matching(n)' : i \in Matching(n) \/ Len(stream[n]) < i
  BY <1>2, NextMatching
<1> DEFINE p == atts[k].pos - 1
           M == Matching(n)
           L == Matching(n)'
<1>6. \A i \in L : i \in M \/ p < i
  BY <1>3, <1>4, <1>5
<1>7. p \in Nat /\ M \subseteq L /\ L \subseteq Nat /\ Written(seen[n], M, p)
  BY <1>4, <1>5
<1> HIDE DEF p, M, L
<1>8. Written(seen[n], L, p)
  BY <1>3, <1>6, <1>7, WrittenGrows
<1> QED
  BY <1>8 DEF p, L

\* The listener attaches to an incarnation whose creation it has not handled.
LEMMA AttachesNew ==
    ASSUME WatchInv, NEW a \in Att, Attaches(a), alive \notin late
    PROVE  ~AttachedTo(alive)
<1>1. CASE atts = <<>>
  BY <1>1 DEF AttachedTo
<1>2. CASE watch = "look" \/ "created" \in ToSet(events)
  BY <1>2 DEF WatchInv, AnnouncedOnce, Attaches
<1> QED
  BY <1>1, <1>2 DEF Attaches

\* Every step leaves one attachment per incarnation, the late ones aside.
LEMMA NextAttachedOnce ==
    ASSUME WatchInv, [WatchNext]_wVars
    PROVE  AttachedOnce'
<1>1. WatchTyped /\ late \subseteq late'
  BY NextStreams DEF WatchInv
<1>2. \A k, j \in 1..Len(atts) : atts[k].inc = atts[j].inc /\ atts[k].inc \notin late => k = j
  BY DEF WatchInv, AttachedOnce
<1>3. ASSUME Len(atts') = Len(atts), \A k \in 1..Len(atts) : atts'[k].inc = atts[k].inc
      PROVE  AttachedOnce'
  BY <1>1, <1>2, <1>3 DEF AttachedOnce
<1>4. ASSUME NEW a \in Att, Attaches(a)
      PROVE  AttachedOnce'
  <2>1. /\ Len(atts') = Len(atts) + 1 /\ Len(atts) \in Nat
        /\ atts'[Len(atts) + 1] = a /\ \A j \in 1..Len(atts) : atts'[j] = atts[j]
    BY <1>1, <1>4, AttachesLast
  <2>2. a.inc = alive /\ late' = late
    BY <1>4 DEF Attaches
  <2>3. a.inc \notin late => \A j \in 1..Len(atts) : atts[j].inc # a.inc
    BY <1>4, <2>2, AttachesNew DEF AttachedTo
  <2>4. \A k \in 1..Len(atts') : k \in 1..Len(atts) \/ k = Len(atts) + 1
    BY <2>1
  <2> QED
    BY <1>2, <2>1, <2>2, <2>3, <2>4 DEF AttachedOnce
<1>5. CASE WatchedCreate \/ \E match \in BOOLEAN : WatchedPublish(match)
  BY <1>3, <1>5 DEF WatchedCreate, WatchedPublish
<1>6. CASE StayPlaced
  BY <1>3, <1>6 DEF StayPlaced
<1>7. ASSUME NEW k \in 1..Len(atts), (\E i \in Nat : Writes(k, i)) \/ Starts(k)
      PROVE  AttachedOnce'
  BY <1>1, <1>3, <1>7, WritesMove, StartsMove
<1> QED
  BY <1>1, <1>4, <1>5, <1>6, <1>7, WatchSteps

\* Every step keeps what was written the matching chunks up to a place.
LEMMA NextAllWritten ==
    ASSUME WatchInv, [WatchNext]_wVars
    PROVE  AllWritten'
<1>1. WatchTyped /\ late \subseteq late' /\ atts' \in Seq(Att)
      /\ atts \in Seq(Att) /\ Len(atts) \in Nat /\ Len(stream) \in Nat
  BY NextStreams, NextPlaced, SMTT(60) DEF WatchInv, WatchTyped
<1>2. /\ \A k \in 1..Len(atts) : atts[k].inc \notin late =>
            Written(seen[atts[k].inc], Matching(atts[k].inc), atts[k].pos - 1)
      /\ \A n \in 1..Len(stream) \ late : ~AttachedTo(n) => seen[n] = <<>>
  BY DEF WatchInv, AllWritten
<1>3. \A k \in 1..Len(atts) : atts[k].inc \in 1..Len(stream)
  BY <1>1 DEF WatchTyped, Placed, PlacedIn
\* The goal, one attachment and one incarnation at a time.
<1> DEFINE Follows(k, n) == n = atts'[k].inc /\ n \notin late' =>
                                Written(seen'[n], Matching(n)', atts'[k].pos - 1)
           Silent(n) == n \notin late' /\ (\A k \in 1..Len(atts') : atts'[k].inc # n) =>
                            seen'[n] = <<>>
<1>4. ASSUME \A k \in 1..Len(atts'), n \in 1..Len(stream') : Follows(k, n),
             \A n \in 1..Len(stream') : Silent(n)
      PROVE  AllWritten'
  <2>1. ASSUME NEW k \in 1..Len(atts'), atts'[k].inc \notin late'
        PROVE  Written(seen'[atts'[k].inc], Matching(atts[k].inc)', atts'[k].pos - 1)
    <3>1. PlacedIn(atts'[k], stream')
      BY <1>1, NextPlaced
    <3>2. PICK n \in 1..Len(stream') : n = atts'[k].inc
      BY <3>1 DEF PlacedIn
    <3>3. Written(seen'[n], Matching(n)', atts'[k].pos - 1)
      BY <1>4, <2>1, <3>2
    <3>4. Matching(n)' = Matching(atts[k].inc)'
      BY <3>2 DEF Matching
    <3> QED
      BY <3>2, <3>3, <3>4
  <2>2. ASSUME NEW n \in 1..Len(stream') \ late', ~AttachedTo(n)'
        PROVE  seen'[n] = <<>>
    BY <1>4, <2>2 DEF AttachedTo
  <2> QED
    BY <2>1, <2>2 DEF AllWritten
\* An attachment that stays, and whose incarnation is not written to.
<1>5. ASSUME NEW k \in 1..Len(atts), NEW n, atts'[k].inc = atts[k].inc, atts'[k].pos = atts[k].pos,
             n = atts[k].inc => seen'[n] = seen[n]
      PROVE  Follows(k, n)
  <2>1. SUFFICES ASSUME n = atts'[k].inc, n \notin late'
                 PROVE  Written(seen'[n], Matching(n)', atts'[k].pos - 1)
    OBVIOUS
  <2>2. n = atts[k].inc /\ n \notin late
    BY <1>1, <1>5, <2>1
  <2>3. Written(seen[n], Matching(n), atts[k].pos - 1)
    BY <1>2, <2>2
  <2>4. Written(seen'[n], Matching(n)', atts[k].pos - 1)
    BY <1>1, <1>5, <2>2, <2>3, StaysWritten
  <2> QED
    BY <1>5, <2>4
\* An incarnation that is not attached to, and not written to.
<1>6. ASSUME NEW n \in 1..Len(stream), seen'[n] = seen[n],
             \A k \in 1..Len(atts) : k \in 1..Len(atts') /\ atts'[k].inc = atts[k].inc
      PROVE  Silent(n)
  BY <1>1, <1>2, <1>6 DEF AttachedTo
<1> HIDE DEF Follows, Silent
<1>7. CASE WatchedCreate
  <2>1. stream' = Append(stream, <<>>) /\ seen' = Append(seen, <<>>) /\ atts' = atts
    BY <1>7 DEF WatchedCreate
  <2>2. seen \in Seq(Seq(Nat)) /\ stream \in Seq(Seq(BOOLEAN)) /\ Len(seen) = Len(stream)
    BY <1>1 DEF WatchTyped
  <2>3. /\ \A n \in 1..Len(stream) : seen'[n] = seen[n]
        /\ seen'[Len(stream) + 1] = <<>> /\ Len(stream') = Len(stream) + 1
    BY <2>1, <2>2
  <2>4. \A n \in 1..Len(stream') : n \in 1..Len(stream) \/ n = Len(stream) + 1
    BY <1>1, <2>3
  <2>5. \A k \in 1..Len(atts'), n \in 1..Len(stream') : Follows(k, n)
    BY <1>3, <1>5, <2>1, <2>3
  <2>6. \A n \in 1..Len(stream) : Silent(n)
    BY <1>6, <2>1, <2>3
  <2>7. Silent(Len(stream) + 1)
    BY <2>3 DEF Silent
  <2> QED
    BY <1>4, <2>4, <2>5, <2>6, <2>7
<1>8. ASSUME NEW match \in BOOLEAN, WatchedPublish(match)
      PROVE  AllWritten'
  <2>1. atts' = atts /\ seen' = seen /\ Len(stream') = Len(stream)
    <3>1. stream \in Seq(Seq(BOOLEAN))
      BY <1>1 DEF WatchTyped
    <3> QED
      BY <1>8, <3>1 DEF WatchedPublish
  <2> QED
    BY <1>4, <1>5, <1>6, <2>1
<1>9. CASE StayPlaced
  BY <1>4, <1>5, <1>6, <1>9 DEF StayPlaced
<1>10. ASSUME NEW a \in Att, Attaches(a)
       PROVE  AllWritten'
  <2>1. /\ Len(atts') = Len(atts) + 1 /\ atts'[Len(atts) + 1] = a
        /\ \A j \in 1..Len(atts) : atts'[j] = atts[j]
        /\ alive \in 1..Len(stream)
    BY <1>1, <1>10, AttachesLast
  <2>2. a.inc = alive /\ a.pos = 1 /\ UNCHANGED <<stream, seen, late>>
    BY <1>10 DEF Attaches
  <2>3. \A k \in 1..Len(atts') : k \in 1..Len(atts) \/ k = Len(atts) + 1
    BY <1>1, <2>1
  <2>4. \A k \in 1..Len(atts), n \in 1..Len(stream') : Follows(k, n)
    BY <1>5, <2>1, <2>2
  <2>5. \A n \in 1..Len(stream') : Silent(n)
    <3>1. \A k \in 1..Len(atts) : k \in 1..Len(atts')
      BY <1>1, <2>1
    <3> QED
      BY <1>6, <2>1, <2>2, <3>1
  <2>6. ASSUME NEW n \in 1..Len(stream'), n = alive, n \notin late'
        PROVE  Written(seen'[n], Matching(n)', 0)
    <3>1. n \in 1..Len(stream) /\ ~AttachedTo(n) /\ n \notin late
      BY <1>10, <2>2, <2>6, AttachesNew
    <3>2. seen'[n] = <<>>
      BY <1>2, <2>2, <3>1
    <3>3. Matching(n)' \subseteq Nat \ {0}
      <4>1. Matching(n) \subseteq Nat \ {0} /\ Matching(n)' = Matching(n)
        BY <1>1, <2>2, <3>1, Streams, NextMatching
      <4> QED
        BY <4>1
    <3>4. Len(<<>>) = 0 /\ \A i \in Matching(n)' : ~(i <= 0)
      BY <3>3
    <3> QED
      BY <3>2, <3>4 DEF Written
  <2>7. \A n \in 1..Len(stream') : Follows(Len(atts) + 1, n)
    BY <2>1, <2>2, <2>6 DEF Follows
  <2> QED
    BY <1>4, <2>3, <2>4, <2>5, <2>7
<1>11. ASSUME NEW k \in 1..Len(atts), NEW i \in Nat, Writes(k, i)
       PROVE  AllWritten'
  <2> DEFINE m == atts[k].inc
  <2>1. /\ Len(atts') = Len(atts)
        /\ \A j \in 1..Len(atts) : atts'[j].inc = atts[j].inc /\ (j # k => atts'[j] = atts[j])
        /\ atts'[k].pos = i + 1 /\ m \in 1..Len(stream)
        /\ i \in Matching(m) /\ i >= atts[k].pos
        /\ \A j \in Matching(m) : j <= atts[k].pos - 1 \/ i <= j
    BY <1>1, <1>11, WritesMove
  <2>2. seen' = [seen EXCEPT ![m] = Append(@, i)] /\ UNCHANGED <<stream, late>>
    BY <1>11 DEF Writes
  <2>3. seen'[m] = Append(seen[m], i) /\ \A n \in 1..Len(stream) : n # m => seen'[n] = seen[n]
    BY <1>1, <2>1, <2>2, SeenGrow
  <2>4. ASSUME m \notin late
        PROVE  Written(seen'[m], Matching(m), i)
    <3>1. seen[m] \in Seq(Nat) /\ Matching(m) \subseteq Nat
      BY <1>1, <2>1, Streams
    <3>2. atts[k].pos - 1 \in Nat /\ i > atts[k].pos - 1
      <4>1. atts[k] \in Att /\ PlacedIn(atts[k], stream)
        BY <1>1 DEF WatchTyped, Placed
      <4> QED
        BY <2>1, <4>1 DEF Att, PlacedIn
    <3>3. Written(seen[m], Matching(m), atts[k].pos - 1)
      BY <1>2, <2>4
    <3> HIDE DEF m
    <3>4. Written(Append(seen[m], i), Matching(m), i)
      BY <2>1, <3>1, <3>2, <3>3, WrittenMore
    <3> QED
      BY <2>3, <3>4
  <2>5. ASSUME NEW n \in 1..Len(stream')
        PROVE  Follows(k, n)
    <3>1. SUFFICES ASSUME n = atts'[k].inc, n \notin late'
                   PROVE  Written(seen'[n], Matching(n)', atts'[k].pos - 1)
      BY DEF Follows
    <3>2. n = m /\ n \notin late /\ n \in 1..Len(stream)
      BY <2>1, <2>2, <3>1
    <3>3. Matching(n)' = Matching(n) /\ atts'[k].pos - 1 = i
      BY <1>1, <2>1, <2>2, <3>2, NextMatching
    <3> HIDE DEF m
    <3> QED
      BY <2>4, <3>2, <3>3
  <2>6. ASSUME NEW j \in 1..Len(atts), j # k, NEW n \in 1..Len(stream')
        PROVE  Follows(j, n)
    <3>1. CASE n = m /\ n \notin late' /\ n = atts'[j].inc
      <4>1. atts[j].inc = atts[k].inc /\ atts[j].inc \notin late
        BY <2>1, <2>2, <3>1
      <4> QED
        BY <2>6, <4>1 DEF WatchInv, AttachedOnce
    <3>2. CASE n # m
      BY <1>5, <2>1, <2>2, <2>3, <2>6, <3>2
    <3> QED
      BY <3>1, <3>2 DEF Follows
  <2>7. ASSUME NEW n \in 1..Len(stream')
        PROVE  Silent(n)
    <3>1. CASE n = m
      BY <2>1, <3>1 DEF Silent
    <3>2. CASE n # m
      BY <1>6, <2>1, <2>2, <2>3, <3>2
    <3> QED
      BY <3>1, <3>2
  <2> QED
    BY <1>4, <2>1, <2>5, <2>6, <2>7
<1>12. ASSUME NEW k \in 1..Len(atts), Starts(k)
       PROVE  AllWritten'
  <2>1. /\ Len(atts') = Len(atts)
        /\ \A j \in 1..Len(atts) : atts'[j].inc = atts[j].inc /\ (j # k => atts'[j] = atts[j])
        /\ atts'[k].pos = atts[k].upto + 1
        /\ atts[k].inc \in 1..Len(stream)
        /\ atts[k].upto \in Nat /\ atts[k].pos - 1 \in Nat /\ atts[k].pos - 1 <= atts[k].upto
        /\ \A j \in Matching(atts[k].inc) : j <= atts[k].pos - 1 \/ atts[k].upto < j
    BY <1>1, <1>12, StartsMove
  <2>2. UNCHANGED <<stream, seen, late>>
    BY <1>12 DEF Starts
  <2>3. ASSUME NEW n \in 1..Len(stream')
        PROVE  Follows(k, n)
    <3>1. SUFFICES ASSUME n = atts'[k].inc, n \notin late'
                   PROVE  Written(seen'[n], Matching(n)', atts'[k].pos - 1)
      BY DEF Follows
    <3>2. n = atts[k].inc /\ n \notin late /\ n \in 1..Len(stream)
      BY <2>1, <2>2, <3>1
    <3>3. Written(seen[n], Matching(n), atts[k].pos - 1)
      BY <1>2, <3>2
    <3>4. seen[n] \in Seq(Nat) /\ Matching(n) \subseteq Nat /\ Matching(n)' = Matching(n)
      BY <1>1, <2>2, <3>2, Streams, NextMatching
    <3>5. Written(seen[n], Matching(n), atts[k].upto)
      BY <2>1, <3>2, <3>3, <3>4, WrittenUpTo
    <3>6. atts'[k].pos - 1 = atts[k].upto
      BY <2>1
    <3> QED
      BY <2>2, <3>4, <3>5, <3>6
  <2>4. \A j \in 1..Len(atts), n \in 1..Len(stream') : j # k => Follows(j, n)
    BY <1>5, <2>1, <2>2
  <2>5. \A n \in 1..Len(stream') : Silent(n)
    BY <1>6, <2>1, <2>2
  <2> QED
    BY <1>4, <2>1, <2>3, <2>4, <2>5
<1> QED
  BY <1>1, <1>7, <1>8, <1>9, <1>10, <1>11, <1>12, WatchSteps

\* The events in the channel.
LEMMA EventsOf ==
    ASSUME WatchTyped
    PROVE  \A e : e \in ToSet(events) <=> \E i \in 1..Len(events) : events[i] = e
<1>1. events \in Seq({"created", "deleted", "tags"})
  BY DEF WatchTyped
<1> QED
  BY <1>1 DEF ToSet

\* The same after a step.
LEMMA NextEventsOf ==
    ASSUME WatchTyped, [WatchNext]_wVars
    PROVE  \A e : e \in ToSet(events') <=> \E i \in 1..Len(events') : events'[i] = e
BY NextWatch DEF ToSet

\* A step that makes no attachment leaves what is attached to.
LEMMA SameAttached ==
    ASSUME WatchTyped, [WatchNext]_wVars,
           \/ Announce \/ ReplayChunk \/ UNCHANGED wVars
           \/ \E k \in 1..Len(atts) : ForwarderLags(k) \/ ForwardChunk(k) \/ ForwarderEnds(k)
    PROVE  \A n : AttachedTo(n)' => AttachedTo(n)
<1>1. atts \in Seq(Att) /\ Len(atts) \in Nat
  BY DEF WatchTyped
<1>2. Len(atts') = Len(atts)
  <2>1. ASSUME NEW k \in 1..Len(atts), NEW a, atts' = [atts EXCEPT ![k] = a]
        PROVE  Len(atts') = Len(atts)
    BY <1>1, <2>1
  <2>2. CASE Announce
    BY <2>1, <2>2, LastAttachment DEF Announce
  <2>3. CASE ReplayChunk
    <3>1. Len(atts) \in 1..Len(atts)
      BY <2>3, LastAttachment DEF ReplayChunk
    <3> DEFINE due == Due(Newest) \cap 1..Newest.upto
    <3>2. CASE due = {}
      <4>1. atts' = [atts EXCEPT ![Len(atts)].state = "live", ![Len(atts)].pos = Receiver(Newest)]
        BY <2>3, <3>2 DEF ReplayChunk
      <4> QED
        BY <1>1, <3>1, <4>1
    <3>3. CASE due # {}
      <4>1. \E p : atts' = [atts EXCEPT ![Len(atts)].pos = p]
        BY <2>3, <3>3 DEF ReplayChunk
      <4> QED
        BY <1>1, <3>1, <4>1
    <3> QED
      BY <3>2, <3>3
  <2>4. CASE UNCHANGED wVars
    BY <2>4 DEF wVars
  <2>5. ASSUME NEW k \in 1..Len(atts), ForwarderLags(k) \/ ForwardChunk(k) \/ ForwarderEnds(k)
        PROVE  Len(atts') = Len(atts)
    <3>1. \E a : atts' = [atts EXCEPT ![k] = a]
      BY <2>5 DEF ForwarderLags, ForwardChunk, ForwarderEnds
    <3> QED
      BY <2>1, <3>1
  <2> QED
    BY <2>2, <2>3, <2>4, <2>5
<1>3. \A k \in 1..Len(atts) : atts'[k].inc = atts[k].inc
  <2>1. CASE WatchedCreate \/ \E match \in BOOLEAN : WatchedPublish(match)
    BY <2>1 DEF WatchedCreate, WatchedPublish
  <2>2. CASE StayPlaced
    BY <2>2 DEF StayPlaced
  <2>3. ASSUME NEW a \in Att, Attaches(a)
        PROVE  FALSE
    BY <1>1, <1>2, <2>3, AttachesLast
  <2>4. ASSUME NEW k \in 1..Len(atts), (\E i \in Nat : Writes(k, i)) \/ Starts(k)
        PROVE  \A j \in 1..Len(atts) : atts'[j].inc = atts[j].inc
    BY <2>4, WritesMove, StartsMove
  <2> QED
    BY <2>1, <2>2, <2>3, <2>4, WatchSteps
<1> QED
  BY <1>2, <1>3 DEF AttachedTo

\* Every step leaves at most one creation in the channel, and none once it is attached to.
LEMMA NextAnnouncedOnce ==
    ASSUME WatchInv, [WatchNext]_wVars
    PROVE  AnnouncedOnce'
<1> DEFINE C == "created"
           Once(q) == \A i, j \in 1..Len(q) : q[i] = C /\ q[j] = C => i = j
<1>1. WatchTyped /\ events \in Seq({"created", "deleted", "tags"}) /\ Len(events) \in Nat
  BY DEF WatchInv, WatchTyped
<1>2. alive # 0 /\ alive \notin late =>
        /\ Once(events)
        /\ watch = "look" => C \notin ToSet(events)
        /\ AttachedTo(alive) => C \notin ToSet(events) /\ watch # "look"
  BY DEF WatchInv, AnnouncedOnce
<1>3. /\ \A e : e \in ToSet(events) <=> \E i \in 1..Len(events) : events[i] = e
      /\ \A e : e \in ToSet(events') <=> \E i \in 1..Len(events') : events'[i] = e
  BY <1>1, EventsOf, NextEventsOf
<1>4. SUFFICES ASSUME alive' # 0, alive' \notin late'
               PROVE  AnnouncedOnce'
  BY DEF AnnouncedOnce
\* No creation is pending after the step, and none is being looked up but the registry's own.
<1>5. ASSUME C \notin ToSet(events'), watch' = "look" => ~AttachedTo(alive)'
      PROVE  AnnouncedOnce'
  BY <1>3, <1>5 DEF AnnouncedOnce
\* Nothing that matters changes.
<1>6. ASSUME alive' = alive, late' = late, watch' = "look" => watch = "look",
             AttachedTo(alive)' => AttachedTo(alive),
             Once(events) => Once(events'), C \in ToSet(events') => C \in ToSet(events)
      PROVE  AnnouncedOnce'
  BY <1>2, <1>4, <1>6 DEF AnnouncedOnce
<1>7. CASE WatchedCreate
  <2>1. C \notin ToSet(events) /\ watch # "look" /\ watch' = watch /\ atts' = atts
        /\ alive' = Len(stream) + 1
    BY <1>4, <1>7 DEF WatchedCreate
  <2>2. events' = events \/ events' = Append(events, C)
    BY <1>7 DEF WatchedCreate, Notify
  <2>3. Once(events')
    <3>1. \A i \in 1..Len(events) : events[i] # C
      BY <1>3, <2>1
    <3>2. CASE events' = events
      BY <3>1, <3>2
    <3>3. CASE events' = Append(events, C)
      <4>1. /\ Len(events') = Len(events) + 1
            /\ \A i \in 1..Len(events) : events'[i] = events[i]
        BY <1>1, <3>3
      <4>2. \A i \in 1..Len(events') : events'[i] = C => i = Len(events) + 1
        BY <1>1, <3>1, <4>1
      <4> QED
        BY <4>2
    <3> QED
      BY <2>2, <3>2, <3>3
  <2>4. ~AttachedTo(alive)'
    <3>1. \A k \in 1..Len(atts) : atts[k].inc \in 1..Len(stream)
      BY <1>1 DEF WatchTyped, Placed, PlacedIn
    <3>2. Len(stream) \in Nat
      BY <1>1 DEF WatchTyped
    <3> QED
      BY <2>1, <3>1, <3>2 DEF AttachedTo
  <2> QED
    BY <2>1, <2>3, <2>4 DEF AnnouncedOnce
<1>8. CASE WatchedDelete
  BY <1>4, <1>8 DEF WatchedDelete
<1>9. CASE WatchedTags
  <2>1. UNCHANGED <<alive, late, watch, atts>>
    BY <1>9 DEF WatchedTags
  <2>2. events' = events \/ events' = Append(events, "tags")
    BY <1>9 DEF WatchedTags, Notify
  <2>3. CASE events' = events
    BY <1>6, <2>1, <2>3 DEF AttachedTo
  <2>4. CASE events' = Append(events, "tags")
    <3>1. /\ Len(events') = Len(events) + 1 /\ events'[Len(events) + 1] = "tags"
          /\ \A i \in 1..Len(events) : events'[i] = events[i]
      BY <1>1, <2>4
    <3>2. \A i \in 1..Len(events') : events'[i] = C => i \in 1..Len(events) /\ events[i] = C
      BY <1>1, <3>1
    <3>3. Once(events) => Once(events')
      BY <3>2
    <3>4. C \in ToSet(events') => C \in ToSet(events)
      BY <1>3, <3>2
    <3> HIDE DEF Once
    <3> QED
      BY <1>6, <2>1, <3>3, <3>4 DEF AttachedTo
  <2> QED
    BY <2>2, <2>3, <2>4
<1>10. ASSUME NEW match \in BOOLEAN, WatchedPublish(match)
       PROVE  AnnouncedOnce'
  BY <1>6, <1>10 DEF WatchedPublish, AttachedTo
<1>11. CASE WatchSubscribe \/ WatchCloses \/ ListenerLags
  <2>1. events' = <<>> /\ watch' # "look"
    BY <1>11 DEF WatchSubscribe, EventsAfter, WatchCloses, ListenerLags
  <2> QED
    BY <1>3, <1>5, <2>1
<1>12. CASE ListenerCreated
  <2>1. alive' = alive /\ late' = late /\ watch = "listen" /\ events[1] = C
    BY <1>1, <1>12, Handled DEF ListenerCreated, sessionVars
  <2>2. C \notin ToSet(events')
    <3>1. Once(events)
      BY <1>2, <1>4, <2>1
    <3>2. \A i \in 1..Len(events') : i + 1 \in 1..Len(events) /\ events'[i] = events[i + 1]
      BY <1>1, <1>12, Handled
    <3>3. \A i \in 1..Len(events') : i + 1 # 1 /\ 1 \in 1..Len(events)
      BY <3>2
    <3>4. \A i \in 1..Len(events') : events'[i] # C
      BY <2>1, <3>1, <3>2, <3>3
    <3> QED
      BY <1>3, <3>4
  <2>3. watch' = "look" => ~AttachedTo(alive)'
    <3>1. C \in ToSet(events)
      BY <1>1, <1>12, Handled
    <3>2. ~AttachedTo(alive)
      BY <1>2, <1>4, <2>1, <3>1
    <3>3. watch' = "look" => atts' = atts
      BY <1>12 DEF ListenerCreated
    <3> QED
      BY <2>1, <3>2, <3>3 DEF AttachedTo
  <2> QED
    BY <1>5, <2>2, <2>3
<1>13. CASE ListenerLooks
  <2>1. alive' = alive /\ late' = late /\ watch = "look" /\ events' = events /\ watch' # "look"
    BY <1>13 DEF ListenerLooks, sessionVars
  <2> QED
    BY <1>2, <1>4, <1>5, <2>1
<1>14. CASE ListenerForwards
  <2>1. UNCHANGED <<alive, late, watch, atts>>
    BY <1>14 DEF ListenerForwards, sessionVars
  <2>2. \A i \in 1..Len(events') : i + 1 \in 1..Len(events) /\ events'[i] = events[i + 1]
    BY <1>1, <1>14, Handled
  <2>3. Once(events) => Once(events')
    <3>1. SUFFICES ASSUME Once(events), NEW i \in 1..Len(events'), NEW j \in 1..Len(events'),
                          events'[i] = C, events'[j] = C
                   PROVE  i = j
      OBVIOUS
    <3>2. i + 1 = j + 1
      BY <2>2, <3>1
    <3> QED
      BY <3>2
  <2>4. C \in ToSet(events') => C \in ToSet(events)
    BY <1>3, <2>2
  <2> HIDE DEF Once
  <2> QED
    BY <1>6, <2>1, <2>3, <2>4 DEF AttachedTo
<1>15. CASE \/ Announce \/ ReplayChunk \/ UNCHANGED wVars
            \/ \E k \in 1..Len(atts) : ForwarderLags(k) \/ ForwardChunk(k) \/ ForwarderEnds(k)
  <2>1. \A n : AttachedTo(n)' => AttachedTo(n)
    BY <1>1, <1>15, SameAttached
  <2>2. alive' = alive /\ late' = late /\ events' = events /\ (watch' = "look" => watch = "look")
    BY <1>15 DEF Announce, ReplayChunk, ForwarderLags, ForwardChunk, ForwarderEnds, sessionVars, wVars
  <2>3. AttachedTo(alive)' => AttachedTo(alive)
    BY <2>1, <2>2 DEF AttachedTo
  <2> HIDE DEF Once
  <2> QED
    BY <1>6, <2>2, <2>3
<1> QED
  BY <1>7, <1>8, <1>9, <1>10, <1>11, <1>12, <1>13, <1>14, <1>15, WatchActions

-----------------------------------------------------------------------------
(* Theorems. *)

\* Every attachment of the watcher has written what matches before its position and nothing
\* else, and the listener attaches once to an incarnation whose creation it had not to queue.
THEOREM WatchInvariant == WatchSpec => []WatchInv
<1>1. WatchInit => WatchInv
  BY WatchInitInv
<1>2. WatchInv /\ [WatchNext]_wVars => WatchInv'
  <2> SUFFICES ASSUME WatchInv, [WatchNext]_wVars PROVE WatchInv'
    OBVIOUS
  <2>1. WatchTyped
    BY DEF WatchInv
  <2> QED
    BY <2>1, NextTyped, NextAllWritten, NextAttachedOnce, NextAnnouncedOnce DEF WatchInv
<1> QED
  BY <1>1, <1>2, PTL DEF WatchSpec

\* Snapshot, replay, receiver and registry events of SubscribeAll and SubscribeFiltered leave
\* neither a gap nor an overlap, and keep the order, however sessions, chunks and capacities
\* fall - except for an incarnation that is created while the creation of an older one waits.
THEOREM WatchIsAlwaysExact == WatchSpec => []WatchIsExact
<1>1. WatchInv => WatchIsExact
  <2> SUFFICES ASSUME WatchInv, NEW n \in 1..Len(stream), n \notin late, NEW k \in 1..Len(seen[n])
               PROVE  /\ seen[n][k] \in Matching(n)
                      /\ \A i \in Matching(n) : i < seen[n][k] <=> \E j \in 1..k - 1 : seen[n][j] = i
    BY DEF WatchIsExact
  <2>1. AllWritten
    BY DEF WatchInv
  <2>2. AttachedTo(n)
    BY <2>1 DEF AllWritten
  <2>3. PICK a \in 1..Len(atts) : atts[a].inc = n
    BY <2>2 DEF AttachedTo
  <2>4. Written(seen[n], Matching(n), atts[a].pos - 1)
    BY <2>1, <2>3 DEF AllWritten
  <2> QED
    BY <2>4 DEF Written
<1> QED
  BY <1>1, WatchInvariant, PTL

=============================================================================
