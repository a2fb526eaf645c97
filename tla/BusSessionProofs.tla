-------------------------- MODULE BusSessionProofs --------------------------
(***************************************************************************)
(* Proofs about BusSession, for every number of connections, sessions,     *)
(* chunks and handlers, every channel capacity and every retention time.   *)
(***************************************************************************)
EXTENDS BusSession, FiniteSetTheorems, TLAPS

-----------------------------------------------------------------------------
(* Type correctness: one lemma per group of actions. *)

LEMMA InitType == Init => TypeOK
BY CapAssumption, NameAssumption DEF Init, TypeOK, Idle, Sub, Phase, Entry

LEMMA CreateType ==
    ASSUME TypeOK, NEW s \in Session, NEW n \in Chan, CreateSession(s, n)
    PROVE  TypeOK'
<1>1. BusChunk(n) \in Chunk
  BY DEF BusChunk, Chunk, AnyId, Kind
<1>2. <<BusChunk(n)>> \in Seq(Chunk)
  BY <1>1
<1>3. CASE UNCHANGED <<log, kept>>
  BY <1>3 DEF CreateSession, TypeOK
<1>4. CASE /\ log' = [log EXCEPT ![n] = <<BusChunk(n)>>]
           /\ kept' = [kept EXCEPT ![n] = {1}]
  <2>1. log' \in [Chan -> Seq(Chunk)]
    BY <1>2, <1>4 DEF TypeOK
  <2>2. kept' \in [Chan -> SUBSET Nat]
    BY <1>4 DEF TypeOK
  <2> QED
    BY <2>1, <2>2 DEF CreateSession, TypeOK
<1> QED
  BY <1>3, <1>4 DEF CreateSession

LEMMA PublishType ==
    ASSUME TypeOK, NEW s \in Session, NEW id \in AnyId, NEW kind \in Kind,
           Publish(s, id, kind)
    PROVE  TypeOK'
<1> DEFINE n == current[s]
           p == Len(log[n]) + 1
           ch == [id |-> id, kind |-> kind,
                  until |-> IF kind = "retained" THEN now + Retain ELSE 0]
<1>1. n \in Chan /\ p \in Nat /\ ch \in Chunk
  BY BoundsAssumption, NameAssumption DEF Publish, Exists, TypeOK, Chunk
<1>2. log' = [log EXCEPT ![n] = Append(@, ch)]
  BY DEF Publish
<1>3. log' \in [Chan -> Seq(Chunk)]
  BY <1>1, <1>2 DEF TypeOK
<1>4. kept' = [kept EXCEPT ![n] = HistoryAfter(n, ch, p)]
  BY DEF Publish
<1>5. HistoryAfter(n, ch, p) \in SUBSET Nat
  BY <1>1 DEF HistoryAfter, TypeOK
<1>6. ret' = [ret EXCEPT ![n] = RetainedAfter(n, ch, p)]
  BY DEF Publish
<1>7. RetainedAfter(n, ch, p) \in SUBSET Entry
  BY <1>1 DEF RetainedAfter, TypeOK, Entry, Chunk
<1> QED
  BY <1>1, <1>3, <1>4, <1>5, <1>6, <1>7 DEF Publish, TypeOK

LEMMA ForkType ==
    ASSUME TypeOK, NEW parent \in Session, NEW s \in Session, NEW n \in Chan,
           ForkSession(parent, s, n)
    PROVE  TypeOK'
<1>1. BusChunk(n) \in Chunk
  BY DEF BusChunk, Chunk, AnyId, Kind
<1>2. current[parent] \in Chan
  BY NameAssumption DEF ForkSession, Exists, TypeOK
<1>3. log' \in [Chan -> Seq(Chunk)]
  BY <1>1, <1>2 DEF ForkSession, TypeOK
<1>4. kept' \in [Chan -> SUBSET Nat]
  <2>1. kept[current[parent]] \cup {Len(log[current[parent]]) + 1} \in SUBSET Nat
    BY <1>2 DEF TypeOK
  <2> QED
    BY <2>1 DEF ForkSession, TypeOK
<1>5. ret' \in [Chan -> SUBSET Entry]
  <2>1. Unexpired(current[parent]) \in SUBSET Entry
    BY <1>2 DEF TypeOK, Unexpired
  <2> QED
    BY <2>1 DEF ForkSession, TypeOK
<1> QED
  BY <1>3, <1>4, <1>5 DEF ForkSession, TypeOK

LEMMA SubscribeType ==
    ASSUME TypeOK, NEW c \in Conn, NEW s \in Session, NEW i \in SubId,
           Subscribe(c, s, i)
    PROVE  TypeOK'
<1>1. current[s] \in Chan
  BY NameAssumption DEF Subscribe, Exists, TypeOK
<1>2. ret' \in [Chan -> SUBSET Entry]
  BY <1>1 DEF Subscribe, TypeOK, Unexpired
<1>3. {e.pos : e \in Unexpired(current[s])} \in SUBSET Nat
  BY <1>1 DEF TypeOK, Unexpired, Entry
<1>4. subs' \in [SubId -> Sub]
  BY <1>1, <1>3 DEF Subscribe, TypeOK, Sub, Phase
<1> QED
  BY <1>2, <1>4 DEF Subscribe, TypeOK

\* A step of one subscription replaces one record.
LEMMA OneSub ==
    ASSUME TypeOK, NEW i \in SubId, NEW r \in Sub, subs' = [subs EXCEPT ![i] = r]
    PROVE  subs' \in [SubId -> Sub]
BY DEF TypeOK

LEMMA TaskType ==
    ASSUME TypeOK, NEW i \in SubId, TaskStep(i)
    PROVE  TypeOK'
<1>1. subs[i] \in Sub
  BY DEF TypeOK
<1>2. SUFFICES \E r \in Sub : subs' = [subs EXCEPT ![i] = r]
  BY <1>2, OneSub DEF TaskStep, ReplayOne, HistoryComplete, WriteFails, Forward, Lag, Close,
     TypeOK, bus
<1>3. ASSUME NEW p \in subs[i].history \cup subs[i].retained, ReplayOne(i, p)
      PROVE  \E r \in Sub : subs' = [subs EXCEPT ![i] = r]
  <2>1. p \in Nat
    BY <1>1 DEF Sub
  <2>2. Append(subs[i].got, p) \in Seq(Nat)
    BY <1>1, <2>1 DEF Sub
  <2>3. CASE subs' = [subs EXCEPT ![i].history = @ \ {p}, ![i].got = Append(@, p)]
    <3> DEFINE r == [subs[i] EXCEPT !.history = @ \ {p}, !.got = Append(@, p)]
    <3>1. r \in Sub
      BY <1>1, <2>2 DEF Sub
    <3>2. subs' = [subs EXCEPT ![i] = r]
      BY <1>1, <2>3 DEF TypeOK, Sub
    <3> QED
      BY <3>1, <3>2
  <2>4. CASE subs' = [subs EXCEPT ![i].retained = @ \ {p}, ![i].got = Append(@, p)]
    <3> DEFINE r == [subs[i] EXCEPT !.retained = @ \ {p}, !.got = Append(@, p)]
    <3>1. r \in Sub
      BY <1>1, <2>2 DEF Sub
    <3>2. subs' = [subs EXCEPT ![i] = r]
      BY <1>1, <2>4 DEF TypeOK, Sub
    <3> QED
      BY <3>1, <3>2
  <2> QED
    BY <1>3, <2>3, <2>4 DEF ReplayOne
<1>4. ASSUME NEW phase \in Phase, subs' = [subs EXCEPT ![i].phase = phase]
      PROVE  \E r \in Sub : subs' = [subs EXCEPT ![i] = r]
  <2> DEFINE r == [subs[i] EXCEPT !.phase = phase]
  <2>1. r \in Sub
    BY <1>1 DEF Sub
  <2> QED
    BY <1>4, <2>1
<1>5. CASE Forward(i)
  <2> DEFINE r == [subs[i] EXCEPT !.cursor = @ + 1, !.got = Append(@, subs[i].cursor + 1)]
  <2>1. subs[i].cursor + 1 \in Nat
    BY <1>1 DEF Sub
  <2>2. Append(subs[i].got, subs[i].cursor + 1) \in Seq(Nat)
    BY <1>1, <2>1 DEF Sub
  <2>3. r \in Sub
    BY <1>1, <2>1, <2>2 DEF Sub
  <2>4. subs' = [subs EXCEPT ![i] = r]
    BY <1>1, <1>5 DEF Forward, TypeOK, Sub
  <2> QED
    BY <2>3, <2>4
<1> QED
  BY <1>3, <1>4, <1>5
  DEF TaskStep, HistoryComplete, WriteFails, Lag, Close, Phase

LEMMA CleanupType ==
    ASSUME TypeOK, NEW c \in Conn, Cleanup(c)
    PROVE  TypeOK'
<1>1. \A i \in SubId : [subs[i] EXCEPT !.phase = "stopped"] \in Sub
  BY ZenonT(60) DEF TypeOK, Sub, Phase
<1>2. subs' \in [SubId -> Sub]
  BY <1>1 DEF Cleanup, TypeOK
<1> QED
  BY <1>2 DEF Cleanup, TypeOK, bus

LEMMA NextType == TypeOK /\ [Next]_vars => TypeOK'
<1> SUFFICES ASSUME TypeOK, [Next]_vars PROVE TypeOK'
  OBVIOUS
<1>1. CASE RegistryStep
  <2> PICK s \in Session :
        \/ \E n \in Chan : CreateSession(s, n)
        \/ \E id \in Id, kind \in Kind : Publish(s, id, kind)
        \/ \E n \in used : Publish(s, n, "delete")
        \/ \E parent \in Session, n \in Chan : ForkSession(parent, s, n)
        \/ DeleteSession(s)
        \/ \E c \in Conn, i \in SubId : Subscribe(c, s, i)
    BY <1>1 DEF RegistryStep
  <2>1. CASE \E n \in Chan : CreateSession(s, n)
    BY <2>1, CreateType
  <2>2. CASE \E id \in Id, kind \in Kind : Publish(s, id, kind)
    BY <2>2, PublishType DEF AnyId
  <2>3. CASE \E n \in used : Publish(s, n, "delete")
    BY <2>3, PublishType DEF AnyId, Kind, TypeOK
  <2>4. CASE \E parent \in Session, n \in Chan : ForkSession(parent, s, n)
    BY <2>4, ForkType
  <2>5. CASE DeleteSession(s)
    BY <2>5 DEF DeleteSession, TypeOK
  <2>6. CASE \E c \in Conn, i \in SubId : Subscribe(c, s, i)
    BY <2>6, SubscribeType
  <2> QED
    BY <2>1, <2>2, <2>3, <2>4, <2>5, <2>6
<1>2. CASE \E i \in SubId : TaskStep(i)
  BY <1>2, TaskType
<1>3. CASE \E c \in Conn : HangUp(c)
  BY <1>3 DEF HangUp, TypeOK, bus
<1>4. CASE \E c \in Conn : Cleanup(c)
  BY <1>4, CleanupType
<1>5. CASE Tick
  BY <1>5 DEF Tick, TypeOK, bus
<1>6. CASE UNCHANGED vars
  BY <1>6 DEF vars, TypeOK
<1> QED
  BY <1>1, <1>2, <1>3, <1>4, <1>5, <1>6 DEF Next

\* Type correctness: the registry, the logs and the subscriptions stay of their types.
THEOREM TypeCorrect == Spec => []TypeOK
<1> QED
  BY InitType, NextType, PTL DEF Spec

-----------------------------------------------------------------------------
(* What a log says does not change when it grows. *)

LEMMA Appended ==
    ASSUME NEW l \in Seq(Chunk), NEW ch \in Chunk
    PROVE  /\ Append(l, ch) \in Seq(Chunk)
           /\ Len(Append(l, ch)) = Len(l) + 1
           /\ \A p \in 1..Len(l) : Append(l, ch)[p] = l[p]
           /\ Append(l, ch)[Len(l) + 1] = ch
OBVIOUS

LEMMA SamePrefix ==
    ASSUME NEW l, NEW m, NEW k \in Nat, \A p \in 1..k : l[p] = m[p]
    PROVE  /\ \A p \in 1..k : Retired(l, p, k) <=> Retired(m, p, k)
           /\ Lasting(l, k) = Lasting(m, k)
           /\ \A t \in Nat : Retainable(l, k, t) = Retainable(m, k, t)
           /\ \A t \in Nat : Replayed(l, k, t) = Replayed(m, k, t)
           /\ \A p, q \in Nat \ {0} : Precedes(l, k, p, q) <=> Precedes(m, k, p, q)
<1>1. \A p \in 1..k : Retired(l, p, k) <=> Retired(m, p, k)
  BY DEF Retired, Retires
<1>2. Lasting(l, k) = Lasting(m, k)
  BY <1>1 DEF Lasting
<1>3. \A t \in Nat : Retainable(l, k, t) = Retainable(m, k, t)
  BY <1>1 DEF Retainable
<1>4. \A p \in Nat \ {0} : Class(l, k, p) = Class(m, k, p)
  BY DEF Class
<1> QED
  BY <1>1, <1>2, <1>3, <1>4 DEF Replayed, Precedes

\* Publishing one more chunk retires what it names and adds itself if it is stored.
LEMMA OneMore ==
    ASSUME NEW l \in Seq(Chunk), NEW ch \in Chunk
    PROVE  LET k == Len(l)
               m == Append(l, ch)
           IN /\ \A p \in 1..k : Retired(m, p, k + 1) <=>
                     Retired(l, p, k) \/ (ch.kind = "delete" /\ ch.id = l[p].id)
              /\ ~Retired(m, k + 1, k + 1)
              /\ \A p \in 1..k : m[p] = l[p]
              /\ m[k + 1] = ch
              /\ Len(m) = k + 1
<1> DEFINE k == Len(l)
           m == Append(l, ch)
<1>1. k \in Nat /\ Len(m) = k + 1 /\ m[k + 1] = ch /\ \A p \in 1..k : m[p] = l[p]
  BY Appended
<1>2. ASSUME NEW p \in 1..k
      PROVE  Retired(m, p, k + 1) <=> Retired(l, p, k) \/ (ch.kind = "delete" /\ ch.id = l[p].id)
  <2>1. (p + 1)..(k + 1) = ((p + 1)..k) \cup {k + 1}
    BY <1>1
  <2>2. \A q \in (p + 1)..k : Retires(m, q, p) <=> Retires(l, q, p)
    BY <1>1 DEF Retires
  <2>3. Retires(m, k + 1, p) <=> ch.kind = "delete" /\ ch.id = l[p].id
    BY <1>1 DEF Retires
  <2> QED
    BY <2>1, <2>2, <2>3 DEF Retired
<1>3. ~Retired(m, k + 1, k + 1)
  BY <1>1 DEF Retired
<1> QED
  BY <1>1, <1>2, <1>3

LEMMA LastingGrows ==
    ASSUME NEW l \in Seq(Chunk), NEW ch \in Chunk
    PROVE  LET k == Len(l)
               m == Append(l, ch)
           IN /\ ch.kind = "delete" =>
                    Lasting(m, k + 1) = {p \in Lasting(l, k) : l[p].id # ch.id}
              /\ ch.kind = "durable" => Lasting(m, k + 1) = Lasting(l, k) \cup {k + 1}
              /\ ch.kind \notin {"delete", "durable"} => Lasting(m, k + 1) = Lasting(l, k)
<1> DEFINE k == Len(l)
           m == Append(l, ch)
<1>1. k \in Nat /\ 1..(k + 1) = 1..k \cup {k + 1} /\ k + 1 \notin 1..k
  OBVIOUS
<1>2. /\ \A p \in 1..k : Retired(m, p, k + 1) <=>
               Retired(l, p, k) \/ (ch.kind = "delete" /\ ch.id = l[p].id)
      /\ ~Retired(m, k + 1, k + 1)
      /\ \A p \in 1..k : m[p] = l[p]
      /\ m[k + 1] = ch
  BY OneMore
<1> HIDE DEF k, m
<1>3. ASSUME ch.kind = "delete"
      PROVE  Lasting(m, k + 1) = {p \in Lasting(l, k) : l[p].id # ch.id}
  BY <1>1, <1>2, <1>3 DEF Lasting
<1>4. ASSUME ch.kind = "durable"
      PROVE  Lasting(m, k + 1) = Lasting(l, k) \cup {k + 1}
  BY <1>1, <1>2, <1>4 DEF Lasting
<1>5. ASSUME ch.kind \notin {"delete", "durable"}
      PROVE  Lasting(m, k + 1) = Lasting(l, k)
  BY <1>1, <1>2, <1>5 DEF Lasting
<1> QED
  BY <1>3, <1>4, <1>5 DEF k, m

-----------------------------------------------------------------------------
(* What a step does to the record of a subscription. *)

SameSnapshot(r, s) ==
    /\ r.conn = s.conn
    /\ r.chan = s.chan
    /\ r.from = s.from
    /\ r.at = s.at

LEMMA ReplayFields ==
    ASSUME TypeOK, NEW i \in SubId, NEW p \in Nat, ReplayOne(i, p)
    PROVE  /\ SameSnapshot(subs'[i], subs[i])
           /\ subs[i].phase = "replay" /\ subs'[i].phase = "replay"
           /\ subs'[i].cursor = subs[i].cursor
           /\ subs'[i].got = Append(subs[i].got, p)
           /\ \/ /\ Least(subs[i].history, p)
                 /\ subs'[i].history = subs[i].history \ {p}
                 /\ subs'[i].retained = subs[i].retained
              \/ /\ subs[i].history = {}
                 /\ Least(subs[i].retained, p)
                 /\ subs'[i].history = {}
                 /\ subs'[i].retained = subs[i].retained \ {p}
           /\ \A j \in SubId \ {i} : subs'[j] = subs[j]
<1>1. subs[i] \in Sub /\ i \in DOMAIN subs
  BY DEF TypeOK
<1>2. CASE Least(subs[i].history, p) /\
           subs' = [subs EXCEPT ![i].history = @ \ {p}, ![i].got = Append(@, p)]
  <2> DEFINE r == [subs[i] EXCEPT !.history = @ \ {p}, !.got = Append(@, p)]
  <2>1. subs' = [subs EXCEPT ![i] = r]
    BY <1>1, <1>2 DEF TypeOK, Sub
  <2>2. subs'[i] = r /\ \A j \in SubId \ {i} : subs'[j] = subs[j]
    BY <1>1, <2>1 DEF TypeOK
  <2> QED
    BY <1>1, <1>2, <2>2 DEF ReplayOne, SameSnapshot, Sub
<1>3. CASE Least(subs[i].retained, p) /\ subs[i].history = {} /\
           subs' = [subs EXCEPT ![i].retained = @ \ {p}, ![i].got = Append(@, p)]
  <2> DEFINE r == [subs[i] EXCEPT !.retained = @ \ {p}, !.got = Append(@, p)]
  <2>1. subs' = [subs EXCEPT ![i] = r]
    BY <1>1, <1>3 DEF TypeOK, Sub
  <2>2. subs'[i] = r /\ \A j \in SubId \ {i} : subs'[j] = subs[j]
    BY <1>1, <2>1 DEF TypeOK
  <2> QED
    BY <1>1, <1>3, <2>2 DEF ReplayOne, SameSnapshot, Sub
<1> QED
  BY <1>2, <1>3 DEF ReplayOne

LEMMA ForwardFields ==
    ASSUME TypeOK, NEW i \in SubId, Forward(i)
    PROVE  /\ SameSnapshot(subs'[i], subs[i])
           /\ subs[i].phase = "live" /\ subs'[i].phase = "live"
           /\ subs'[i].cursor = subs[i].cursor + 1
           /\ subs'[i].got = Append(subs[i].got, subs[i].cursor + 1)
           /\ subs'[i].history = subs[i].history
           /\ subs'[i].retained = subs[i].retained
           /\ \A j \in SubId \ {i} : subs'[j] = subs[j]
<1>1. subs[i] \in Sub /\ i \in DOMAIN subs
  BY DEF TypeOK
<1> DEFINE r == [subs[i] EXCEPT !.cursor = @ + 1, !.got = Append(@, subs[i].cursor + 1)]
<1>2. subs' = [subs EXCEPT ![i] = r]
  BY <1>1 DEF Forward, TypeOK, Sub
<1>3. subs'[i] = r /\ \A j \in SubId \ {i} : subs'[j] = subs[j]
  BY <1>1, <1>2 DEF TypeOK
<1> QED
  BY <1>1, <1>3 DEF Forward, SameSnapshot, Sub

\* Every other step of a handler, a forwarder or a connection changes phases only.
PhaseStep ==
    \/ \E i \in SubId : HistoryComplete(i) \/ WriteFails(i) \/ Lag(i) \/ Close(i)
    \/ \E c \in Conn : Cleanup(c)

LEMMA PhaseFields ==
    ASSUME TypeOK, PhaseStep, NEW j \in SubId
    PROVE  /\ SameSnapshot(subs'[j], subs[j])
           /\ subs'[j].cursor = subs[j].cursor
           /\ subs'[j].got = subs[j].got
           /\ subs'[j].history = subs[j].history
           /\ subs'[j].retained = subs[j].retained
           /\ \/ subs'[j].phase = subs[j].phase
              \/ /\ subs[j].phase \in {"replay", "live"}
                 /\ subs'[j].phase \in {"lagged", "closed", "stopped"}
              \/ /\ subs[j].phase = "replay" /\ subs'[j].phase = "live"
                 /\ subs[j].history = {} /\ subs[j].retained = {}
<1>1. subs[j] \in Sub /\ j \in DOMAIN subs
  BY DEF TypeOK
<1>2. CASE \E c \in Conn : Cleanup(c)
  BY <1>1, <1>2 DEF Cleanup, SameSnapshot, Sub
<1>3. CASE \E i \in SubId : HistoryComplete(i) \/ WriteFails(i) \/ Lag(i) \/ Close(i)
  <2> PICK i \in SubId : HistoryComplete(i) \/ WriteFails(i) \/ Lag(i) \/ Close(i)
    BY <1>3
  <2>1. CASE i = j
    BY <1>1, <2>1 DEF HistoryComplete, WriteFails, Lag, Close, SameSnapshot, Sub
  <2>2. CASE i # j
    BY <1>1, <2>2 DEF HistoryComplete, WriteFails, Lag, Close, SameSnapshot, Sub
  <2> QED
    BY <2>1, <2>2
<1> QED
  BY <1>2, <1>3 DEF PhaseStep

\* No step of a subscription changes what it was opened on, or opens one.
LEMMA SameChan ==
    ASSUME TypeOK, NEW j \in SubId,
           (\E i \in SubId : TaskStep(i)) \/ (\E c \in Conn : HangUp(c) \/ Cleanup(c))
    PROVE  /\ subs'[j].chan = subs[j].chan
           /\ subs[j].phase = "idle" => subs'[j].phase = "idle"
<1>1. ASSUME NEW i \in SubId, NEW p \in subs[i].history \cup subs[i].retained, ReplayOne(i, p)
      PROVE  subs'[j].chan = subs[j].chan /\ (subs[j].phase = "idle" => subs'[j].phase = "idle")
  <2>1. p \in Nat
    BY DEF TypeOK, Sub
  <2> QED
    BY <1>1, <2>1, ReplayFields DEF SameSnapshot
<1>2. ASSUME NEW i \in SubId, Forward(i)
      PROVE  subs'[j].chan = subs[j].chan /\ (subs[j].phase = "idle" => subs'[j].phase = "idle")
  BY <1>2, ForwardFields DEF SameSnapshot
<1>3. PhaseStep => subs'[j].chan = subs[j].chan /\ (subs[j].phase = "idle" => subs'[j].phase = "idle")
  BY PhaseFields DEF SameSnapshot
<1> QED
  BY <1>1, <1>2, <1>3 DEF TaskStep, PhaseStep, HangUp

-----------------------------------------------------------------------------
(* Allocation. *)

LEMMA InitInv == Init => IInv
<1> SUFFICES ASSUME Init PROVE IInv
  OBVIOUS
<1>1. TypeOK
  BY InitType
<1>2. Allocated
  BY DEF Init, Allocated, Exists, Idle
<1>3. \A n \in Chan : Len(log[n]) = 0 /\ log[n] = <<>> /\ 1..0 = {}
  BY DEF Init
<1>4. HistoryIsLog
  BY <1>3 DEF Init, HistoryIsLog, Lasting
<1>5. RetentionIsExact
  BY <1>3 DEF Init, RetentionIsExact, RightBuffer, Retainable
<1>6. PendingIsConsistent /\ DeliveryIsExact
  BY DEF Init, PendingIsConsistent, DeliveryIsExact, Idle
<1> QED
  BY <1>1, <1>2, <1>4, <1>5, <1>6 DEF IInv

LEMMA NextAllocated == IInv /\ [Next]_vars => Allocated'
<1> SUFFICES ASSUME IInv, [Next]_vars PROVE Allocated'
  OBVIOUS
<1> USE DEF IInv
<1>1. ASSUME NEW s \in Session, NEW n \in Chan, CreateSession(s, n)
      PROVE  Allocated'
  BY <1>1, NameAssumption DEF CreateSession, TypeOK, Allocated, Exists
<1>2. ASSUME NEW s \in Session, NEW id \in AnyId, NEW kind \in Kind, Publish(s, id, kind)
      PROVE  Allocated'
  BY <1>2, NameAssumption DEF Publish, TypeOK, Allocated, Exists
<1>3. ASSUME NEW parent \in Session, NEW s \in Session, NEW n \in Chan,
             ForkSession(parent, s, n)
      PROVE  Allocated'
  BY <1>3, NameAssumption DEF ForkSession, TypeOK, Allocated, Exists
<1>4. ASSUME NEW s \in Session, DeleteSession(s)
      PROVE  Allocated'
  BY <1>4, NameAssumption DEF DeleteSession, TypeOK, Allocated, Exists
<1>5. ASSUME NEW c \in Conn, NEW s \in Session, NEW i \in SubId, Subscribe(c, s, i)
      PROVE  Allocated'
  BY <1>5, NameAssumption DEF Subscribe, TypeOK, Allocated, Exists, Unexpired
<1>6. CASE (\E i \in SubId : TaskStep(i)) \/ (\E c \in Conn : HangUp(c) \/ Cleanup(c))
  <2>1. \A j \in SubId : /\ subs'[j].chan = subs[j].chan
                         /\ subs[j].phase = "idle" => subs'[j].phase = "idle"
    BY <1>6, SameChan
  <2>2. UNCHANGED bus
    BY <1>6 DEF HangUp, Cleanup, TaskStep, ReplayOne, HistoryComplete, WriteFails, Forward, Lag, Close
  <2> QED
    BY <2>1, <2>2 DEF Allocated, Exists, bus
<1>8. CASE Tick \/ UNCHANGED vars
  BY <1>8 DEF Tick, vars, bus, Allocated, Exists
<1> QED
  BY <1>1, <1>2, <1>3, <1>4, <1>5, <1>6, <1>8
  DEF Next, RegistryStep, AnyId, Kind, TypeOK

-----------------------------------------------------------------------------
(* Histories. *)

LEMMA NextHistory == IInv /\ [Next]_vars => HistoryIsLog'
<1> SUFFICES ASSUME IInv, [Next]_vars PROVE HistoryIsLog'
  OBVIOUS
<1> USE DEF IInv
<1>0. \A n \in Chan : log[n] \in Seq(Chunk) /\ kept[n] = Lasting(log[n], Len(log[n]))
  BY DEF TypeOK, HistoryIsLog
<1>1. ASSUME NEW s \in Session, NEW n \in Chan, CreateSession(s, n)
      PROVE  HistoryIsLog'
  <2>1. CASE UNCHANGED <<log, kept>>
    BY <2>1 DEF HistoryIsLog
  <2>2. CASE /\ log' = [log EXCEPT ![n] = <<BusChunk(n)>>]
             /\ kept' = [kept EXCEPT ![n] = {1}]
    <3> DEFINE l == <<BusChunk(n)>>
    <3>1. Len(l) = 1 /\ l[1].kind = "durable" /\ 1..1 = {1} /\ ~Retired(l, 1, 1)
      BY DEF BusChunk, Retired
    <3>2. Lasting(l, Len(l)) = {1}
      BY <3>1 DEF Lasting
    <3>3. \A x \in Chan : IF x = n THEN log'[x] = l /\ kept'[x] = {1}
                          ELSE log'[x] = log[x] /\ kept'[x] = kept[x]
      BY <2>2 DEF TypeOK
    <3> HIDE DEF l
    <3> QED
      BY <1>0, <3>2, <3>3 DEF HistoryIsLog
  <2> QED
    BY <1>1, <2>1, <2>2 DEF CreateSession
<1>2. ASSUME NEW s \in Session, NEW id \in AnyId, NEW kind \in Kind, Publish(s, id, kind)
      PROVE  HistoryIsLog'
  <2> DEFINE n == current[s]
             k == Len(log[n])
             ch == [id |-> id, kind |-> kind,
                    until |-> IF kind = "retained" THEN now + Retain ELSE 0]
             l == Append(log[n], ch)
  <2>1. n \in Chan /\ ch \in Chunk /\ log[n] \in Seq(Chunk) /\ k \in Nat
    <3>1. n \in Chan
      BY <1>2, NameAssumption DEF Publish, Exists, TypeOK
    <3>2. ch \in Chunk
      BY BoundsAssumption DEF TypeOK, Chunk
    <3> QED
      BY <1>0, <3>1, <3>2
  <2>2. /\ log' = [log EXCEPT ![n] = l]
        /\ kept' = [kept EXCEPT ![n] = HistoryAfter(n, ch, k + 1)]
    BY <1>2 DEF Publish
  <2>3. Len(l) = k + 1
    BY <2>1, Appended
  <2>4. kept[n] = Lasting(log[n], k)
    BY <1>0, <2>1
  <2>5. HistoryAfter(n, ch, k + 1) = Lasting(l, k + 1)
    <3>1. /\ ch.kind = "delete" =>
               Lasting(l, k + 1) = {p \in Lasting(log[n], k) : log[n][p].id # ch.id}
          /\ ch.kind = "durable" => Lasting(l, k + 1) = Lasting(log[n], k) \cup {k + 1}
          /\ ch.kind \notin {"delete", "durable"} => Lasting(l, k + 1) = Lasting(log[n], k)
      BY <2>1, LastingGrows
    <3> HIDE DEF n, k, ch, l
    <3> QED
      BY <3>1, <2>4 DEF HistoryAfter
  <2>6. \A x \in Chan : IF x = n THEN log'[x] = l /\ kept'[x] = Lasting(l, k + 1)
                        ELSE log'[x] = log[x] /\ kept'[x] = kept[x]
    BY <2>1, <2>2, <2>5 DEF TypeOK
  <2> HIDE DEF n, k, ch, l
  <2> QED
    BY <1>0, <2>3, <2>6 DEF HistoryIsLog
<1>3. ASSUME NEW parent \in Session, NEW s \in Session, NEW n \in Chan,
             ForkSession(parent, s, n)
      PROVE  HistoryIsLog'
  <2> DEFINE m == current[parent]
             k == Len(log[m])
             l == Append(log[m], BusChunk(n))
  <2>1. m \in Chan /\ BusChunk(n) \in Chunk /\ log[m] \in Seq(Chunk) /\ k \in Nat
    <3>1. m \in Chan
      BY <1>3, NameAssumption DEF ForkSession, Exists, TypeOK
    <3>2. BusChunk(n) \in Chunk
      BY DEF BusChunk, Chunk, AnyId, Kind
    <3> QED
      BY <1>0, <3>1, <3>2
  <2>2. /\ log' = [log EXCEPT ![n] = l]
        /\ kept' = [kept EXCEPT ![n] = kept[m] \cup {k + 1}]
    BY <1>3 DEF ForkSession
  <2>3. Len(l) = k + 1
    BY <2>1, Appended
  <2>4. Lasting(l, k + 1) = kept[m] \cup {k + 1}
    <3>1. Lasting(l, k + 1) = Lasting(log[m], k) \cup {k + 1}
      BY <2>1, LastingGrows DEF BusChunk
    <3> QED
      BY <1>0, <2>1, <3>1
  <2>5. \A x \in Chan : IF x = n THEN log'[x] = l /\ kept'[x] = Lasting(l, k + 1)
                        ELSE log'[x] = log[x] /\ kept'[x] = kept[x]
    BY <2>1, <2>2, <2>4 DEF TypeOK
  <2> HIDE DEF m, k, l
  <2> QED
    BY <1>0, <2>3, <2>5 DEF HistoryIsLog
<1>4. ASSUME UNCHANGED <<log, kept>>
      PROVE  HistoryIsLog'
  BY <1>4 DEF HistoryIsLog
<1>5. \/ \E s \in Session, n \in Chan : CreateSession(s, n)
      \/ \E s \in Session, id \in AnyId, kind \in Kind : Publish(s, id, kind)
      \/ \E parent, s \in Session, n \in Chan : ForkSession(parent, s, n)
      \/ UNCHANGED <<log, kept>>
  BY DEF Next, RegistryStep, DeleteSession, Subscribe, TaskStep, ReplayOne, HistoryComplete,
     WriteFails, Forward, Lag, Close, HangUp, Cleanup, Tick, vars, bus, AnyId, Kind, TypeOK
<1> QED
  BY <1>1, <1>2, <1>3, <1>4, <1>5

-----------------------------------------------------------------------------
(* Retained chunks. *)

LEMMA BufferAges ==
    ASSUME NEW l, NEW r, NEW t \in Nat, NEW u \in Nat, t <= u, RightBuffer(l, r, t),
           l \in Seq(Chunk)
    PROVE  RightBuffer(l, r, u)
<1>1. \A p \in 1..Len(l) : l[p].until \in Nat
  <2>1. \A p \in 1..Len(l) : l[p] \in Chunk
    OBVIOUS
  <2> QED
    BY <2>1 DEF Chunk
<1>2. Retainable(l, Len(l), u) \subseteq Retainable(l, Len(l), t)
  BY <1>1 DEF Retainable
<1> QED
  BY <1>2 DEF RightBuffer

LEMMA BufferPruned ==
    ASSUME NEW l, NEW r, NEW t, RightBuffer(l, r, t)
    PROVE  RightBuffer(l, {e \in r : e.deadline > t}, t)
<1> DEFINE x == {e \in r : e.deadline > t}
<1>1. ASSUME NEW p \in Retainable(l, Len(l), t)
      PROVE  \E e \in x : e.pos = p
  <2>1. PICK e \in r : e.pos = p
    BY DEF RightBuffer
  <2>2. l[p].until > t /\ e.deadline = l[e.pos].until
    BY DEF RightBuffer, Retainable
  <2> QED
    BY <2>1, <2>2
<1>2. x \subseteq r
  OBVIOUS
<1> HIDE DEF x
<1> QED
  BY <1>1, <1>2 DEF RightBuffer, x

\* What RetainedAfter makes of a right buffer is right for the longer log.
LEMMA BufferGrows ==
    ASSUME NEW l \in Seq(Chunk), NEW ch \in Chunk, NEW t, NEW r, RightBuffer(l, r, t),
           NEW x,
           ch.kind = "delete" => x = {e \in r : l[e.pos].id # ch.id},
           ch.kind = "retained" => x = r \cup {[pos |-> Len(l) + 1, deadline |-> ch.until]},
           ch.kind \notin {"delete", "retained"} => x = r
    PROVE  RightBuffer(Append(l, ch), x, t)
<1> DEFINE k == Len(l)
           m == Append(l, ch)
<1>1. k \in Nat /\ 1..(k + 1) = 1..k \cup {k + 1} /\ k + 1 \notin 1..k
  OBVIOUS
<1>2. /\ \A p \in 1..k : Retired(m, p, k + 1) <=>
               Retired(l, p, k) \/ (ch.kind = "delete" /\ ch.id = l[p].id)
      /\ ~Retired(m, k + 1, k + 1)
      /\ \A p \in 1..k : m[p] = l[p]
      /\ m[k + 1] = ch
      /\ Len(m) = k + 1
  BY OneMore
<1>3. /\ \A p \in 1..k : l[p].kind = "retained" /\ l[p].until > t /\ ~Retired(l, p, k)
                            => \E e \in r : e.pos = p
      /\ \A e \in r : /\ e.pos \in 1..k
                      /\ l[e.pos].kind = "retained"
                      /\ e.deadline = l[e.pos].until
                      /\ ~Retired(l, e.pos, k)
  BY DEF RightBuffer, Retainable
<1> HIDE DEF k, m
<1>4. ASSUME NEW p \in 1..(k + 1), m[p].kind = "retained", m[p].until > t, ~Retired(m, p, k + 1)
      PROVE  \E e \in x : e.pos = p
  <2>1. CASE p = k + 1
    <3> DEFINE e == [pos |-> k + 1, deadline |-> ch.until]
    <3>1. ch.kind = "retained"
      BY <1>2, <1>4, <2>1
    <3>2. e \in x /\ e.pos = p
      BY <2>1, <3>1 DEF k
    <3> QED
      BY <3>2
  <2>2. CASE p \in 1..k
    <3>1. PICK e \in r : e.pos = p
      BY <1>2, <1>3, <1>4, <2>2
    <3>2. ch.kind = "delete" => ch.id # l[p].id
      BY <1>2, <1>4, <2>2
    <3>3. CASE ch.kind = "delete"
      BY <3>1, <3>2, <3>3
    <3>4. CASE ch.kind = "retained"
      BY <3>1, <3>4
    <3>5. CASE ch.kind \notin {"delete", "retained"}
      BY <3>1, <3>5
    <3> QED
      BY <3>3, <3>4, <3>5
  <2> QED
    BY <1>1, <2>1, <2>2
<1>5. ASSUME NEW e \in x
      PROVE  /\ e.pos \in 1..(k + 1)
             /\ m[e.pos].kind = "retained"
             /\ e.deadline = m[e.pos].until
             /\ ~Retired(m, e.pos, k + 1)
  <2>1. CASE e \in r
    <3>1. e.pos \in 1..k /\ (ch.kind = "delete" => ch.id # l[e.pos].id)
      BY <1>3, <2>1
    <3> QED
      BY <1>1, <1>2, <1>3, <2>1, <3>1
  <2>2. CASE e \notin r
    <3>1. ch.kind = "retained" /\ e = [pos |-> k + 1, deadline |-> ch.until]
      BY <2>2 DEF k
    <3> QED
      BY <1>1, <1>2, <3>1
  <2> QED
    BY <2>1, <2>2
<1> QED
  BY <1>2, <1>4, <1>5 DEF RightBuffer, Retainable, m

LEMMA NextRetention == IInv /\ [Next]_vars => RetentionIsExact'
<1> SUFFICES ASSUME IInv, [Next]_vars PROVE RetentionIsExact'
  OBVIOUS
<1> USE DEF IInv
<1>0. \A n \in Chan : log[n] \in Seq(Chunk) /\ RightBuffer(log[n], ret[n], now)
  BY DEF TypeOK, RetentionIsExact
<1>1. ASSUME NEW s \in Session, NEW n \in Chan, CreateSession(s, n)
      PROVE  RetentionIsExact'
  <2>1. CASE UNCHANGED log
    BY <1>1, <2>1 DEF CreateSession, RetentionIsExact
  <2>2. CASE log' = [log EXCEPT ![n] = <<BusChunk(n)>>]
    <3> DEFINE l == <<BusChunk(n)>>
    <3>1. Len(l) = 1 /\ l[1].kind = "durable"
      BY DEF BusChunk
    <3>2. RightBuffer(l, {}, now)
      BY <3>1 DEF RightBuffer, Retainable
    <3>3. ret' = ret /\ now' = now /\ ret[n] = {}
      BY <1>1 DEF CreateSession, Allocated
    <3>4. \A x \in Chan : log'[x] = IF x = n THEN l ELSE log[x]
      BY <2>2 DEF TypeOK
    <3> HIDE DEF l
    <3> QED
      BY <1>0, <3>2, <3>3, <3>4 DEF RetentionIsExact
  <2> QED
    BY <1>1, <2>1, <2>2 DEF CreateSession
<1>2. ASSUME NEW s \in Session, NEW id \in AnyId, NEW kind \in Kind, Publish(s, id, kind)
      PROVE  RetentionIsExact'
  <2> DEFINE n == current[s]
             k == Len(log[n])
             ch == [id |-> id, kind |-> kind,
                    until |-> IF kind = "retained" THEN now + Retain ELSE 0]
             l == Append(log[n], ch)
             x == RetainedAfter(n, ch, k + 1)
  <2>1. n \in Chan
    BY <1>2, NameAssumption DEF Publish, Exists, TypeOK
  <2>2. ch \in Chunk
    BY BoundsAssumption DEF TypeOK, Chunk
  <2>3. now' = now /\ log' = [log EXCEPT ![n] = l] /\ ret' = [ret EXCEPT ![n] = x]
    BY <1>2 DEF Publish
  <2>4. /\ ch.kind = "delete" => x = {e \in ret[n] : log[n][e.pos].id # ch.id}
        /\ ch.kind = "retained" => x = ret[n] \cup {[pos |-> k + 1, deadline |-> ch.until]}
        /\ ch.kind \notin {"delete", "retained"} => x = ret[n]
    BY DEF RetainedAfter
  <2>5. RightBuffer(l, x, now)
    <3> HIDE DEF ch, n, x
    <3> QED
      BY <1>0, <2>1, <2>2, <2>4, BufferGrows
  <2>6. \A y \in Chan : IF y = n THEN log'[y] = l /\ ret'[y] = x
                        ELSE log'[y] = log[y] /\ ret'[y] = ret[y]
    BY <2>1, <2>3 DEF TypeOK
  <2> HIDE DEF n, k, ch, l, x
  <2> QED
    BY <1>0, <2>3, <2>5, <2>6 DEF RetentionIsExact
<1>3. ASSUME NEW parent \in Session, NEW s \in Session, NEW n \in Chan,
             ForkSession(parent, s, n)
      PROVE  RetentionIsExact'
  <2> DEFINE m == current[parent]
             l == Append(log[m], BusChunk(n))
             x == Unexpired(m)
  <2>1. m \in Chan
    BY <1>3, NameAssumption DEF ForkSession, Exists, TypeOK
  <2>2. BusChunk(n) \in Chunk /\ BusChunk(n).kind = "durable"
    BY DEF BusChunk, Chunk, AnyId, Kind
  <2>3. /\ now' = now
        /\ log' = [log EXCEPT ![n] = l]
        /\ ret' = [ret EXCEPT ![n] = x, ![m] = x]
    BY <1>3 DEF ForkSession
  <2>4. RightBuffer(log[m], x, now)
    BY <1>0, <2>1, BufferPruned DEF Unexpired
  <2>5. RightBuffer(l, x, now)
    <3> HIDE DEF m, x
    <3> QED
      BY <1>0, <2>1, <2>2, <2>4, BufferGrows
  <2>6. m # n
    BY <1>3 DEF ForkSession, Allocated, Exists
  <2>7. \A y \in Chan : IF y = n THEN log'[y] = l /\ ret'[y] = x
                        ELSE IF y = m THEN log'[y] = log[m] /\ ret'[y] = x
                        ELSE log'[y] = log[y] /\ ret'[y] = ret[y]
    BY <2>1, <2>3, <2>6 DEF TypeOK
  <2> HIDE DEF m, l, x
  <2> QED
    BY <1>0, <2>3, <2>4, <2>5, <2>7 DEF RetentionIsExact
<1>4. ASSUME NEW c \in Conn, NEW s \in Session, NEW i \in SubId, Subscribe(c, s, i)
      PROVE  RetentionIsExact'
  <2> DEFINE n == current[s]
             x == Unexpired(n)
  <2>1. n \in Chan
    BY <1>4, NameAssumption DEF Subscribe, Exists, TypeOK
  <2>2. now' = now /\ log' = log /\ ret' = [ret EXCEPT ![n] = x]
    BY <1>4 DEF Subscribe
  <2>3. RightBuffer(log[n], x, now)
    BY <1>0, <2>1, BufferPruned DEF Unexpired
  <2>4. \A y \in Chan : ret'[y] = IF y = n THEN x ELSE ret[y]
    BY <2>1, <2>2 DEF TypeOK
  <2> HIDE DEF n, x
  <2> QED
    BY <1>0, <2>2, <2>3, <2>4 DEF RetentionIsExact
<1>5. ASSUME Tick
      PROVE  RetentionIsExact'
  <2>1. now \in Nat /\ now' \in Nat /\ now <= now' /\ log' = log /\ ret' = ret
    BY <1>5 DEF Tick, TypeOK, bus
  <2> QED
    BY <1>0, <2>1, BufferAges DEF RetentionIsExact
<1>6. ASSUME UNCHANGED <<now, log, ret>>
      PROVE  RetentionIsExact'
  BY <1>6 DEF RetentionIsExact
<1>7. \/ \E s \in Session, n \in Chan : CreateSession(s, n)
      \/ \E s \in Session, id \in AnyId, kind \in Kind : Publish(s, id, kind)
      \/ \E parent, s \in Session, n \in Chan : ForkSession(parent, s, n)
      \/ \E c \in Conn, s \in Session, i \in SubId : Subscribe(c, s, i)
      \/ Tick
      \/ UNCHANGED <<now, log, ret>>
  BY DEF Next, RegistryStep, DeleteSession, TaskStep, ReplayOne, HistoryComplete,
     WriteFails, Forward, Lag, Close, HangUp, Cleanup, vars, bus, AnyId, Kind, TypeOK
<1> QED
  BY <1>1, <1>2, <1>3, <1>4, <1>5, <1>6, <1>7

-----------------------------------------------------------------------------
(* Delivery. *)

\* What is known of one subscription on the log of its session.
Sound(s, l) == Exact(s, l) /\ Consistent(s, l)

\* What one more write adds to what a subscription was shown.
LEMMA ShownGrows ==
    ASSUME NEW s \in Sub, NEW r \in Sub, NEW p \in Nat, r.got = Append(s.got, p)
    PROVE  /\ DOMAIN s.got = 1..Len(s.got)
           /\ DOMAIN r.got = 1..(Len(s.got) + 1)
           /\ \A a \in 1..Len(s.got) : r.got[a] = s.got[a]
           /\ r.got[Len(s.got) + 1] = p
           /\ {r.got[a] : a \in DOMAIN r.got} = {s.got[a] : a \in DOMAIN s.got} \cup {p}
<1> DEFINE g == s.got
           m == r.got
           k == Len(g)
<1>1. g \in Seq(Nat) /\ m = Append(g, p)
  BY DEF Sub
<1>2. /\ DOMAIN g = 1..k
      /\ DOMAIN m = 1..(k + 1)
      /\ \A a \in 1..k : m[a] = g[a]
      /\ m[k + 1] = p
      /\ k \in Nat
  <2> HIDE DEF g, m
  <2> QED
    BY <1>1
<1>3. {m[a] : a \in DOMAIN m} = {g[a] : a \in DOMAIN g} \cup {p}
  <2> HIDE DEF m, g, k
  <2>1. \A a \in DOMAIN m : m[a] \in {g[b] : b \in DOMAIN g} \cup {p}
    BY <1>2
  <2>2. \A b \in DOMAIN g : g[b] = m[b] /\ b \in DOMAIN m
    BY <1>2
  <2>3. p = m[k + 1] /\ k + 1 \in DOMAIN m
    BY <1>2
  <2> QED
    BY <2>1, <2>2, <2>3
<1> QED
  BY <1>2, <1>3, Zenon

\* Everything a subscription replays is a position before the snapshot.
LEMMA ReplayedRange ==
    ASSUME NEW l, NEW k \in Nat, NEW t
    PROVE  /\ Lasting(l, k) \subseteq 1..k
           /\ Retainable(l, k, t) \subseteq 1..k
           /\ Replayed(l, k, t) \subseteq 1..k
           /\ \A p \in Lasting(l, k) : Class(l, k, p) = 1
           /\ \A p \in Retainable(l, k, t) : Class(l, k, p) = 2
           /\ Lasting(l, k) \cap Retainable(l, k, t) = {}
BY DEF Lasting, Retainable, Replayed, Class

\* A subscription stays sound while the log of its session grows.
LEMMA SoundGrows ==
    ASSUME NEW s \in Sub, NEW l \in Seq(Chunk), NEW m \in Seq(Chunk),
           Len(l) <= Len(m), \A p \in 1..Len(l) : m[p] = l[p],
           Sound(s, l)
    PROVE  Sound(s, m)
<1> DEFINE k == s.from
           t == s.at
<1>1. k \in Nat /\ t \in Nat /\ s.cursor \in Nat /\ s.got \in Seq(Nat)
  BY DEF Sub
<1>2. Len(l) \in Nat /\ Len(m) \in Nat /\ k <= s.cursor /\ s.cursor <= Len(l)
  BY DEF Sound, Exact
<1>3. \A p \in 1..k : l[p] = m[p]
  BY <1>1, <1>2
<1>4. /\ Lasting(l, k) = Lasting(m, k)
      /\ Retainable(l, k, t) = Retainable(m, k, t)
      /\ Replayed(l, k, t) = Replayed(m, k, t)
      /\ \A p, q \in Nat \ {0} : Precedes(l, k, p, q) <=> Precedes(m, k, p, q)
  BY <1>1, <1>3, SamePrefix, ZenonT(60)
<1>5. Replayed(l, k, t) \subseteq Nat \ {0}
  <2>1. Replayed(l, k, t) \subseteq 1..k
    BY <1>1, ReplayedRange
  <2>2. 1..k \subseteq Nat \ {0}
    BY <1>1
  <2> QED
    BY <2>1, <2>2
<1>6. \A a \in DOMAIN s.got : s.got[a] \in Nat \ {0}
  <2>1. {s.got[a] : a \in DOMAIN s.got} \subseteq Replayed(l, k, t) \cup (k + 1)..s.cursor
    BY DEF Sound, Exact
  <2>2. (k + 1)..s.cursor \subseteq Nat \ {0}
    BY <1>1
  <2> QED
    BY <1>5, <2>1, <2>2
<1>7. s.history \cup s.retained \subseteq Nat \ {0}
  BY <1>5 DEF Sound, Exact
<1>8. Exact(s, m)
  <2>1. s.cursor <= Len(m)
    BY <1>1, <1>2
  <2> QED
    BY <1>2, <1>4, <1>6, <2>1 DEF Sound, Exact
<1>9. Consistent(s, m)
  BY <1>4, <1>6, <1>7 DEF Sound, Consistent
<1> QED
  BY <1>8, <1>9 DEF Sound

\* What a sound subscription was shown, and what it still has to be shown.
LEMMA SoundRange ==
    ASSUME NEW s \in Sub, NEW l \in Seq(Chunk), Sound(s, l)
    PROVE  /\ \A a \in DOMAIN s.got : s.got[a] \in 1..s.cursor
           /\ s.history \subseteq 1..s.from
           /\ s.retained \subseteq 1..s.from
           /\ s.history \cap s.retained = {}
           /\ \A p \in s.history : Class(l, s.from, p) = 1
           /\ \A p \in s.retained : Class(l, s.from, p) = 2
<1> DEFINE k == s.from
           t == s.at
           R == Replayed(l, k, t)
<1>1. k \in Nat /\ s.cursor \in Nat /\ k <= s.cursor
  BY DEF Sub, Sound, Exact
<1>2. /\ Lasting(l, k) \subseteq 1..k
      /\ Retainable(l, k, t) \subseteq 1..k
      /\ R \subseteq 1..k
      /\ \A p \in Lasting(l, k) : Class(l, k, p) = 1
      /\ \A p \in Retainable(l, k, t) : Class(l, k, p) = 2
      /\ Lasting(l, k) \cap Retainable(l, k, t) = {}
  BY <1>1, ReplayedRange
<1>3. s.history \subseteq Lasting(l, k) /\ s.retained \subseteq Retainable(l, k, t)
  BY DEF Sound, Consistent
<1>4. {s.got[a] : a \in DOMAIN s.got} \subseteq R \cup (k + 1)..s.cursor
  BY DEF Sound, Exact
<1>5. 1..k \subseteq 1..s.cursor /\ (k + 1)..s.cursor \subseteq 1..s.cursor
  BY <1>1
<1> HIDE DEF k, t, R
<1>6. \A a \in DOMAIN s.got : s.got[a] \in 1..s.cursor
  BY <1>2, <1>4, <1>5
<1> QED
  BY <1>2, <1>3, <1>6 DEF k

\* Writing one replayed chunk keeps a subscription sound.
LEMMA SoundReplay ==
    ASSUME NEW s \in Sub, NEW r \in Sub, NEW l \in Seq(Chunk), Sound(s, l), NEW p \in Nat,
           SameSnapshot(r, s), s.phase = "replay", r.phase = "replay",
           r.cursor = s.cursor, r.got = Append(s.got, p),
           \/ /\ Least(s.history, p)
              /\ r.history = s.history \ {p}
              /\ r.retained = s.retained
           \/ /\ s.history = {}
              /\ Least(s.retained, p)
              /\ r.history = {}
              /\ r.retained = s.retained \ {p}
    PROVE  Sound(r, l)
<1> DEFINE k == s.from
           t == s.at
           R == Replayed(l, k, t)
           todo == s.history \cup s.retained
           later == r.history \cup r.retained
<1>1. r.from = k /\ r.at = t
  BY DEF SameSnapshot
<1>2. /\ \A a \in DOMAIN s.got : s.got[a] \in 1..s.cursor
      /\ s.history \subseteq 1..k
      /\ s.retained \subseteq 1..k
      /\ s.history \cap s.retained = {}
      /\ \A q \in s.history : Class(l, k, q) = 1
      /\ \A q \in s.retained : Class(l, k, q) = 2
  BY SoundRange
<1>3. later = todo \ {p} /\ p \in todo
  BY <1>2 DEF Least
<1>4. /\ DOMAIN s.got = 1..Len(s.got)
      /\ DOMAIN r.got = 1..(Len(s.got) + 1)
      /\ \A a \in 1..Len(s.got) : r.got[a] = s.got[a]
      /\ r.got[Len(s.got) + 1] = p
      /\ {r.got[a] : a \in DOMAIN r.got} = {s.got[a] : a \in DOMAIN s.got} \cup {p}
  BY ShownGrows, ZenonT(60)
<1>5. Len(s.got) \in Nat /\ k \in Nat /\ 1..(Len(s.got) + 1) = 1..Len(s.got) \cup {Len(s.got) + 1}
  BY DEF Sub
<1>6. /\ k <= s.cursor /\ s.cursor <= Len(l)
      /\ todo \subseteq R
      /\ {s.got[a] : a \in DOMAIN s.got} = (R \ todo) \cup (k + 1)..s.cursor
      /\ \A a, b \in DOMAIN s.got : a < b => Precedes(l, k, s.got[a], s.got[b])
  BY DEF Sound, Exact
<1>7. /\ s.history \subseteq Lasting(l, k)
      /\ s.retained \subseteq Retainable(l, k, t)
      /\ s.cursor = k
      /\ \A a \in DOMAIN s.got, q \in todo : Precedes(l, k, s.got[a], q)
  BY DEF Sound, Consistent
<1>8. \A q \in later : Precedes(l, k, p, q)
  BY <1>2, <1>5 DEF Precedes, Least
<1> HIDE DEF k, t, R, todo, later
<1>9. {r.got[a] : a \in DOMAIN r.got} = (R \ later) \cup (k + 1)..s.cursor
  BY <1>3, <1>4, <1>6
<1>10. ASSUME NEW a \in 1..(Len(s.got) + 1), NEW b \in 1..(Len(s.got) + 1), a < b
       PROVE  Precedes(l, k, r.got[a], r.got[b])
  <2>1. a \in 1..Len(s.got)
    BY <1>5, <1>10
  <2>2. CASE b \in 1..Len(s.got)
    BY <1>4, <1>6, <1>10, <2>1, <2>2
  <2>3. CASE b = Len(s.got) + 1
    BY <1>3, <1>4, <1>7, <2>1, <2>3
  <2> QED
    BY <1>5, <2>2, <2>3
<1>11. ASSUME NEW a \in 1..(Len(s.got) + 1), NEW q \in later
       PROVE  Precedes(l, k, r.got[a], q)
  <2>1. CASE a \in 1..Len(s.got)
    BY <1>3, <1>4, <1>7, <2>1
  <2>2. CASE a = Len(s.got) + 1
    BY <1>4, <1>8, <2>2
  <2> QED
    BY <1>5, <2>1, <2>2
<1>12. later \subseteq R
  BY <1>3, <1>6
<1>13. Exact(r, l)
  BY <1>1, <1>4, <1>6, <1>9, <1>10, <1>12 DEF Exact, k, t, R, later
<1>14. r.history \subseteq s.history /\ r.retained \subseteq s.retained
  OBVIOUS
<1>15. Consistent(r, l)
  BY <1>1, <1>4, <1>7, <1>11, <1>14 DEF Consistent, k, t, later
<1> QED
  BY <1>13, <1>15 DEF Sound

\* Forwarding the next chunk of the channel keeps a subscription sound.
LEMMA SoundForward ==
    ASSUME NEW s \in Sub, NEW r \in Sub, NEW l \in Seq(Chunk), Sound(s, l),
           SameSnapshot(r, s), s.phase = "live", r.phase = "live", s.cursor < Len(l),
           r.cursor = s.cursor + 1, r.got = Append(s.got, s.cursor + 1),
           r.history = s.history, r.retained = s.retained
    PROVE  Sound(r, l)
<1> DEFINE k == s.from
           t == s.at
           R == Replayed(l, k, t)
           g == Len(s.got)
           p == s.cursor + 1
<1>1. r.from = k /\ r.at = t
  BY DEF SameSnapshot
<1>2. s.history = {} /\ s.retained = {}
  BY DEF Sound, Consistent
<1>3. \A a \in DOMAIN s.got : s.got[a] \in 1..s.cursor
  BY SoundRange
<1>4. s.cursor \in Nat /\ k \in Nat /\ g \in Nat /\ k <= s.cursor /\ Len(l) \in Nat
  BY DEF Sub, Sound, Exact
<1>5. /\ DOMAIN s.got = 1..g
      /\ DOMAIN r.got = 1..(g + 1)
      /\ \A a \in 1..g : r.got[a] = s.got[a]
      /\ r.got[g + 1] = p
      /\ {r.got[a] : a \in DOMAIN r.got} = {s.got[a] : a \in DOMAIN s.got} \cup {p}
  <2>1. p \in Nat /\ r.got = Append(s.got, p)
    BY <1>4
  <2> QED
    BY <2>1, ShownGrows, Zenon
<1>6. /\ {s.got[a] : a \in DOMAIN s.got} = R \cup (k + 1)..s.cursor
      /\ \A a, b \in DOMAIN s.got : a < b => Precedes(l, k, s.got[a], s.got[b])
  BY <1>2 DEF Sound, Exact
<1>7. \A q \in 1..s.cursor : Precedes(l, k, q, p)
  BY <1>4 DEF Precedes, Class
<1>8. (k + 1)..p = (k + 1)..s.cursor \cup {p}
  BY <1>4
<1>9. 1..(g + 1) = 1..g \cup {g + 1}
  BY <1>4
<1>10. k <= p /\ p <= Len(l)
  BY <1>4
<1> HIDE DEF k, t, R, g, p
<1>11. {r.got[a] : a \in DOMAIN r.got} = R \cup (k + 1)..p
  BY <1>5, <1>6, <1>8
<1>12. ASSUME NEW a \in 1..(g + 1), NEW b \in 1..(g + 1), a < b
       PROVE  Precedes(l, k, r.got[a], r.got[b])
  <2>1. a \in 1..g
    BY <1>4, <1>12
  <2>2. CASE b \in 1..g
    BY <1>5, <1>6, <1>12, <2>1, <2>2
  <2>3. CASE b = g + 1
    BY <1>3, <1>5, <1>7, <2>1, <2>3
  <2> QED
    BY <1>9, <2>2, <2>3
<1>13. r.cursor = p /\ r.history = {} /\ r.retained = {}
  BY <1>2 DEF p
<1>14. Exact(r, l)
  BY <1>1, <1>5, <1>10, <1>11, <1>12, <1>13 DEF Exact, R
<1>15. Consistent(r, l)
  BY <1>13 DEF Consistent
<1> QED
  BY <1>14, <1>15 DEF Sound

\* A step that changes at most the phase keeps a subscription sound.
LEMMA SoundPhase ==
    ASSUME NEW s \in Sub, NEW r \in Sub, NEW l, Sound(s, l), SameSnapshot(r, s),
           r.cursor = s.cursor, r.got = s.got, r.history = s.history, r.retained = s.retained,
           \/ r.phase = s.phase
           \/ r.phase \in {"lagged", "closed", "stopped"}
           \/ r.phase = "live" /\ s.history = {} /\ s.retained = {}
    PROVE  Sound(r, l)
<1>1. r.from = s.from /\ r.at = s.at
  BY DEF SameSnapshot
<1>2. Exact(r, l)
  BY <1>1, Zenon DEF Sound, Exact
<1>3. \/ r.phase = s.phase
      \/ r.phase # "replay" /\ (r.phase = "live" => s.history = {} /\ s.retained = {})
  OBVIOUS
<1>4. Consistent(r, l)
  BY <1>1, <1>3 DEF Sound, Consistent
<1> QED
  BY <1>2, <1>4 DEF Sound

\* A subscription that was just opened is sound.
LEMMA SoundOpened ==
    ASSUME IInv, NEW n \in Chan, NEW s \in Sub,
           s.history = kept[n], s.retained = {e.pos : e \in Unexpired(n)},
           s.from = Len(log[n]), s.cursor = Len(log[n]), s.at = now, s.got = <<>>,
           s.phase = "replay"
    PROVE  Sound(s, log[n])
<1> DEFINE l == log[n]
           k == Len(l)
<1>1. k \in Nat /\ l \in Seq(Chunk)
  BY DEF IInv, TypeOK
<1>2. s.history = Lasting(l, k)
  BY DEF IInv, HistoryIsLog
<1>3. RightBuffer(l, ret[n], now)
  BY DEF IInv, RetentionIsExact
<1>4. s.retained = Retainable(l, k, now)
  <2>1. RightBuffer(l, Unexpired(n), now)
    BY <1>3, BufferPruned DEF Unexpired
  <2>2. Retainable(l, k, now) \subseteq s.retained
    BY <2>1 DEF RightBuffer
  <2>3. ASSUME NEW e \in Unexpired(n)
        PROVE  e.pos \in Retainable(l, k, now)
    <3>1. e.deadline > now
      BY <2>3 DEF Unexpired
    <3> QED
      BY <2>1, <3>1 DEF RightBuffer, Retainable
  <2>4. s.retained \subseteq Retainable(l, k, now)
    BY <2>3
  <2> QED
    BY <2>2, <2>4
<1>5. DOMAIN s.got = {} /\ {s.got[a] : a \in DOMAIN s.got} = {} /\ (k + 1)..k = {}
  BY <1>1
<1>6. s.history \cup s.retained = Replayed(l, k, now)
  BY <1>2, <1>4 DEF Replayed
<1> HIDE DEF l, k
<1>7. s.from = k /\ s.cursor = k /\ k <= k
  BY <1>1 DEF k, l
<1>8. Exact(s, l)
  BY <1>5, <1>6, <1>7 DEF Exact, k
<1>9. Consistent(s, l)
  BY <1>2, <1>4, <1>5, <1>7 DEF Consistent
<1> QED
  BY <1>8, <1>9 DEF Sound, l

\* The log of an incarnation in use only grows at its end.
LEMMA LogsGrow ==
    ASSUME IInv, [Next]_vars, NEW n \in used
    PROVE  /\ Len(log[n]) <= Len(log'[n])
           /\ \A p \in 1..Len(log[n]) : log'[n][p] = log[n][p]
<1> USE DEF IInv
<1>0. n \in Chan /\ log[n] \in Seq(Chunk) /\ Len(log[n]) \in Nat
  BY DEF TypeOK
<1>1. ASSUME NEW s \in Session, NEW m \in Chan, CreateSession(s, m)
      PROVE  log'[n] = log[n]
  BY <1>0, <1>1 DEF CreateSession, TypeOK
<1>2. ASSUME NEW s \in Session, NEW id \in AnyId, NEW kind \in Kind, Publish(s, id, kind)
      PROVE  log'[n] = log[n] \/ \E ch \in Chunk : log'[n] = Append(log[n], ch)
  <2> DEFINE ch == [id |-> id, kind |-> kind,
                    until |-> IF kind = "retained" THEN now + Retain ELSE 0]
  <2>1. ch \in Chunk
    BY BoundsAssumption DEF TypeOK, Chunk
  <2>2. current[s] \in Chan
    BY <1>2, NameAssumption DEF Publish, Exists, TypeOK
  <2>3. log' = [log EXCEPT ![current[s]] = Append(@, ch)]
    BY <1>2 DEF Publish
  <2> HIDE DEF ch
  <2> QED
    BY <1>0, <2>1, <2>2, <2>3 DEF TypeOK
<1>3. ASSUME NEW parent \in Session, NEW s \in Session, NEW m \in Chan,
             ForkSession(parent, s, m)
      PROVE  log'[n] = log[n]
  BY <1>0, <1>3 DEF ForkSession, TypeOK
<1>4. \/ \E s \in Session, m \in Chan : CreateSession(s, m)
      \/ \E s \in Session, id \in AnyId, kind \in Kind : Publish(s, id, kind)
      \/ \E parent, s \in Session, m \in Chan : ForkSession(parent, s, m)
      \/ UNCHANGED log
  BY DEF Next, RegistryStep, DeleteSession, Subscribe, TaskStep, ReplayOne, HistoryComplete,
     WriteFails, Forward, Lag, Close, HangUp, Cleanup, Tick, vars, bus, AnyId, Kind, TypeOK
<1>5. log'[n] = log[n] \/ \E ch \in Chunk : log'[n] = Append(log[n], ch)
  BY <1>1, <1>2, <1>3, <1>4
<1>6. CASE log'[n] = log[n]
  BY <1>0, <1>6
<1>7. CASE \E ch \in Chunk : log'[n] = Append(log[n], ch)
  <2> PICK ch \in Chunk : log'[n] = Append(log[n], ch)
    BY <1>7
  <2> QED
    BY <1>0, Appended
<1> QED
  BY <1>5, <1>6, <1>7

LEMMA NextSound ==
    ASSUME IInv, [Next]_vars, NEW i \in SubId, subs'[i].phase # "idle"
    PROVE  Sound(subs'[i], log'[subs'[i].chan])
<1> DEFINE s == subs[i]
           r == subs'[i]
           l == log[s.chan]
<1>1. TypeOK /\ TypeOK'
  BY NextType DEF IInv
<1>2. s \in Sub /\ r \in Sub /\ s.chan \in Chan /\ l \in Seq(Chunk)
  BY <1>1 DEF TypeOK, Sub
<1>3. s.phase # "idle" => Sound(s, l) /\ s.chan \in used
  BY DEF IInv, DeliveryIsExact, PendingIsConsistent, Sound, Allocated
<1>4. ASSUME r = s
      PROVE  Sound(r, log'[r.chan])
  <2>1. Sound(s, l) /\ s.chan \in used
    BY <1>3, <1>4
  <2>2. Len(l) <= Len(log'[s.chan]) /\ \A p \in 1..Len(l) : log'[s.chan][p] = l[p]
    BY <2>1, LogsGrow
  <2>3. log'[s.chan] \in Seq(Chunk)
    BY <1>1, <1>2 DEF TypeOK
  <2> HIDE DEF s, l, r
  <2>4. Sound(s, log'[s.chan])
    BY <1>2, <2>1, <2>2, <2>3, SoundGrows
  <2> QED
    BY <1>4, <2>4
<1>5. ASSUME NEW c \in Conn, NEW x \in Session, Subscribe(c, x, i)
      PROVE  Sound(r, log'[r.chan])
  <2> DEFINE n == current[x]
             old == {e.pos : e \in Unexpired(n)}
             q == [conn |-> c, chan |-> n, phase |-> "replay",
                   history |-> kept[n], retained |-> old,
                   from |-> Len(log[n]), cursor |-> Len(log[n]), at |-> now, got |-> <<>>]
  <2>1. n \in Chan
    BY <1>1, <1>5, NameAssumption DEF Subscribe, Exists, TypeOK
  <2>2. subs' = [subs EXCEPT ![i] = q] /\ log' = log
    BY <1>5 DEF Subscribe
  <2>3. r = q
    BY <1>1, <2>2 DEF TypeOK
  <2> HIDE DEF n, r, old
  <2>4. /\ r.chan = n /\ r.history = kept[n] /\ r.retained = old
        /\ r.from = Len(log[n]) /\ r.cursor = Len(log[n]) /\ r.at = now /\ r.got = <<>>
        /\ r.phase = "replay"
    BY <2>3
  <2>5. Sound(r, log[n])
    BY <1>2, <2>1, <2>4, SoundOpened, Zenon DEF old
  <2> QED
    BY <2>2, <2>4, <2>5
<1>6. ASSUME NEW p \in subs[i].history \cup subs[i].retained, ReplayOne(i, p)
      PROVE  Sound(r, log'[r.chan])
  <2>1. p \in Nat
    BY <1>2 DEF Sub
  <2>2. /\ SameSnapshot(r, s)
        /\ s.phase = "replay" /\ r.phase = "replay"
        /\ r.cursor = s.cursor
        /\ r.got = Append(s.got, p)
        /\ \/ /\ Least(s.history, p)
              /\ r.history = s.history \ {p}
              /\ r.retained = s.retained
           \/ /\ s.history = {}
              /\ Least(s.retained, p)
              /\ r.history = {}
              /\ r.retained = s.retained \ {p}
    BY <1>1, <1>6, <2>1, ReplayFields
  <2>3. log' = log /\ r.chan = s.chan
    BY <1>6, <2>2 DEF ReplayOne, bus, SameSnapshot
  <2>4. Sound(s, l)
    BY <1>3, <2>2
  <2> HIDE DEF s, r, l
  <2>5. Sound(r, l)
    BY <1>2, <2>1, <2>2, <2>4, SoundReplay, Zenon
  <2> QED
    BY <2>3, <2>5 DEF l
<1>7. ASSUME Forward(i)
      PROVE  Sound(r, log'[r.chan])
  <2>1. /\ SameSnapshot(r, s)
        /\ s.phase = "live" /\ r.phase = "live"
        /\ r.cursor = s.cursor + 1
        /\ r.got = Append(s.got, s.cursor + 1)
        /\ r.history = s.history
        /\ r.retained = s.retained
    BY <1>1, <1>7, ForwardFields
  <2>2. log' = log /\ r.chan = s.chan /\ s.cursor < Len(l)
    BY <1>7, <2>1 DEF Forward, bus, SameSnapshot
  <2>3. Sound(s, l)
    BY <1>3, <2>1
  <2> HIDE DEF s, r, l
  <2>4. Sound(r, l)
    BY <1>2, <2>1, <2>2, <2>3, SoundForward, Zenon
  <2> QED
    BY <2>2, <2>4 DEF l
<1>8. ASSUME PhaseStep
      PROVE  Sound(r, log'[r.chan])
  <2>1. /\ SameSnapshot(r, s)
        /\ r.cursor = s.cursor
        /\ r.got = s.got
        /\ r.history = s.history
        /\ r.retained = s.retained
        /\ \/ r.phase = s.phase
           \/ /\ s.phase \in {"replay", "live"}
              /\ r.phase \in {"lagged", "closed", "stopped"}
           \/ /\ s.phase = "replay" /\ r.phase = "live"
              /\ s.history = {} /\ s.retained = {}
    BY <1>1, <1>8, PhaseFields
  <2>2. log' = log /\ r.chan = s.chan
    BY <1>8, <2>1 DEF PhaseStep, HistoryComplete, WriteFails, Lag, Close, Cleanup, bus, SameSnapshot
  <2>3. Sound(s, l)
    BY <1>3, <2>1
  <2>4. \/ r.phase = s.phase
        \/ r.phase \in {"lagged", "closed", "stopped"}
        \/ r.phase = "live" /\ s.history = {} /\ s.retained = {}
    BY <2>1
  <2> HIDE DEF s, r, l
  <2>5. Sound(r, l)
    BY <1>2, <2>1, <2>3, <2>4, SoundPhase, Zenon
  <2> QED
    BY <2>2, <2>5 DEF l
<1>9. \/ r = s
      \/ \E c \in Conn, x \in Session : Subscribe(c, x, i)
      \/ \E p \in subs[i].history \cup subs[i].retained : ReplayOne(i, p)
      \/ Forward(i)
      \/ PhaseStep
  <2>1. ASSUME NEW j \in SubId, j # i,
               \/ \E c \in Conn, x \in Session : Subscribe(c, x, j)
               \/ \E p \in subs[j].history \cup subs[j].retained : ReplayOne(j, p)
               \/ Forward(j)
        PROVE  r = s
    BY <1>1, <2>1 DEF Subscribe, ReplayOne, Forward, TypeOK
  <2>2. \/ \E j \in SubId :
              \/ \E c \in Conn, x \in Session : Subscribe(c, x, j)
              \/ \E p \in subs[j].history \cup subs[j].retained : ReplayOne(j, p)
              \/ Forward(j)
        \/ PhaseStep
        \/ UNCHANGED subs
    BY DEF Next, RegistryStep, CreateSession, Publish, ForkSession, DeleteSession, TaskStep,
       HangUp, Tick, PhaseStep, vars
  <2> QED
    BY <2>1, <2>2
<1> QED
  BY <1>4, <1>5, <1>6, <1>7, <1>8, <1>9

-----------------------------------------------------------------------------
(* The results. *)

\* The inductive invariant: types, allocation, histories, retention, and what each
\* subscription was shown and still has to be shown.
THEOREM Inductive == Spec => []IInv
<1>1. Init => IInv
  BY InitInv
<1>2. IInv /\ [Next]_vars => IInv'
  <2> SUFFICES ASSUME IInv, [Next]_vars PROVE IInv'
    OBVIOUS
  <2>1. TypeOK' /\ Allocated' /\ HistoryIsLog' /\ RetentionIsExact'
    BY NextType, NextAllocated, NextHistory, NextRetention DEF IInv
  <2>2. PendingIsConsistent' /\ DeliveryIsExact'
    BY NextSound DEF PendingIsConsistent, DeliveryIsExact, Sound
  <2> QED
    BY <2>1, <2>2 DEF IInv
<1> QED
  BY <1>1, <1>2, PTL DEF Spec

\* The history SessionState keeps by appends, removals and copies is always the log
\* without its transient and retired chunks.
THEOREM HistoryIsAlwaysLog == Spec => []HistoryIsLog
<1>1. IInv => HistoryIsLog
  BY DEF IInv
<1> QED
  BY <1>1, Inductive, PTL

\* The retained buffer neither extends a chunk's life, nor loses it early, nor
\* brings a retired one back.
THEOREM RetentionIsAlwaysExact == Spec => []RetentionIsExact
<1>1. IInv => RetentionIsExact
  BY DEF IInv
<1> QED
  BY <1>1, Inductive, PTL

\* Whatever is published, retired, forked or deleted between the snapshot of a
\* Subscribe and its forwarding, nothing is lost, repeated or reordered.
THEOREM DeliveryIsAlwaysExact == Spec => []DeliveryIsExact
<1>1. IInv => DeliveryIsExact
  BY DEF IInv
<1> QED
  BY <1>1, Inductive, PTL

-----------------------------------------------------------------------------
(* The bus implements the abstract log: every step of BusSession is a step *)
(* of BusLog, or leaves what BusLog sees.                                  *)

AsReader(s) ==
    [state |-> ReaderState(s.phase), conn |-> s.conn, chan |-> s.chan,
     from |-> s.from, at |-> s.at, got |-> s.got]

Readers == [i \in SubId |-> AsReader(subs[i])]

Deleted == {n \in used : \A s \in Session : current[s] # n}

Left == {c \in Conn : conn[c] # "open"}

\* The two modules read a log the same way.
LEMMA LogReads ==
    ASSUME NEW l, NEW k, NEW t
    PROVE  /\ Log!Replayed(l, k, t) = Replayed(l, k, t)
           /\ \A p, q : Log!Precedes(l, k, p, q) <=> Precedes(l, k, p, q)
<1>1. \A p : Log!Retired(l, p, k) <=> Retired(l, p, k)
  BY DEF Log!Retired, Log!Retires, Retired, Retires
<1>2. Log!Lasting(l, k) = Lasting(l, k) /\ Log!Retainable(l, k, t) = Retainable(l, k, t)
  BY <1>1 DEF Log!Lasting, Log!Retainable, Lasting, Retainable
<1>3. \A p : Log!Class(l, k, p) = Class(l, k, p)
  BY DEF Log!Class, Class
<1> QED
  BY <1>2, <1>3 DEF Log!Replayed, Log!Precedes, Replayed, Precedes

LEMMA LogCounts == \A S : Log!Cardinality(S) = Cardinality(S)
BY DEF Log!Cardinality, Cardinality

\* What the abstract log still owes a subscription: what is pending of its snapshot, and
\* what its channel holds for it.
LEMMA DueIsPending ==
    ASSUME IInv, NEW i \in SubId, subs[i].phase # "idle"
    PROVE  /\ Log!Due(i) = (subs[i].history \cup subs[i].retained)
                               \cup (subs[i].cursor + 1)..Len(log[subs[i].chan])
           /\ Sound(subs[i], log[subs[i].chan])
           /\ subs[i] \in Sub /\ log[subs[i].chan] \in Seq(Chunk)
<1> DEFINE s == subs[i]
           l == log[s.chan]
           k == s.from
           R == Replayed(l, k, s.at)
           todo == s.history \cup s.retained
           shown == {s.got[a] : a \in DOMAIN s.got}
<1>1. s \in Sub /\ l \in Seq(Chunk)
  BY DEF IInv, TypeOK, Sub
<1>2. Sound(s, l)
  BY DEF IInv, DeliveryIsExact, PendingIsConsistent, Sound
<1>3. Log!Due(i) = (R \cup (k + 1)..Len(l)) \ shown
  BY LogReads DEF Log!Due
<1>4. k \in Nat /\ s.cursor \in Nat /\ Len(l) \in Nat
  BY <1>1 DEF Sub
<1>5. k <= s.cursor /\ s.cursor <= Len(l) /\ todo \subseteq R
      /\ shown = (R \ todo) \cup (k + 1)..s.cursor
  BY <1>2 DEF Sound, Exact
<1>6. R \subseteq 1..k
  BY DEF Replayed, Lasting, Retainable
<1> HIDE DEF s, l, k, R, todo, shown
<1>7. ASSUME NEW x
      PROVE  x \in (k + 1)..Len(l) <=> x \in (k + 1)..s.cursor \/ x \in (s.cursor + 1)..Len(l)
  BY <1>4, <1>5
<1>8. ASSUME NEW x \in (s.cursor + 1)..Len(l)
      PROVE  x \notin R /\ x \notin (k + 1)..s.cursor
  BY <1>4, <1>5, <1>6
<1>9. ASSUME NEW x \in todo
      PROVE  x \in R /\ x \notin (k + 1)..s.cursor
  BY <1>4, <1>5, <1>6
<1>10. (R \cup (k + 1)..Len(l)) \ shown = todo \cup (s.cursor + 1)..Len(l)
  BY <1>5, <1>7, <1>8, <1>9
<1> QED
  BY <1>1, <1>2, <1>3, <1>10 DEF s, l, todo

\* The history is replayed oldest first, then the retained chunks, then what is live.
LEMMA FirstIsShown ==
    ASSUME IInv, NEW i \in SubId, NEW p \in Nat, ReplayOne(i, p) \/ (Forward(i) /\ p = subs[i].cursor + 1)
    PROVE  /\ p \in Log!Due(i)
           /\ \A q \in Log!Due(i) \ {p} : Precedes(log[subs[i].chan], subs[i].from, p, q)
<1> DEFINE s == subs[i]
           l == log[s.chan]
           k == s.from
<1>1. s.phase # "idle"
  BY DEF ReplayOne, Forward
<1>2. /\ Log!Due(i) = (s.history \cup s.retained) \cup (s.cursor + 1)..Len(l)
      /\ Sound(s, l) /\ s \in Sub /\ l \in Seq(Chunk)
  BY <1>1, DueIsPending
<1>3. /\ s.history \subseteq 1..k /\ s.retained \subseteq 1..k
      /\ \A q \in s.history : Class(l, k, q) = 1
      /\ \A q \in s.retained : Class(l, k, q) = 2
  BY <1>2, SoundRange
<1>4. k \in Nat /\ s.cursor \in Nat /\ k <= s.cursor /\ Len(l) \in Nat
  BY <1>2 DEF Sub, Sound, Exact
<1>5. \A q \in (s.cursor + 1)..Len(l) : Class(l, k, q) = 3
  BY <1>4 DEF Class
<1>6. CASE ReplayOne(i, p)
  <2>1. \/ Least(s.history, p)
        \/ s.history = {} /\ Least(s.retained, p)
    BY <1>6 DEF ReplayOne
  <2>2. p \in s.history \cup s.retained
    BY <2>1 DEF Least
  <2>3. \A q \in (s.history \cup s.retained) \ {p} : Precedes(l, k, p, q)
    <3> HIDE DEF s, l, k
    <3> QED
      BY <1>3, <1>4, <2>1 DEF Precedes, Least
  <2>4. \A q \in (s.cursor + 1)..Len(l) : Precedes(l, k, p, q)
    <3> HIDE DEF s, l, k
    <3> QED
      BY <1>3, <1>5, <2>2 DEF Precedes
  <2> HIDE DEF s, l, k
  <2>5. p \in Log!Due(i) /\ \A q \in Log!Due(i) \ {p} : Precedes(l, k, p, q)
    BY <1>2, <2>2, <2>3, <2>4
  <2> QED
    BY <2>5 DEF s, l, k
<1>7. CASE Forward(i) /\ p = s.cursor + 1
  <2>1. s.history = {} /\ s.retained = {} /\ s.cursor < Len(l)
    BY <1>2, <1>7 DEF Forward, Sound, Consistent
  <2> HIDE DEF s, l, k
  <2>2. p \in (s.cursor + 1)..Len(l)
    BY <1>4, <1>7, <2>1
  <2>3. \A q \in (s.cursor + 1)..Len(l) : q # p => Precedes(l, k, p, q)
    BY <1>4, <1>5, <1>7, <2>2 DEF Precedes
  <2>4. p \in Log!Due(i) /\ \A q \in Log!Due(i) \ {p} : Precedes(l, k, p, q)
    BY <1>2, <2>1, <2>2, <2>3
  <2> QED
    BY <2>4 DEF s, l, k
<1> QED
  BY <1>6, <1>7

\* The abstract reader of a subscription whose snapshot is unchanged.
LEMMA ReadersOf ==
    ASSUME NEW i \in SubId, SameSnapshot(subs'[i], subs[i]), subs'[i].got = subs[i].got,
           ReaderState(subs'[i].phase) = ReaderState(subs[i].phase)
    PROVE  Readers'[i] = Readers[i]
BY DEF Readers, AsReader, SameSnapshot

LEMMA StepShows ==
    ASSUME IInv, NEW i \in SubId, NEW p \in Nat, ReplayOne(i, p) \/ (Forward(i) /\ p = subs[i].cursor + 1)
    PROVE  Log!Show(i)
<1>1. /\ p \in Log!Due(i)
      /\ \A q \in Log!Due(i) \ {p} : Precedes(log[subs[i].chan], subs[i].from, p, q)
  BY FirstIsShown
<1>2. UNCHANGED <<log, used, current, conn, now>>
  BY DEF ReplayOne, Forward, bus
<1>3. /\ SameSnapshot(subs'[i], subs[i])
      /\ subs[i].phase \in {"replay", "live"} /\ subs'[i].phase = subs[i].phase
      /\ subs'[i].got = Append(subs[i].got, p)
      /\ \A j \in SubId \ {i} : subs'[j] = subs[j]
  BY ReplayFields, ForwardFields DEF IInv
<1>4. Readers[i].state = "open" /\ Readers[i].chan = subs[i].chan /\ Readers[i].from = subs[i].from
  BY <1>3 DEF Readers, AsReader, ReaderState
<1>5. Readers' = [Readers EXCEPT ![i].got = Append(@, p)]
  <2>1. AsReader(subs[i]).got = subs[i].got
    BY DEF AsReader
  <2>2. AsReader(subs'[i]) = [AsReader(subs[i]) EXCEPT !.got = Append(subs[i].got, p)]
    <3>1. AsReader(subs'[i]) =
              [state |-> ReaderState(subs[i].phase), conn |-> subs[i].conn, chan |-> subs[i].chan,
               from |-> subs[i].from, at |-> subs[i].at, got |-> Append(subs[i].got, p)]
      BY <1>3, Zenon DEF AsReader, SameSnapshot
    <3> QED
      BY <3>1 DEF AsReader
  <2>3. \A j \in SubId \ {i} : AsReader(subs'[j]) = AsReader(subs[j])
    BY <1>3
  <2> HIDE DEF AsReader
  <2> QED
    BY <2>1, <2>2, <2>3 DEF Readers
<1>6. UNCHANGED <<Deleted, Left>>
  BY <1>2 DEF Deleted, Left
<1>7. Log!Show(i) <=>
        /\ Readers[i].state = "open"
        /\ \E x \in Log!Due(i) :
              /\ \A q \in Log!Due(i) \ {x} : Log!Precedes(log[Readers[i].chan], Readers[i].from, x, q)
              /\ Readers' = [Readers EXCEPT ![i].got = Append(@, x)]
        /\ UNCHANGED <<log, Deleted, Left, now>>
  BY DEF Log!Show, Readers, AsReader, Deleted, Left
<1>8. \A q \in Log!Due(i) \ {p} : Log!Precedes(log[Readers[i].chan], Readers[i].from, p, q)
  BY <1>1, <1>4, LogReads
<1> QED
  BY <1>1, <1>2, <1>4, <1>5, <1>6, <1>7, <1>8

\* A step that moves neither a subscription nor a session's end is a step of the world.
LEMMA WorldMoves ==
    ASSUME UNCHANGED subs, Deleted \subseteq Deleted', Left \subseteq Left', now <= now',
           \A n \in Chan : /\ Len(log[n]) <= Len(log'[n])
                           /\ \A p \in DOMAIN log[n] : log'[n][p] = log[n][p]
                           /\ n \in Deleted => log'[n] = log[n]
    PROVE  Log!World
BY DEF Log!World, Deleted, Left

LEMMA RegistryImplements ==
    ASSUME IInv, RegistryStep
    PROVE  Log!Next
<1>1. TypeOK
  BY DEF IInv
<1>2. PICK s \in Session :
        \/ \E n \in Chan : CreateSession(s, n)
        \/ \E id \in AnyId, kind \in Kind : Publish(s, id, kind)
        \/ \E parent \in Session, n \in Chan : ForkSession(parent, s, n)
        \/ DeleteSession(s)
        \/ \E c \in Conn, i \in SubId : Subscribe(c, s, i)
  BY <1>1 DEF RegistryStep, AnyId, Kind, TypeOK
<1>3. /\ now \in Nat /\ used \subseteq Chan /\ current \in [Session -> Chan \cup {None}]
      /\ log \in [Chan -> Seq(Chunk)] /\ now <= now
  BY <1>1 DEF TypeOK
<1>4. \A n \in Chan : Len(log[n]) <= Len(log[n]) /\ DOMAIN log[n] = 1..Len(log[n])
                      /\ Len(log[n]) \in Nat
  BY <1>3
\* A new incarnation has no log, and its session names no deleted one.
<1>5. ASSUME NEW n \in Chan, n \notin used, ~Exists(s), current' = [current EXCEPT ![s] = n],
             used' = used \cup {n}, UNCHANGED <<now, conn, subs>>,
             \/ log' = log
             \/ \E l \in Seq(Chunk) : log' = [log EXCEPT ![n] = l]
      PROVE  Log!World
  <2>1. Deleted \subseteq Deleted'
    <3>1. ASSUME NEW m \in Deleted
          PROVE  m \in used' /\ \A x \in Session : current'[x] # m
      BY <1>3, <1>5, <3>1 DEF Deleted
    <3> QED
      BY <3>1 DEF Deleted
  <2>2. Left \subseteq Left'
    BY <1>5 DEF Left
  <2>3. log[n] = <<>>
    BY <1>5 DEF IInv, Allocated
  <2>4. \A m \in Chan : m # n => log'[m] = log[m]
    BY <1>3, <1>5
  <2>5. Len(log[n]) <= Len(log'[n]) /\ DOMAIN log[n] = {}
    <3>1. log'[n] \in Seq(Chunk)
      BY <1>3, <1>5
    <3>2. Len(log'[n]) \in Nat
      BY <3>1
    <3> QED
      BY <2>3, <3>2
  <2>6. n \notin Deleted
    BY <1>5 DEF Deleted
  <2>7. now <= now'
    BY <1>3, <1>5
  <2>8. \A m \in Chan : /\ Len(log[m]) <= Len(log'[m])
                        /\ \A p \in DOMAIN log[m] : log'[m][p] = log[m][p]
                        /\ m \in Deleted => log'[m] = log[m]
    BY <1>4, <2>4, <2>5, <2>6
  <2> QED
    BY <1>5, <2>1, <2>2, <2>7, <2>8, WorldMoves
<1>6. ASSUME NEW n \in Chan, CreateSession(s, n)
      PROVE  Log!World
  <2>1. <<BusChunk(n)>> \in Seq(Chunk)
    <3>1. BusChunk(n) \in Chunk
      BY DEF BusChunk, Chunk, AnyId, Kind
    <3> QED
      BY <3>1
  <2> QED
    BY <1>5, <1>6, <2>1 DEF CreateSession
<1>7. ASSUME NEW parent \in Session, NEW n \in Chan, ForkSession(parent, s, n)
      PROVE  Log!World
  <2>1. current[parent] \in Chan
    BY <1>3, <1>7, NameAssumption DEF ForkSession, Exists
  <2>2. BusChunk(n) \in Chunk
    BY DEF BusChunk, Chunk, AnyId, Kind
  <2>3. Append(log[current[parent]], BusChunk(n)) \in Seq(Chunk)
    BY <1>3, <2>1, <2>2
  <2> QED
    BY <1>5, <1>7, <2>3 DEF ForkSession
<1>8. ASSUME NEW id \in AnyId, NEW kind \in Kind, Publish(s, id, kind)
      PROVE  Log!World
  <2> DEFINE n == current[s]
             ch == [id |-> id, kind |-> kind,
                    until |-> IF kind = "retained" THEN now + Retain ELSE 0]
  <2>1. n \in Chan /\ ch \in Chunk
    BY <1>3, <1>8, NameAssumption, BoundsAssumption DEF Publish, Exists, Chunk
  <2>2. log' = [log EXCEPT ![n] = Append(@, ch)] /\ UNCHANGED <<now, used, current, conn, subs>>
    BY <1>8 DEF Publish
  <2>3. n \notin Deleted
    BY DEF Deleted
  <2> HIDE DEF n, ch
  <2>4. log'[n] = Append(log[n], ch) /\ \A m \in Chan : m # n => log'[m] = log[m]
    BY <1>3, <2>1, <2>2
  <2>5. Len(log[n]) <= Len(log'[n]) /\ \A p \in DOMAIN log[n] : log'[n][p] = log[n][p]
    BY <1>3, <1>4, <2>1, <2>4, Appended
  <2>6. \A m \in Chan : /\ Len(log[m]) <= Len(log'[m])
                        /\ \A p \in DOMAIN log[m] : log'[m][p] = log[m][p]
                        /\ m \in Deleted => log'[m] = log[m]
    BY <1>4, <2>3, <2>4, <2>5
  <2>7. Deleted' = Deleted /\ Left' = Left /\ now <= now'
    BY <1>3, <2>2 DEF Deleted, Left
  <2> QED
    BY <2>2, <2>6, <2>7, WorldMoves
<1>9. ASSUME DeleteSession(s)
      PROVE  Log!World
  <2>1. UNCHANGED <<now, used, log, conn, subs>> /\ current' = [current EXCEPT ![s] = None]
    BY <1>9 DEF DeleteSession
  <2>2. Deleted \subseteq Deleted' /\ Left' = Left
    <3>1. ASSUME NEW m \in Deleted
          PROVE  m \in used' /\ \A x \in Session : current'[x] # m
      BY <1>3, <2>1, <3>1, NameAssumption DEF Deleted
    <3> QED
      BY <2>1, <3>1 DEF Deleted, Left
  <2> QED
    BY <1>3, <1>4, <2>1, <2>2, WorldMoves
<1>10. ASSUME NEW c \in Conn, NEW i \in SubId, NEW n \in Chan, n = current[s], Subscribe(c, s, i)
       PROVE  Log!Next
  <2> DEFINE q == [conn |-> c, chan |-> n, phase |-> "replay",
                   history |-> kept[n], retained |-> {e.pos : e \in Unexpired(n)},
                   from |-> Len(log[n]), cursor |-> Len(log[n]), at |-> now, got |-> <<>>]
             r == [state |-> "open", conn |-> c, chan |-> n, from |-> Len(log[n]),
                   at |-> now, got |-> <<>>]
  <2>1. subs' = [subs EXCEPT ![i] = q] /\ subs[i].phase = "idle"
        /\ UNCHANGED <<log, used, current, conn, now>>
    BY <1>10 DEF Subscribe
  <2>2. AsReader(q) = r
    BY DEF AsReader, ReaderState
  <2>3. n \notin Deleted
    BY <1>10 DEF Deleted
  <2> HIDE DEF q
  <2>4. Readers' = [Readers EXCEPT ![i] = r]
    <3>1. subs'[i] = q /\ \A j \in SubId \ {i} : subs'[j] = subs[j]
      BY <1>1, <2>1 DEF TypeOK
    <3> HIDE DEF r, AsReader
    <3> QED
      BY <2>2, <3>1 DEF Readers
  <2>5. Readers[i].state = "idle"
    BY <2>1 DEF Readers, AsReader, ReaderState
  <2>6. UNCHANGED <<log, Deleted, Left, now>>
    BY <2>1 DEF Deleted, Left
  <2>7. Log!Open(i, c, n) <=>
          /\ Readers[i].state = "idle"
          /\ n \notin Deleted
          /\ Readers' = [Readers EXCEPT ![i] = r]
          /\ UNCHANGED <<log, Deleted, Left, now>>
    BY DEF Log!Open, Readers, AsReader, Deleted, Left
  <2>8. Log!Open(i, c, n)
    BY <2>3, <2>4, <2>5, <2>6, <2>7
  <2> QED
    BY <2>8, Zenon DEF Log!Next
<1>11. ASSUME NEW c \in Conn, NEW i \in SubId, Subscribe(c, s, i)
       PROVE  Log!Next
  <2>1. current[s] \in Chan
    BY <1>3, <1>11, NameAssumption DEF Subscribe, Exists
  <2> QED
    BY <1>10, <1>11, <2>1
<1>12. Log!World => Log!Next
  BY DEF Log!Next
<1> QED
  BY <1>2, <1>6, <1>7, <1>8, <1>9, <1>11, <1>12

\* A subscription ends for one of the three reasons of the abstract log.
LEMMA StepEnds ==
    ASSUME IInv, NEW i \in SubId, WriteFails(i) \/ Lag(i) \/ Close(i)
    PROVE  Log!End(i)
<1> DEFINE s == subs[i]
           l == log[s.chan]
<1>1. s.phase \in {"replay", "live"} /\ UNCHANGED <<log, used, current, conn, now>>
  BY DEF WriteFails, Lag, Close, bus
<1>2. /\ Log!Due(i) = (s.history \cup s.retained) \cup (s.cursor + 1)..Len(l)
      /\ Sound(s, l) /\ s \in Sub /\ l \in Seq(Chunk)
  BY <1>1, DueIsPending
<1>3. s.cursor \in Nat /\ Len(l) \in Nat /\ s.conn \in Conn /\ s.chan \in used
  BY <1>1, <1>2 DEF Sub, IInv, Allocated
<1>4. s.phase = "live" => Log!Due(i) = (s.cursor + 1)..Len(l)
  BY <1>2 DEF Sound, Consistent
<1>5. \/ s.conn \in Left
      \/ Cardinality(Log!Due(i)) > Cap
      \/ s.chan \in Deleted /\ Log!Due(i) = {}
  <2>1. CASE WriteFails(i)
    BY <1>3, <2>1 DEF WriteFails, Left
  <2>2. CASE Lag(i)
    <3>1. Len(l) - s.cursor > Cap /\ s.phase = "live"
      BY <2>2 DEF Lag, Overrun
    <3>2. Cardinality((s.cursor + 1)..Len(l)) = Len(l) - s.cursor
      <4> HIDE DEF s, l
      <4>1. s.cursor + 1 \in Int /\ Len(l) \in Int /\ ~(s.cursor + 1 > Len(l))
        BY <1>3, <3>1, CapAssumption
      <4>2. Cardinality((s.cursor + 1)..Len(l)) = Len(l) - (s.cursor + 1) + 1
        BY <4>1, FS_Interval
      <4> QED
        BY <1>3, <4>2
    <3> HIDE DEF s, l
    <3> QED
      BY <1>4, <3>1, <3>2
  <2>3. CASE Close(i)
    <3>1. s.phase = "live" /\ s.cursor = Len(l) /\ \A x \in Session : current[x] # s.chan
      BY <2>3 DEF Close
    <3>2. s.chan \in Deleted
      BY <1>3, <3>1 DEF Deleted
    <3> HIDE DEF s, l
    <3>3. Log!Due(i) = {}
      BY <1>3, <1>4, <3>1
    <3> QED
      BY <3>2, <3>3
  <2> QED
    BY <2>1, <2>2, <2>3
<1>6. PICK phase \in {"lagged", "closed", "stopped"} : subs' = [subs EXCEPT ![i].phase = phase]
  BY DEF WriteFails, Lag, Close
<1>7. /\ subs'[i] = [s EXCEPT !.phase = phase] /\ \A j \in SubId \ {i} : subs'[j] = subs[j]
  BY <1>6 DEF IInv, TypeOK
<1>8. AsReader(subs'[i]) = [AsReader(s) EXCEPT !.state = "ended"]
  <2>1. /\ subs'[i].phase = phase /\ subs'[i].conn = s.conn /\ subs'[i].chan = s.chan
        /\ subs'[i].from = s.from /\ subs'[i].at = s.at /\ subs'[i].got = s.got
    BY <1>2, <1>7 DEF Sub
  <2>2. ReaderState(phase) = "ended"
    BY DEF ReaderState
  <2>3. AsReader(subs'[i]) =
            [state |-> "ended", conn |-> s.conn, chan |-> s.chan,
             from |-> s.from, at |-> s.at, got |-> s.got]
    BY <2>1, <2>2 DEF AsReader
  <2> HIDE DEF s
  <2> QED
    BY <2>3 DEF AsReader
<1>9. Readers' = [Readers EXCEPT ![i].state = "ended"]
  <2>1. \A j \in SubId \ {i} : AsReader(subs'[j]) = AsReader(subs[j])
    BY <1>7
  <2> HIDE DEF AsReader
  <2> QED
    BY <1>8, <2>1 DEF Readers
<1>10. Readers[i].state = "open" /\ Readers[i].conn = s.conn /\ Readers[i].chan = s.chan
  BY <1>1 DEF Readers, AsReader, ReaderState
<1>11. UNCHANGED <<log, Deleted, Left, now>>
  BY <1>1 DEF Deleted, Left
<1>12. Log!End(i) <=>
          /\ Readers[i].state = "open"
          /\ \/ Readers[i].conn \in Left
             \/ Cardinality(Log!Due(i)) > Cap
             \/ Readers[i].chan \in Deleted /\ Log!Due(i) = {}
          /\ Readers' = [Readers EXCEPT ![i].state = "ended"]
          /\ UNCHANGED <<log, Deleted, Left, now>>
  BY LogCounts DEF Log!End, Readers, AsReader, Deleted, Left
<1> QED
  BY <1>5, <1>9, <1>10, <1>11, <1>12

\* The forwarders of a connection end together.
LEMMA CleanupEnds ==
    ASSUME IInv, NEW c \in Conn, Cleanup(c)
    PROVE  Log!EndConnection(c)
<1>1. /\ conn[c] = "hungup" /\ conn' = [conn EXCEPT ![c] = "gone"]
      /\ \A i \in SubId : subs[i].phase = "replay" => subs[i].conn # c
      /\ subs' = [i \in SubId |->
            IF subs[i].phase = "live" /\ subs[i].conn = c
            THEN [subs[i] EXCEPT !.phase = "stopped"] ELSE subs[i]]
      /\ UNCHANGED <<log, used, current, now>>
  BY DEF Cleanup, bus
<1>2. c \in Left /\ UNCHANGED <<log, Deleted, Left, now>>
  BY <1>1 DEF Left, Deleted, IInv, TypeOK
<1>3. ASSUME NEW i \in SubId
      PROVE  AsReader(subs'[i]) =
                IF Readers[i].conn = c /\ Readers[i].state = "open"
                THEN [Readers[i] EXCEPT !.state = "ended"] ELSE Readers[i]
  <2>1. subs[i] \in Sub /\ Readers[i] = AsReader(subs[i])
    BY DEF IInv, TypeOK, Readers
  <2>2. Readers[i].conn = subs[i].conn /\ (Readers[i].state = "open" <=> subs[i].phase \in {"replay", "live"})
    BY <2>1 DEF AsReader, ReaderState
  <2>3. CASE subs[i].phase = "live" /\ subs[i].conn = c
    <3>1. subs'[i] = [subs[i] EXCEPT !.phase = "stopped"]
      BY <1>1, <2>3
    <3>2. /\ subs'[i].phase = "stopped" /\ subs'[i].conn = subs[i].conn /\ subs'[i].chan = subs[i].chan
          /\ subs'[i].from = subs[i].from /\ subs'[i].at = subs[i].at /\ subs'[i].got = subs[i].got
      BY <2>1, <3>1 DEF Sub
    <3>3. ReaderState("stopped") = "ended"
      BY DEF ReaderState
    <3>4. AsReader(subs'[i]) =
              [state |-> "ended", conn |-> subs[i].conn, chan |-> subs[i].chan,
               from |-> subs[i].from, at |-> subs[i].at, got |-> subs[i].got]
      BY <3>2, <3>3 DEF AsReader
    <3>5. AsReader(subs'[i]) = [AsReader(subs[i]) EXCEPT !.state = "ended"]
      BY <3>4 DEF AsReader
    <3> QED
      BY <2>1, <2>2, <2>3, <3>5
  <2>4. CASE ~(subs[i].phase = "live" /\ subs[i].conn = c)
    <3>1. subs'[i] = subs[i]
      BY <1>1, <2>4
    <3> QED
      BY <1>1, <2>1, <2>2, <2>4, <3>1
  <2> QED
    BY <2>3, <2>4
<1>4. Readers' = [i \in SubId |->
                    IF Readers[i].conn = c /\ Readers[i].state = "open"
                    THEN [Readers[i] EXCEPT !.state = "ended"] ELSE Readers[i]]
  <2> HIDE DEF AsReader
  <2>1. Readers' = [i \in SubId |-> AsReader(subs'[i])]
    BY DEF Readers
  <2> QED
    BY <1>3, <2>1, Zenon
<1>5. Log!EndConnection(c) <=>
          /\ c \in Left
          /\ Readers' = [i \in SubId |->
                IF Readers[i].conn = c /\ Readers[i].state = "open"
                THEN [Readers[i] EXCEPT !.state = "ended"] ELSE Readers[i]]
          /\ UNCHANGED <<log, Deleted, Left, now>>
  BY DEF Log!EndConnection, Readers, AsReader, Deleted, Left
<1> QED
  BY <1>2, <1>4, <1>5

LEMMA InitImplements == Init => Log!Init
<1> SUFFICES ASSUME Init PROVE Log!Init
  OBVIOUS
<1>1. /\ log = [n \in Chan |-> <<>>] /\ Deleted = {} /\ Left = {}
      /\ subs = [i \in SubId |-> Idle]
  BY DEF Init, Deleted, Left
<1>2. AsReader(Idle) \in {r \in Log!Reader : r.state = "idle"}
  <2>1. (CHOOSE c \in Conn : TRUE) \in Conn /\ (CHOOSE n \in Chan : TRUE) \in Chan
    BY NameAssumption
  <2> QED
    BY <2>1 DEF AsReader, Idle, ReaderState, Log!Reader
<1>3. Readers \in [SubId -> {r \in Log!Reader : r.state = "idle"}]
  <2> HIDE DEF AsReader
  <2> QED
    BY <1>1, <1>2 DEF Readers
<1>4. Log!Init <=>
          /\ log = [n \in Chan |-> <<>>]
          /\ Deleted = {} /\ Left = {}
          /\ Readers \in [SubId -> {r \in Log!Reader : r.state = "idle"}]
  BY DEF Log!Init, Readers, AsReader, Deleted, Left
<1> QED
  BY <1>1, <1>3, <1>4

LEMMA NextImplements ==
    ASSUME IInv, [Next]_vars
    PROVE  [Log!Next]_(Log!vars)
<1>1. CASE RegistryStep
  BY <1>1, RegistryImplements
<1>2. ASSUME NEW i \in SubId, TaskStep(i)
      PROVE  Log!Show(i) \/ Log!End(i) \/ UNCHANGED Log!vars
  <2>1. ASSUME NEW p \in subs[i].history \cup subs[i].retained, ReplayOne(i, p)
        PROVE  Log!Show(i)
    <3>1. p \in Nat
      BY DEF IInv, TypeOK, Sub
    <3> QED
      BY <2>1, <3>1, StepShows
  <2>2. CASE Forward(i)
    <3>1. subs[i].cursor + 1 \in Nat
      BY DEF IInv, TypeOK, Sub
    <3> QED
      BY <2>2, <3>1, StepShows
  <2>3. CASE HistoryComplete(i)
    <3>1. subs' = [subs EXCEPT ![i].phase = "live"] /\ subs[i].phase = "replay"
          /\ UNCHANGED <<log, used, current, conn, now>>
      BY <2>3 DEF HistoryComplete, bus
    <3>2. subs'[i] = [subs[i] EXCEPT !.phase = "live"] /\ subs[i] \in Sub
          /\ \A j \in SubId \ {i} : subs'[j] = subs[j]
      BY <3>1 DEF IInv, TypeOK
    <3>3. AsReader(subs'[i]) = AsReader(subs[i])
      BY <3>1, <3>2 DEF AsReader, ReaderState, Sub
    <3>4. UNCHANGED Readers
      <4> HIDE DEF AsReader
      <4>1. \A j \in SubId : AsReader(subs'[j]) = AsReader(subs[j])
        BY <3>2, <3>3
      <4> QED
        BY <4>1 DEF Readers
    <3>5. UNCHANGED <<log, Deleted, Left, now, Readers>>
      BY <3>1, <3>4 DEF Deleted, Left
    <3> QED
      BY <3>5 DEF Log!vars, Readers, AsReader, Deleted, Left
  <2> QED
    BY <1>2, <2>1, <2>2, <2>3, StepEnds DEF TaskStep
<1>3. ASSUME NEW c \in Conn, HangUp(c)
      PROVE  Log!World
  <2>1. UNCHANGED <<now, used, current, log, subs>> /\ conn' = [conn EXCEPT ![c] = "hungup"]
        /\ now \in Nat /\ conn \in [Conn -> {"open", "hungup", "gone"}] /\ log \in [Chan -> Seq(Chunk)]
    BY <1>3 DEF HangUp, bus, IInv, TypeOK
  <2>2. Deleted' = Deleted /\ Left \subseteq Left' /\ now <= now'
    BY <2>1 DEF Deleted, Left
  <2>3. \A n \in Chan : Len(log[n]) <= Len(log'[n])
    BY <2>1
  <2> QED
    BY <2>1, <2>2, <2>3, WorldMoves
<1>4. ASSUME Tick
      PROVE  Log!World
  <2>1. UNCHANGED <<used, current, log, subs, conn>> /\ now' = now + 1
        /\ now \in Nat /\ log \in [Chan -> Seq(Chunk)]
    BY <1>4 DEF Tick, bus, IInv, TypeOK
  <2>2. Deleted \subseteq Deleted' /\ Left \subseteq Left'
    BY <2>1 DEF Deleted, Left
  <2>3. now <= now' /\ \A n \in Chan : Len(log[n]) <= Len(log'[n]) /\ log'[n] = log[n]
    BY <2>1
  <2> QED
    BY <2>1, <2>2, <2>3, WorldMoves
<1>5. CASE UNCHANGED vars
  BY <1>5 DEF vars, Log!vars
<1>6. /\ Log!World => Log!Next
      /\ \A i \in SubId : Log!Show(i) \/ Log!End(i) => Log!Next
      /\ \A c \in Conn : Log!EndConnection(c) => Log!Next
  BY Zenon DEF Log!Next
<1> QED
  BY <1>1, <1>2, <1>3, <1>4, <1>5, <1>6, CleanupEnds DEF Next

\* The registry, the channels and the tasks of the bus do what the abstract log does: a
\* subscriber is shown what replays from the log as it was, and then all that follows, until
\* its client leaves, it lags, or the session is deleted and everything was shown.
THEOREM BusImplementsLog == Spec => ImplementsLog
<1>1. Init => Log!Init
  BY InitImplements
<1>2. IInv /\ [Next]_vars => [Log!Next]_(Log!vars)
  BY NextImplements
<1> QED
  BY <1>1, <1>2, Inductive, PTL DEF Spec, ImplementsLog, Log!Spec

=============================================================================
