------------------------- MODULE ConversationProofs -------------------------
(***************************************************************************)
(* Proofs about what a conversation passes through: the client that shows  *)
(* it (TuiClient), what a model is sent of it (LlmContext), and the byte   *)
(* streams in which the answers come (WireReaders), for every number of    *)
(* messages, sessions, broken streams and frames, and every history,       *)
(* budget and configuration.                                               *)
(* A token on the screen is there because of a stream that has it behind   *)
(* it and its tombstone before it; in the log of a session the tombstone   *)
(* of a token stands before the next completion, so no stream ends in      *)
(* between.  The messages of a request are notices and what the budgets    *)
(* left of a conversation whose text is that of the history.  The buffer   *)
(* of a reader and the wire hold the bytes of the frames its caller has    *)
(* not been given, from the beginning of one.                              *)
(***************************************************************************)
EXTENDS TuiClient, LlmContext, WireReaders, SelectionProofs

-----------------------------------------------------------------------------
(* TuiClient *)

\* The chunks of a session.
TuiChunks == [kind : {"user", "piece", "text", "tombstone", "done", "error"}, id : Nat]

\* What is known of a task of stream_chat.
Streams == [room : Nat, step : {"posted", "listening", "over", "cut"}, taken : BOOLEAN, pos : Nat]

\* The types, and that a stream is within its session.
TuiTyped ==
    /\ rooms \in Seq(Seq(TuiChunks))
    /\ todo \in Seq(Seq(Seq(TuiChunks))) /\ Len(todo) = Len(rooms)
    /\ unanswered \in Seq(Seq(Nat)) /\ Len(unanswered) = Len(rooms)
    /\ open \in Seq(Nat) /\ ToSet(open) \subseteq 1..Len(rooms)
    /\ active \in 0..Len(rooms)
    /\ streams \in Seq(Streams)
    /\ \A k \in 1..Len(streams) : /\ streams[k].room \in 1..Len(rooms)
                                  /\ streams[k].pos <= Len(rooms[streams[k].room])
    /\ screen \subseteq TuiChunks

\* What is left of an answer once its token is out.
Rest(id) == << <<Shown("text", id), Shown("tombstone", id), Shown("done", id)>> >>

TodoFits(s) == \/ todo[s] = <<>>
               \/ \E id \in Nat : todo[s] = Rest(id) \/ todo[s] \in Answers(id)

\* The tombstone of the token at place i comes before anything completes.
Swept(log, i) ==
    \E t \in i + 1..Len(log) :
        log[t] = Shown("tombstone", log[i].id) /\ \A c \in i..t : ~Completes(log[c])

\* Nothing completes after place i.
Open(log, i) == \A c \in i..Len(log) : ~Completes(log[c])

\* The answers whose tombstone is still due, or never comes as the session is gone.
Due(s) == {id \in Nat : todo[s] = Rest(id) \/ ~Exists(s)}

\* Every token was swept away, or will be if the session lives; until then nothing completes.
PiecesAreSwept(log, due) ==
    \A i \in 1..Len(log) : log[i].kind = "piece" =>
        Swept(log, i) \/ (Open(log, i) /\ log[i].id \in due)

RoomsAreSwept == \A s \in 1..Len(rooms) : TodoFits(s) /\ PiecesAreSwept(rooms[s], Due(s))

\* Stream k has token m behind it and not its tombstone.
Sweeps(k, m) ==
    \/ streams[k].step = "cut"
    \/ /\ streams[k].step = "listening"
       /\ \E i \in 1..streams[k].pos :
             /\ rooms[streams[k].room][i] = m
             /\ \A t \in i + 1..streams[k].pos :
                   rooms[streams[k].room][t] # Shown("tombstone", m.id)

\* The screen owes its tokens, and its mark, to streams that go on or were cut.
ScreenIsSwept ==
    /\ \A m \in screen : m.kind = "piece" => \E k \in 1..Len(streams) : Sweeps(k, m)
    /\ streaming => \E k \in 1..Len(streams) : streams[k].step # "over"

\* The invariant.
TuiIInv ==
    /\ TuiTyped
    /\ RoomsAreSwept
    /\ ScreenIsSwept

-----------------------------------------------------------------------------

\* The durable chunks of a session hold no token.
LEMMA HistoryIs ==
  ASSUME TuiTyped, NEW s \in 1..Len(rooms)
  PROVE  /\ History(s) \in Seq(TuiChunks)
         /\ \A i \in 1..Len(History(s)) : History(s)[i].kind # "piece"
<1>1. CASE ~Exists(s)
  BY <1>1 DEF History
<1>2. CASE Exists(s)
  <2>1. PICK log \in Seq(TuiChunks) : log = rooms[s]
    BY DEF TuiTyped
  <2>2. PICK keep \in SUBSET (1..Len(log)) : keep = {n \in 1..Len(log) : ~Transient(log[n])}
    OBVIOUS
  <2>3. PICK f : f = Selected(log, keep)
    OBVIOUS
  <2>4. History(s) = f
    BY <1>2, <2>1, <2>2, <2>3 DEF History
  <2>5. Chosen(log, keep, Len(log), f)
    BY <2>3, Selection
  <2>6. /\ f \in Seq({log[k] : k \in 1..Len(log)})
        /\ \E at \in [1..Len(f) -> keep \cap 1..Len(log)] : \A i \in 1..Len(f) : f[i] = log[at[i]]
    BY <2>5, Zenon DEF Chosen
  <2>7. \A i \in 1..Len(f) : \E k \in keep : f[i] = log[k]
    BY <2>6
  <2>8. \A i \in 1..Len(f) : f[i].kind # "piece"
    BY <2>2, <2>7 DEF Transient
  <2>9. {log[k] : k \in 1..Len(log)} \subseteq TuiChunks
    OBVIOUS
  <2>10. f \in Seq(TuiChunks)
    <3>1. PICK S : S = {log[k] : k \in 1..Len(log)}
      OBVIOUS
    <3>2. f \in Seq(S) /\ S \subseteq TuiChunks
      BY <2>6, <2>9, <3>1, Zenon
    <3> QED BY <3>2
  <2> QED BY <2>4, <2>8, <2>10
<1> QED BY <1>1, <1>2

\* So what is loaded on the screen holds none.
LEMMA LoadedIs ==
  ASSUME TuiTyped, NEW s \in 1..Len(rooms), NEW all
  PROVE  Loaded(s, all) \subseteq TuiChunks /\ \A m \in Loaded(s, all) : m.kind # "piece"
<1>1. PICK h \in Seq(TuiChunks) : h = History(s) /\ \A i \in 1..Len(h) : h[i].kind # "piece"
  BY HistoryIs
<1>2. \A m \in ToSet(h) : m \in TuiChunks /\ m.kind # "piece"
  BY <1>1 DEF ToSet
<1>3. Loaded(s, all) \subseteq ToSet(h)
  BY <1>1, Zenon DEF Loaded
<1> QED BY <1>2, <1>3

\* The list of sessions without the one that is deleted.
LEMMA RemovedIs ==
  ASSUME NEW q \in Seq(Nat), NEW e
  PROVE  RemoveFirst(q, e) \in Seq(Nat) /\ ToSet(RemoveFirst(q, e)) \subseteq ToSet(q)
<1> DEFINE I == {i \in 1..Len(q) : q[i] = e}
<1>1. CASE \E i \in 1..Len(q) : q[i] = e
  <2>1. PICK n : n = IF I # {} THEN Min(I) ELSE 0
    OBVIOUS
  <2>2. RemoveFirst(q, e) = SubSeq(q, 1, n - 1) \o SubSeq(q, n + 1, Len(q))
    BY <1>1, <2>1 DEF RemoveFirst, RemoveAt, SelectInSeq
  <2>3. n \in I
    <3>1. I # {} /\ I \subseteq Nat
      BY <1>1
    <3> HIDE DEF I
    <3>2. PICK m \in I : \A k \in I : m <= k
      BY <3>1, Least
    <3>3. Min(I) \in I
      BY <3>1, <3>2 DEF Min
    <3> QED BY <2>1, <3>1, <3>3
  <2>4. n \in 1..Len(q)
    BY <2>3
  <2>5. PICK a, b : a = SubSeq(q, 1, n - 1) /\ b = SubSeq(q, n + 1, Len(q))
    OBVIOUS
  <2>6. /\ a \in Seq(Nat) /\ Len(a) = n - 1 /\ \A i \in 1..Len(a) : a[i] = q[i]
        /\ b \in Seq(Nat) /\ Len(b) = Len(q) - n /\ \A i \in 1..Len(b) : b[i] = q[n + i]
    BY <2>4, <2>5, SMTT(60)
  <2>7. a \o b \in Seq(Nat) /\ \A i \in 1..Len(a \o b) : \E k \in 1..Len(q) : (a \o b)[i] = q[k]
    <3>1. ASSUME NEW i \in 1..Len(a \o b) PROVE \E k \in 1..Len(q) : (a \o b)[i] = q[k]
      <4>1. CASE i <= Len(a)
        <5>1. i \in 1..Len(a) /\ (a \o b)[i] = a[i]
          BY <2>6, <4>1
        <5>2. i \in 1..Len(q)
          BY <2>4, <2>6, <5>1
        <5> QED BY <2>6, <5>1, <5>2
      <4>2. CASE i > Len(a)
        <5>1. i - Len(a) \in 1..Len(b) /\ (a \o b)[i] = b[i - Len(a)]
          BY <2>6, <4>2
        <5>2. n + (i - Len(a)) \in 1..Len(q)
          BY <2>4, <2>6, <5>1
        <5> QED BY <2>6, <5>1, <5>2
      <4> QED BY <2>6, <4>1, <4>2
    <3> QED BY <2>6, <3>1
  <2>8. PICK r : r = RemoveFirst(q, e)
    OBVIOUS
  <2>9. r \in Seq(Nat) /\ \A i \in 1..Len(r) : \E k \in 1..Len(q) : r[i] = q[k]
    BY <2>2, <2>5, <2>7, <2>8, ZenonT(60)
  <2>10. ToSet(r) \subseteq ToSet(q)
    BY <2>9, SMTT(60) DEF ToSet
  <2> QED BY <2>8, <2>9, <2>10
<1>2. CASE ~(\E i \in 1..Len(q) : q[i] = e)
  BY <1>2 DEF RemoveFirst
<1> QED BY <1>1, <1>2


-----------------------------------------------------------------------------

\* Where the elements of a concatenation come from.
LEMMA Concats ==
  ASSUME NEW S, NEW p \in Seq(S), NEW q \in Seq(S), NEW r, r = p \o q
  PROVE  /\ r \in Seq(S) /\ Len(r) = Len(p) + Len(q)
         /\ \A j \in 1..Len(p) : r[j] = p[j]
         /\ \A j \in 1..Len(q) : r[Len(p) + j] = q[j]
OBVIOUS

\* Chunks that are appended change nothing about those before them.
LEMMA SweptStays ==
  ASSUME NEW log \in Seq(TuiChunks), NEW new \in Seq(TuiChunks), NEW i \in 1..Len(log), Swept(log, i)
  PROVE  Swept(log \o new, i)
<1>1. PICK t \in i + 1..Len(log) :
         log[t] = Shown("tombstone", log[i].id) /\ \A c \in i..t : ~Completes(log[c])
  BY DEF Swept
<1>2. PICK all : all = log \o new
  OBVIOUS
<1>3. all \in Seq(TuiChunks) /\ Len(all) >= Len(log) /\ \A c \in 1..Len(log) : all[c] = log[c]
  BY <1>2
<1>4. t \in i + 1..Len(all) /\ all[t] = Shown("tombstone", all[i].id)
  BY <1>1, <1>3
<1>5. \A c \in i..t : ~Completes(all[c])
  <2>1. ASSUME NEW c \in i..t PROVE all[c] = log[c]
    <3>1. c \in 1..Len(log)
      BY <1>1
    <3> QED BY <1>3, <3>1
  <2> QED BY <1>1, <2>1
<1> QED BY <1>2, <1>4, <1>5 DEF Swept

\* A stream that goes on has the same chunks behind it.
LEMMA StreamsKeep ==
  ASSUME TuiTyped, NEW k \in 1..Len(streams), NEW m,
         k \in 1..Len(streams'), streams'[k].room = streams[k].room,
         \/ streams'[k].step = streams[k].step /\ streams'[k].pos = streams[k].pos
         \/ streams'[k].step = "cut",
         \A s \in 1..Len(rooms) : \A i \in 1..Len(rooms[s]) : rooms'[s][i] = rooms[s][i],
         Sweeps(k, m)
  PROVE  Sweeps(k, m)'
<1>1. CASE streams'[k].step = "cut"
  BY <1>1 DEF Sweeps
<1>2. CASE streams'[k].step = streams[k].step /\ streams'[k].pos = streams[k].pos
  <2>1. CASE streams[k].step = "cut"
    BY <1>2, <2>1 DEF Sweeps
  <2>2. CASE streams[k].step # "cut"
    <3>0. streams[k] \in Streams
      BY DEF TuiTyped
    <3>1. PICK s \in 1..Len(rooms), p \in Nat :
             s = streams[k].room /\ p = streams[k].pos /\ p <= Len(rooms[s])
      <4>1. streams[k].pos \in Nat
        BY <3>0 DEF Streams
      <4>2. streams[k].room \in 1..Len(rooms) /\ streams[k].pos <= Len(rooms[streams[k].room])
        BY Zenon DEF TuiTyped
      <4> QED BY <4>1, <4>2, Zenon
    <3>2. PICK i \in 1..p : rooms[s][i] = m /\ \A t \in i + 1..p : rooms[s][t] # Shown("tombstone", m.id)
      BY <2>2, <3>1 DEF Sweeps
    <3>3. PICK log \in Seq(TuiChunks) : log = rooms[s]
      BY SMTT(60) DEF TuiTyped
    <3>4. \A j \in 1..p : j \in 1..Len(rooms[s])
      BY <3>1, <3>3
    <3>5. rooms'[s][i] = m /\ \A t \in i + 1..p : rooms'[s][t] # Shown("tombstone", m.id)
      <4>1. ASSUME NEW t \in i + 1..p PROVE rooms'[s][t] = rooms[s][t]
        BY <3>1, <3>4, SMTT(60)
      <4>2. rooms'[s][i] = rooms[s][i]
        BY <3>1, <3>4
      <4> QED BY <3>2, <4>1, <4>2
    <3>6. streams'[k].step = "listening" /\ streams'[k].room = s /\ streams'[k].pos = p
      BY <1>2, <2>2, <3>1 DEF Sweeps
    <3> QED BY <3>5, <3>6, Zenon DEF Sweeps
  <2> QED BY <2>1, <2>2
<1> QED BY <1>1, <1>2

\* A step in which no stream reads keeps the screen as good as it was.
LEMMA ScreenKeeps ==
  ASSUME TuiTyped, ScreenIsSwept,
         \A s \in 1..Len(rooms) : \A i \in 1..Len(rooms[s]) : rooms'[s][i] = rooms[s][i],
         \A k \in 1..Len(streams) :
            /\ k \in 1..Len(streams') /\ streams'[k].room = streams[k].room
            /\ \/ streams'[k].step = streams[k].step /\ streams'[k].pos = streams[k].pos
               \/ streams'[k].step = "cut"
               \/ streams[k].step = "posted" /\ streams'[k].step # "over",
         \A m \in screen' : m.kind = "piece" => m \in screen,
         streaming' => streaming
  PROVE  ScreenIsSwept'
<1>1. ASSUME NEW m \in screen', m.kind = "piece"
      PROVE  \E k \in 1..Len(streams') : Sweeps(k, m)'
  <2>1. PICK k \in 1..Len(streams) : Sweeps(k, m)
    BY <1>1 DEF ScreenIsSwept
  <2>2. streams[k].step # "posted"
    BY <2>1 DEF Sweeps
  <2>3. Sweeps(k, m)'
    BY <2>1, <2>2, StreamsKeep
  <2> QED BY <2>3
<1>2. streaming' => \E k \in 1..Len(streams') : streams'[k].step # "over"
  <2>1. ASSUME streaming' PROVE \E k \in 1..Len(streams') : streams'[k].step # "over"
    <3>1. PICK k \in 1..Len(streams) : streams[k].step # "over"
      BY <2>1 DEF ScreenIsSwept
    <3> QED BY <3>1
  <2> QED BY <2>1
<1> QED BY <1>1, <1>2 DEF ScreenIsSwept


-----------------------------------------------------------------------------

\* The only message after the token is three chunks long.
LEMMA RestIs ==
  ASSUME NEW id \in Nat
  PROVE  /\ Rest(id) \in Seq(Seq(TuiChunks)) /\ Rest(id) # <<>> /\ Tail(Rest(id)) = <<>>
         /\ Head(Rest(id)) = <<Shown("text", id), Shown("tombstone", id), Shown("done", id)>>
         /\ Head(Rest(id)) \in Seq(TuiChunks) /\ Len(Head(Rest(id))) = 3
<1>1. PICK x \in TuiChunks, y \in TuiChunks, z \in TuiChunks :
         x = Shown("text", id) /\ y = Shown("tombstone", id) /\ z = Shown("done", id)
  BY DEF Shown, TuiChunks
<1>2. PICK c : c = <<x, y, z>>
  OBVIOUS
<1>3. c \in Seq(TuiChunks) /\ Len(c) = 3
  BY <1>2
<1>4. PICK q : q = <<c>>
  OBVIOUS
<1>5. q \in Seq(Seq(TuiChunks)) /\ q # <<>> /\ Tail(q) = <<>> /\ Head(q) = c
  BY <1>3, <1>4
<1>6. Rest(id) = q
  BY <1>1, <1>2, <1>4, Zenon DEF Rest
<1> QED BY <1>1, <1>2, <1>3, <1>5, <1>6, Zenon

\* The ids of two answers differ if the answers do.
LEMMA RestIsOf ==
  ASSUME NEW i \in Nat, NEW j \in Nat, Rest(i) = Rest(j)
  PROVE  i = j
<1>1. /\ Head(Rest(i)) = <<Shown("text", i), Shown("tombstone", i), Shown("done", i)>>
      /\ Head(Rest(j)) = <<Shown("text", j), Shown("tombstone", j), Shown("done", j)>>
  BY RestIs, Zenon
<1>2. <<Shown("text", i), Shown("tombstone", i), Shown("done", i)>>
        = <<Shown("text", j), Shown("tombstone", j), Shown("done", j)>>
  BY <1>1, Zenon
<1>3. Shown("text", i) = Shown("text", j)
  BY <1>2
<1> QED BY <1>3 DEF Shown

\* A sequence of two.
LEMMA PairIs ==
  ASSUME NEW S, NEW x \in S, NEW y \in S
  PROVE  Head(<<x, y>>) = x /\ Tail(<<x, y>>) = <<y>>
<1>1. PICK t, u : t = Tail(<<x, y>>) /\ u = <<y>>
  OBVIOUS
<1>2. t \in Seq(S) /\ u \in Seq(S) /\ Len(t) = 1 /\ Len(u) = 1 /\ t[1] = y /\ u[1] = y
  BY <1>1
<1>3. t = u
  BY <1>2
<1> QED BY <1>1, <1>3

\* A whole answer is a token and the rest, or an error.
LEMMA AnswersAre ==
  ASSUME NEW id \in Nat, NEW a \in Answers(id)
  PROVE  /\ a \in Seq(Seq(TuiChunks)) /\ a # <<>> /\ Head(a) \in Seq(TuiChunks)
         /\ \/ Head(a) = <<Shown("piece", id)>> /\ Tail(a) = Rest(id)
            \/ Head(a) = <<Shown("error", id)>> /\ Tail(a) = <<>>
         /\ \A j \in Nat : a # Rest(j)
<1>1. PICK c : c = <<Shown("text", id), Shown("tombstone", id), Shown("done", id)>>
  OBVIOUS
<1>2. PICK x \in TuiChunks, y \in TuiChunks : x = Shown("piece", id) /\ y = Shown("error", id)
  BY DEF Shown, TuiChunks
<1>3. PICK p, e : p = <<x>> /\ e = <<y>>
  OBVIOUS
<1>4. p \in Seq(TuiChunks) /\ e \in Seq(TuiChunks) /\ Len(p) = 1 /\ Len(e) = 1
  BY <1>3
<1>5. c \in Seq(TuiChunks)
  BY <1>1, RestIs, Zenon
<1>6. a = <<p, c>> \/ a = <<e>>
  BY <1>1, <1>2, <1>3, Zenon DEF Answers
<1>7. Rest(id) = <<c>>
  BY <1>1 DEF Rest
<1>8. a \in Seq(Seq(TuiChunks)) /\ a # <<>>
  <2>1. <<p, c>> \in Seq(Seq(TuiChunks)) /\ <<e>> \in Seq(Seq(TuiChunks))
    BY <1>4, <1>5
  <2>2. <<p, c>> # <<>> /\ <<e>> # <<>>
    OBVIOUS
  <2> QED BY <1>6, <2>1, <2>2, Zenon
<1>9. (Head(a) = p /\ Tail(a) = <<c>>) \/ (Head(a) = e /\ Tail(a) = <<>>)
  <2>1. PICK q : q = <<p, c>>
    OBVIOUS
  <2>2. Head(q) = p /\ Tail(q) = <<c>>
    BY <1>4, <1>5, <2>1, PairIs, Zenon
  <2>3. Head(<<e>>) = e /\ Tail(<<e>>) = <<>>
    OBVIOUS
  <2> QED BY <1>6, <2>1, <2>2, <2>3, Zenon
<1>10. ASSUME NEW j \in Nat, a = Rest(j) PROVE FALSE
  <2>1. Len(Head(Rest(j))) = 3
    BY RestIs, Zenon
  <2>2. 1 = 3
    BY <1>4, <1>9, <1>10, <2>1, Zenon
  <2> QED BY <2>2
<1> QED BY <1>2, <1>3, <1>4, <1>7, <1>8, <1>9, <1>10, Zenon

\* What a session is left with may only become more.
LEMMA SweptWithMore ==
  ASSUME NEW log, NEW due, NEW more, PiecesAreSwept(log, due), due \subseteq more
  PROVE  PiecesAreSwept(log, more)
BY DEF PiecesAreSwept

\* r is q with new behind its member s.
Lengthened(q, s, new, r) == r = [q EXCEPT ![s] = @ \o new]

\* r has what q has, and new behind it at s.
WithNew(q, s, new, r) ==
    /\ r \in Seq(Seq(TuiChunks)) /\ Len(r) = Len(q) /\ r[s] = q[s] \o new
    /\ \A t \in 1..Len(q) : t # s => r[t] = q[t]
    /\ \A t \in 1..Len(q) : /\ Len(q[t]) \in Nat /\ Len(q[t]) <= Len(r[t])
                            /\ \A i \in 1..Len(q[t]) : r[t][i] = q[t][i]

\* Appending to one of several logs.
LEMMA Appends ==
  ASSUME NEW q \in Seq(Seq(TuiChunks)), NEW s \in 1..Len(q), NEW new \in Seq(TuiChunks),
         NEW r, Lengthened(q, s, new, r)
  PROVE  WithNew(q, s, new, r)
<1>1. PICK log \in Seq(TuiChunks) : log = q[s]
  OBVIOUS
<1>2. PICK all : all = log \o new
  OBVIOUS
<1>3. all \in Seq(TuiChunks) /\ Len(log) <= Len(all) /\ \A i \in 1..Len(log) : all[i] = log[i]
  BY <1>2
<1>4. r = [q EXCEPT ![s] = all]
  BY <1>1, <1>2 DEF Lengthened
<1>5. /\ r \in Seq(Seq(TuiChunks)) /\ Len(r) = Len(q) /\ r[s] = all
      /\ \A t \in 1..Len(q) : t # s => r[t] = q[t]
  <2>1. DOMAIN q = 1..Len(q) /\ Len(q) \in Nat /\ q \in [1..Len(q) -> Seq(TuiChunks)]
    OBVIOUS
  <2>2. r \in [1..Len(q) -> Seq(TuiChunks)]
    BY <1>3, <1>4, <2>1
  <2>3. r \in Seq(Seq(TuiChunks)) /\ Len(r) = Len(q)
    BY <1>4, <2>1, <2>2
  <2>4. r[s] = all /\ \A t \in 1..Len(q) : t # s => r[t] = q[t]
    BY <1>4, <2>1
  <2> QED
    BY <2>3, <2>4
<1>6. ASSUME NEW t \in 1..Len(q)
      PROVE  Len(q[t]) \in Nat /\ Len(q[t]) <= Len(r[t]) /\ \A i \in 1..Len(q[t]) : r[t][i] = q[t][i]
  <2>1. PICK l \in Seq(TuiChunks) : l = q[t]
    OBVIOUS
  <2>2. CASE t = s
    BY <1>1, <1>3, <1>5, <2>2
  <2>3. CASE t # s
    BY <1>5, <2>1, <2>3
  <2> QED BY <2>2, <2>3
<1> QED BY <1>1, <1>2, <1>5, <1>6 DEF WithNew

\* A log that grows keeps what was swept, and completes nothing if nothing new does.
LEMMA SweptGrows ==
  ASSUME NEW log \in Seq(TuiChunks), NEW new \in Seq(TuiChunks), NEW due, NEW more,
         PiecesAreSwept(log, due),
         \A i \in 1..Len(new) : new[i].kind # "piece",
         \A i \in 1..Len(log) : (Open(log, i) /\ log[i].kind = "piece" /\ log[i].id \in due)
            => Swept(log \o new, i) \/ (Open(log \o new, i) /\ log[i].id \in more)
  PROVE  PiecesAreSwept(log \o new, more)
<1>1. PICK all : all = log \o new
  OBVIOUS
<1>2. /\ all \in Seq(TuiChunks) /\ Len(all) = Len(log) + Len(new)
      /\ \A i \in 1..Len(log) : all[i] = log[i]
      /\ \A i \in 1..Len(new) : all[Len(log) + i] = new[i]
  BY <1>1
<1>3. ASSUME NEW i \in 1..Len(all), all[i].kind = "piece"
      PROVE  Swept(all, i) \/ (Open(all, i) /\ all[i].id \in more)
  <2>1. i <= Len(log)
    <3>1. ASSUME i > Len(log) PROVE FALSE
      <4>1. i - Len(log) \in 1..Len(new) /\ Len(log) + (i - Len(log)) = i
        BY <1>2, <3>1
      <4>2. all[i] = new[i - Len(log)]
        BY <1>2, <4>1
      <4> QED BY <1>3, <4>1, <4>2
    <3> QED BY <3>1, <1>2
  <2>2. i \in 1..Len(log) /\ all[i] = log[i]
    BY <1>2, <2>1
  <2>3. CASE Swept(log, i)
    BY <1>1, <2>2, <2>3, SweptStays
  <2>4. CASE Open(log, i) /\ log[i].id \in due
    BY <1>1, <1>3, <2>2, <2>4
  <2> QED BY <1>3, <2>2, <2>3, <2>4 DEF PiecesAreSwept
<1> QED BY <1>1, <1>3 DEF PiecesAreSwept

\* What is appended is open if it was, and nothing new completes.
LEMMA OpenStays ==
  ASSUME NEW log \in Seq(TuiChunks), NEW new \in Seq(TuiChunks), NEW i \in 1..Len(log),
         Open(log, i), \A j \in 1..Len(new) : ~Completes(new[j])
  PROVE  Open(log \o new, i)
<1>1. PICK all : all = log \o new
  OBVIOUS
<1>2. /\ all \in Seq(TuiChunks) /\ Len(all) = Len(log) + Len(new)
      /\ \A j \in 1..Len(log) : all[j] = log[j]
      /\ \A j \in 1..Len(new) : all[Len(log) + j] = new[j]
  BY <1>1
<1>3. ASSUME NEW c \in i..Len(all) PROVE ~Completes(all[c])
  <2>1. CASE c <= Len(log)
    <3>1. c \in i..Len(log) /\ c \in 1..Len(log)
      BY <2>1
    <3> QED BY <1>2, <3>1 DEF Open
  <2>2. CASE c > Len(log)
    <3>1. c - Len(log) \in 1..Len(new) /\ Len(log) + (c - Len(log)) = c
      BY <1>2, <2>2
    <3>2. all[c] = new[c - Len(log)]
      BY <1>2, <3>1
    <3> QED BY <3>1, <3>2
  <2> QED BY <1>2, <2>1, <2>2
<1> QED BY <1>1, <1>3 DEF Open

\* A step that writes to no log keeps what is said of the sessions.
LEMMA RoomsKeep ==
  ASSUME RoomsAreSwept, rooms' = rooms,
         \A s \in 1..Len(rooms) : TodoFits(s)' /\ Due(s) \subseteq Due(s)'
  PROVE  RoomsAreSwept'
<1> SUFFICES ASSUME NEW s \in 1..Len(rooms) PROVE TodoFits(s)' /\ PiecesAreSwept(rooms[s], Due(s)')
  BY DEF RoomsAreSwept
<1>1. PiecesAreSwept(rooms[s], Due(s))
  BY DEF RoomsAreSwept
<1>2. Due(s) \subseteq Due(s)'
  OBVIOUS
<1>3. PiecesAreSwept(rooms[s], Due(s)')
  BY <1>1, <1>2, SweptWithMore
<1> QED BY <1>3

\* Streams go on being about a place in a session.
LEMMA PlacesStay ==
  ASSUME TuiTyped, UNCHANGED streams,
         \A s \in 1..Len(rooms) : s \in 1..Len(rooms') /\ Len(rooms[s]) <= Len(rooms'[s])
                                  /\ Len(rooms'[s]) \in Nat
  PROVE  \A k \in 1..Len(streams') : /\ streams'[k].room \in 1..Len(rooms')
                                     /\ streams'[k].pos <= Len(rooms'[streams'[k].room])
<1> SUFFICES ASSUME NEW k \in 1..Len(streams)
             PROVE  /\ streams[k].room \in 1..Len(rooms')
                    /\ streams[k].pos <= Len(rooms'[streams[k].room])
  OBVIOUS
<1>1. streams[k].pos \in Nat
  <2>1. streams[k] \in Streams
    BY DEF TuiTyped
  <2> QED BY <2>1 DEF Streams
<1>2. PICK s \in 1..Len(rooms), p \in Nat : s = streams[k].room /\ p = streams[k].pos /\ p <= Len(rooms[s])
  BY <1>1, Zenon DEF TuiTyped
<1>3. PICK log \in Seq(TuiChunks) : log = rooms[s]
  BY DEF TuiTyped
<1> QED BY <1>2, <1>3

\* The agent begins with an answer.
LEMMA AnswerBeginsKeeps ==
  ASSUME TuiIInv, NEW s \in DOMAIN rooms, AnswerBegins(s)
  PROVE  TuiIInv'
<1>1. s \in 1..Len(rooms) /\ s \in 1..Len(todo) /\ s \in 1..Len(unanswered)
  BY DEF TuiIInv, TuiTyped
<1>2. PICK w \in Seq(Nat) : w = unanswered[s] /\ w # <<>>
  <2>1. unanswered[s] \in Seq(Nat)
    BY <1>1 DEF TuiIInv, TuiTyped
  <2>2. unanswered[s] # <<>>
    BY DEF AnswerBegins
  <2> QED BY <2>1, <2>2, Zenon
<1>3. Head(w) \in Nat /\ Tail(w) \in Seq(Nat)
  BY <1>2
<1>4. PICK answer \in Answers(Head(w)) : todo' = [todo EXCEPT ![s] = answer]
  BY <1>2 DEF AnswerBegins
<1>5. answer \in Seq(Seq(TuiChunks))
  BY <1>3, AnswersAre, Zenon
<1>6. unanswered' = [unanswered EXCEPT ![s] = Tail(w)]
  BY <1>2 DEF AnswerBegins
<1>7. /\ todo' \in Seq(Seq(Seq(TuiChunks))) /\ Len(todo') = Len(todo)
      /\ todo'[s] = answer /\ \A t \in 1..Len(todo) : t # s => todo'[t] = todo[t]
  BY <1>1, <1>4, <1>5 DEF TuiIInv, TuiTyped
<1>8. unanswered' \in Seq(Seq(Nat)) /\ Len(unanswered') = Len(unanswered)
  BY <1>1, <1>3, <1>6 DEF TuiIInv, TuiTyped
<1>9. UNCHANGED <<rooms, open, streams, screen, streaming, active>>
  BY DEF AnswerBegins, appVars
<1>10. TuiTyped'
  BY <1>7, <1>8, <1>9 DEF TuiIInv, TuiTyped
<1>11. RoomsAreSwept'
  <2>1. ASSUME NEW t \in 1..Len(rooms) PROVE TodoFits(t)' /\ Due(t) \subseteq Due(t)'
    <3>1. Exists(t)' = Exists(t)
      BY <1>9 DEF Exists
    <3>2. CASE t = s
      <4>1. TodoFits(t)'
        BY <1>3, <1>7, <3>2, Zenon DEF TodoFits
      <4>2. Due(t) = {}
        <5>1. todo[t] = <<>> /\ Exists(t)
          BY <3>2 DEF AnswerBegins
        <5> QED BY <5>1, RestIs, Zenon DEF Due
      <4> QED BY <4>1, <4>2
    <3>3. CASE t # s
      <4>1. todo'[t] = todo[t]
        BY <1>7, <3>3 DEF TuiIInv, TuiTyped
      <4>2. TodoFits(t)
        BY DEF TuiIInv, RoomsAreSwept
      <4> QED BY <3>1, <4>1, <4>2, Zenon DEF TodoFits, Due
    <3> QED BY <3>2, <3>3
  <2> QED BY <1>9, <2>1, RoomsKeep DEF TuiIInv
<1>12. ScreenIsSwept'
  BY <1>9, ScreenKeeps DEF TuiIInv
<1> QED BY <1>10, <1>11, <1>12 DEF TuiIInv

\* What an agent publishes leaves every token swept that was, or sweeps it.
LEMMA AnswerSweeps ==
  ASSUME NEW log \in Seq(TuiChunks), NEW q, NEW due, NEW more,
         PiecesAreSwept(log, due), due \subseteq {id \in Nat : q = Rest(id)},
         \/ \E id \in Nat : q = Rest(id) \/ q \in Answers(id),
         {id \in Nat : Tail(q) = Rest(id)} \subseteq more
  PROVE  PiecesAreSwept(log \o Head(q), more)
<1>1. PICK id \in Nat : q = Rest(id) \/ q \in Answers(id)
  OBVIOUS
<1>2. CASE q = Rest(id)
  <2>1. PICK new \in Seq(TuiChunks) :
           /\ new = Head(q)
           /\ new = <<Shown("text", id), Shown("tombstone", id), Shown("done", id)>>
    BY <1>2, RestIs, Zenon
  <2>2. \A i \in 1..Len(new) : new[i].kind # "piece"
    BY <2>1 DEF Shown
  <2>3. Len(new) = 3 /\ new[2] = Shown("tombstone", id) /\ ~Completes(new[1]) /\ ~Completes(new[2])
    BY <2>1 DEF Shown, Completes
  <2>4. ASSUME NEW i \in 1..Len(log), Open(log, i), log[i].id \in due
        PROVE  Swept(log \o new, i)
    <3>1. log[i].id = id
      BY <1>2, <2>4, RestIsOf, Zenon
    <3>2. PICK all : all = log \o new
      OBVIOUS
    <3>3. /\ all \in Seq(TuiChunks) /\ Len(all) = Len(log) + 3
          /\ \A j \in 1..Len(log) : all[j] = log[j]
          /\ all[Len(log) + 1] = new[1] /\ all[Len(log) + 2] = new[2]
      <4>1. Len(new) = 3
        BY <2>3
      <4>2. /\ all \in Seq(TuiChunks) /\ Len(all) = Len(log) + Len(new)
            /\ \A j \in 1..Len(log) : all[j] = log[j]
            /\ \A j \in 1..Len(new) : all[Len(log) + j] = new[j]
        BY <3>2, Concats
      <4>3. 1 \in 1..Len(new) /\ 2 \in 1..Len(new)
        BY <4>1
      <4>4. all[Len(log) + 1] = new[1] /\ all[Len(log) + 2] = new[2]
        BY <4>2, <4>3, Zenon
      <4> QED BY <4>1, <4>2, <4>4, Zenon
    <3>4. all[Len(log) + 2] = Shown("tombstone", all[i].id) /\ Len(log) + 2 \in i + 1..Len(all)
      BY <2>3, <3>1, <3>3
    <3>5. ASSUME NEW c \in i..Len(log) + 2 PROVE ~Completes(all[c])
      <4>1. CASE c <= Len(log)
        <5>1. c \in i..Len(log) /\ c \in 1..Len(log)
          BY <4>1
        <5> QED BY <2>4, <3>3, <5>1 DEF Open
      <4>2. c = Len(log) + 1 \/ c = Len(log) + 2 \/ c <= Len(log)
        OBVIOUS
      <4> QED BY <2>3, <3>3, <4>1, <4>2
    <3>6. Swept(all, i)
      BY <3>4, <3>5, Zenon DEF Swept
    <3> QED BY <3>2, <3>6
  <2>5. PiecesAreSwept(log \o new, more)
    BY <2>2, <2>4, SweptGrows
  <2> QED BY <2>1, <2>5
<1>3. CASE q \in Answers(id)
  <2>1. \A j \in Nat : q # Rest(j)
    BY <1>3, AnswersAre, Zenon
  <2>2. due = {}
    BY <2>1
  <2>3. CASE Head(q) = <<Shown("error", id)>>
    <3>1. PICK new \in Seq(TuiChunks) : new = Head(q) /\ new = <<Shown("error", id)>>
      BY <1>3, <2>3, AnswersAre, Zenon
    <3>2. \A i \in 1..Len(new) : new[i].kind # "piece"
      BY <3>1 DEF Shown
    <3>3. PiecesAreSwept(log \o new, more)
      BY <2>2, <3>2, SweptGrows
    <3> QED BY <3>1, <3>3
  <2>4. CASE Head(q) = <<Shown("piece", id)>> /\ Tail(q) = Rest(id)
    <3>1. PICK new \in Seq(TuiChunks) : new = Head(q) /\ new = <<Shown("piece", id)>>
      BY <1>3, <2>4, AnswersAre, Zenon
    <3>2. Len(new) = 1 /\ new[1].id = id /\ ~Completes(new[1])
      BY <3>1 DEF Shown, Completes
    <3>3. PICK all : all = log \o new
      OBVIOUS
    <3>4. /\ all \in Seq(TuiChunks) /\ Len(all) = Len(log) + 1
          /\ \A j \in 1..Len(log) : all[j] = log[j]
          /\ all[Len(log) + 1] = new[1]
      <4>1. Len(new) = 1
        BY <3>2
      <4>2. /\ all \in Seq(TuiChunks) /\ Len(all) = Len(log) + Len(new)
            /\ \A j \in 1..Len(log) : all[j] = log[j]
            /\ \A j \in 1..Len(new) : all[Len(log) + j] = new[j]
        BY <3>3, Concats
      <4>3. 1 \in 1..Len(new)
        BY <4>1
      <4> QED BY <4>1, <4>2, <4>3, Zenon
    <3>5. id \in more
      BY <2>4
    <3>6. ASSUME NEW i \in 1..Len(all), all[i].kind = "piece"
          PROVE  Swept(all, i) \/ (Open(all, i) /\ all[i].id \in more)
      <4>1. CASE i \in 1..Len(log)
        <5>1. Swept(log, i)
          BY <2>2, <3>4, <3>6, <4>1 DEF PiecesAreSwept
        <5> QED BY <3>3, <4>1, <5>1, SweptStays
      <4>2. CASE i = Len(log) + 1
        <5>1. all[i].id \in more
          BY <3>2, <3>4, <3>5, <4>2
        <5>2. \A c \in i..Len(all) : c = i
          BY <3>4, <4>2
        <5>3. ~Completes(all[i])
          BY <3>2, <3>4, <4>2
        <5> QED BY <5>1, <5>2, <5>3, Zenon DEF Open
      <4> QED BY <3>4, <4>1, <4>2
    <3>7. PiecesAreSwept(all, more)
      BY <3>6 DEF PiecesAreSwept
    <3> QED BY <3>1, <3>3, <3>7
  <2> QED BY <1>3, <2>3, <2>4, AnswersAre, Zenon
<1> QED BY <1>1, <1>2, <1>3

\* The agent goes on with it, in a session that exists or is gone.
LEMMA AnswerGoesOnKeeps ==
  ASSUME TuiIInv, NEW s \in DOMAIN rooms, AnswerGoesOn(s)
  PROVE  TuiIInv'
<1>1. s \in 1..Len(rooms) /\ s \in 1..Len(todo)
  BY DEF TuiIInv, TuiTyped
<1>2. PICK q \in Seq(Seq(TuiChunks)) : q = todo[s] /\ q # <<>>
  <2>1. todo[s] \in Seq(Seq(TuiChunks))
    BY <1>1 DEF TuiIInv, TuiTyped
  <2>2. todo[s] # <<>>
    BY DEF AnswerGoesOn
  <2> QED BY <2>1, <2>2, Zenon
<1>3. PICK id \in Nat : q = Rest(id) \/ q \in Answers(id)
  BY <1>1, <1>2, Zenon DEF TuiIInv, RoomsAreSwept, TodoFits
<1>4. Head(q) \in Seq(TuiChunks) /\ Tail(q) \in Seq(Seq(TuiChunks))
  BY <1>2
<1>5. Tail(q) = <<>> \/ Tail(q) = Rest(id)
  BY <1>3, RestIs, AnswersAre, Zenon
<1>6. todo' = [todo EXCEPT ![s] = Tail(q)]
  BY <1>2 DEF AnswerGoesOn
<1>7. /\ todo' \in Seq(Seq(Seq(TuiChunks))) /\ Len(todo') = Len(todo)
      /\ todo'[s] = Tail(q) /\ \A t \in 1..Len(todo) : t # s => todo'[t] = todo[t]
  BY <1>1, <1>4, <1>6 DEF TuiIInv, TuiTyped
<1>8. UNCHANGED <<open, unanswered, streams, screen, streaming, active>>
  BY DEF AnswerGoesOn, appVars
<1>9. ASSUME NEW t \in 1..Len(rooms) PROVE TodoFits(t)' /\ (t # s => Due(t)' = Due(t))
  <2>1. Exists(t)' = Exists(t)
    BY <1>8 DEF Exists
  <2>2. CASE t = s
    <3>1. todo'[t] = <<>> \/ todo'[t] = Rest(id)
      BY <1>5, <1>7, <2>2, Zenon
    <3> QED BY <2>2, <3>1, Zenon DEF TodoFits
  <2>3. CASE t # s
    <3>1. todo'[t] = todo[t]
      BY <1>7, <2>3 DEF TuiIInv, TuiTyped
    <3>2. TodoFits(t)
      BY DEF TuiIInv, RoomsAreSwept
    <3>3. Due(t)' = Due(t)
      BY <2>1, <3>1 DEF Due
    <3> QED BY <3>1, <3>2, <3>3, Zenon DEF TodoFits
  <2> QED BY <2>2, <2>3
<1>10. CASE ~Exists(s)
  <2>1. rooms' = rooms
    BY <1>10 DEF AnswerGoesOn
  <2>2. TuiTyped'
    BY <1>7, <1>8, <2>1 DEF TuiIInv, TuiTyped
  <2>3. RoomsAreSwept'
    <3>1. ASSUME NEW t \in 1..Len(rooms) PROVE Due(t) \subseteq Due(t)'
      <4>1. CASE t = s
        <5>1. ~Exists(t)'
          BY <1>8, <1>10, <4>1 DEF Exists
        <5> QED BY <5>1, Zenon DEF Due
      <4>2. CASE t # s
        BY <1>9, <4>2
      <4> QED BY <4>1, <4>2
    <3> QED BY <1>9, <2>1, <3>1, RoomsKeep DEF TuiIInv
  <2>4. ScreenIsSwept'
    BY <1>8, <2>1, ScreenKeeps DEF TuiIInv
  <2> QED BY <2>2, <2>3, <2>4 DEF TuiIInv
<1>11. CASE Exists(s)
  <2>1. rooms' = [rooms EXCEPT ![s] = @ \o Head(q)]
    BY <1>2, <1>11 DEF AnswerGoesOn
  <2>2. rooms \in Seq(Seq(TuiChunks))
    BY DEF TuiIInv, TuiTyped
  <2>3. PICK new \in Seq(TuiChunks) : new = Head(q)
    BY <1>4, Zenon
  <2>4. /\ rooms' \in Seq(Seq(TuiChunks)) /\ Len(rooms') = Len(rooms) /\ rooms'[s] = rooms[s] \o new
        /\ \A t \in 1..Len(rooms) : t # s => rooms'[t] = rooms[t]
        /\ \A t \in 1..Len(rooms) : /\ Len(rooms[t]) \in Nat /\ Len(rooms[t]) <= Len(rooms'[t])
                                    /\ \A i \in 1..Len(rooms[t]) : rooms'[t][i] = rooms[t][i]
    <3>1. PICK r : r = rooms'
      OBVIOUS
    <3>2. Lengthened(rooms, s, new, r)
      BY <2>1, <2>3, <3>1 DEF Lengthened
    <3>3. WithNew(rooms, s, new, r)
      BY <1>1, <2>2, <3>2, Appends
    <3> QED BY <3>1, <3>3, Zenon DEF WithNew
  <2>5. TuiTyped'
    <3>1. \A t \in 1..Len(rooms) : t \in 1..Len(rooms') /\ Len(rooms[t]) <= Len(rooms'[t])
                                   /\ Len(rooms'[t]) \in Nat
      BY <2>4
    <3>2. \A k \in 1..Len(streams') : /\ streams'[k].room \in 1..Len(rooms')
                                      /\ streams'[k].pos <= Len(rooms'[streams'[k].room])
      BY <1>8, <3>1, PlacesStay DEF TuiIInv
    <3> QED BY <1>7, <1>8, <2>4, <3>2 DEF TuiIInv, TuiTyped
  <2>6. RoomsAreSwept'
    <3>1. ASSUME NEW t \in 1..Len(rooms) PROVE PiecesAreSwept(rooms'[t], Due(t)')
      <4>1. PiecesAreSwept(rooms[t], Due(t))
        BY DEF TuiIInv, RoomsAreSwept
      <4>2. CASE t # s
        <5>1. rooms'[t] = rooms[t] /\ Due(t)' = Due(t)
          BY <1>9, <2>4, <4>2
        <5> QED BY <4>1, <5>1
      <4>3. CASE t = s
        <5>0. PICK log \in Seq(TuiChunks) : log = rooms[s]
          BY <2>2, <1>1
        <5>1. PICK due, more : due = Due(s) /\ more = Due(s)'
          OBVIOUS
        <5>2. due \subseteq {j \in Nat : q = Rest(j)}
          BY <1>2, <1>11, <5>1, Zenon DEF Due
        <5>3. {j \in Nat : Tail(q) = Rest(j)} \subseteq more
          BY <1>7, <5>1 DEF Due
        <5>4. PiecesAreSwept(log, due)
          BY <4>1, <4>3, <5>0, <5>1
        <5>5. PiecesAreSwept(log \o Head(q), more)
          BY <1>3, <5>2, <5>3, <5>4, AnswerSweeps
        <5>6. log \o Head(q) = rooms'[s]
          BY <2>3, <2>4, <5>0, Zenon
        <5> QED BY <4>3, <5>0, <5>1, <5>5, <5>6, Zenon
      <4> QED BY <4>2, <4>3
    <3> QED BY <1>9, <2>4, <3>1 DEF RoomsAreSwept
  <2>7. ScreenIsSwept'
    BY <1>8, <2>4, ScreenKeeps DEF TuiIInv
  <2> QED BY <2>5, <2>6, <2>7 DEF TuiIInv
<1> QED BY <1>10, <1>11

\* A sequence with one of its elements replaced.
LEMMA Replaces ==
  ASSUME NEW S, NEW q \in Seq(S), NEW k \in 1..Len(q), NEW g \in S, NEW r, r = [q EXCEPT ![k] = g]
  PROVE  r \in Seq(S) /\ Len(r) = Len(q) /\ r[k] = g /\ \A j \in 1..Len(q) : j # k => r[j] = q[j]
OBVIOUS

\* Stream k where it is after a step.
StreamAt(q, k, step, pos) == [q EXCEPT ![k].step = step, ![k].pos = pos]

\* r is q but for the step and the position of the stream k.
Stepped(r, q, k, step, pos) ==
  /\ r \in Seq(Streams) /\ Len(r) = Len(q)
  /\ \A j \in 1..Len(q) : j # k => r[j] = q[j]
  /\ \A j \in 1..Len(q) : r[j].room = q[j].room
  /\ r[k].step = step /\ r[k].pos = pos

\* A step of one stream: where it is, and how far.
LEMMA StreamSteps ==
  ASSUME NEW q \in Seq(Streams), NEW k \in 1..Len(q),
         NEW step \in {"posted", "listening", "over", "cut"}, NEW pos \in Nat
  PROVE  Stepped(StreamAt(q, k, step, pos), q, k, step, pos)
<1>0. PICK r : r = StreamAt(q, k, step, pos)
  OBVIOUS
<1>1. PICK f \in Streams : f = q[k]
  OBVIOUS
<1>2. PICK g : g = [[f EXCEPT !.step = step] EXCEPT !.pos = pos]
  OBVIOUS
<1>3. g \in Streams /\ g.step = step /\ g.pos = pos /\ g.room = f.room
  BY <1>2 DEF Streams
<1>4. r = [q EXCEPT ![k] = g]
  BY <1>0, <1>1, <1>2 DEF StreamAt
<1>5. r \in Seq(Streams) /\ Len(r) = Len(q) /\ r[k] = g /\ \A j \in 1..Len(q) : j # k => r[j] = q[j]
  <2>1. PICK t : t = [q EXCEPT ![k] = g]
    OBVIOUS
  <2>2. t \in Seq(Streams) /\ Len(t) = Len(q) /\ t[k] = g /\ \A j \in 1..Len(q) : j # k => t[j] = q[j]
    BY <1>3, <2>1, Replaces
  <2> QED BY <1>4, <2>1, <2>2, Zenon
<1>6. Stepped(r, q, k, step, pos)
  BY <1>1, <1>3, <1>5 DEF Stepped
<1> QED BY <1>0, <1>6, Zenon

\* Places that are in their sessions, after a step of one stream.
LEMMA PlacesMove ==
  ASSUME TuiTyped, NEW k \in 1..Len(streams), NEW p \in Nat, p <= Len(rooms[streams[k].room]),
         rooms' = rooms, Len(streams') = Len(streams),
         \A j \in 1..Len(streams) : streams'[j].room = streams[j].room,
         \A j \in 1..Len(streams) : j # k => streams'[j] = streams[j],
         streams'[k].pos = p
  PROVE  \A j \in 1..Len(streams') : /\ streams'[j].room \in 1..Len(rooms')
                                     /\ streams'[j].pos <= Len(rooms'[streams'[j].room])
<1>1. ASSUME NEW j \in 1..Len(streams)
      PROVE  streams'[j].room \in 1..Len(rooms) /\ streams'[j].pos <= Len(rooms[streams'[j].room])
  <2>1. streams[j].room \in 1..Len(rooms) /\ streams[j].pos <= Len(rooms[streams[j].room])
    BY DEF TuiTyped
  <2>2. streams'[j].room = streams[j].room
    OBVIOUS
  <2>3. CASE j = k
    BY <2>1, <2>2, <2>3
  <2>4. CASE j # k
    BY <2>1, <2>4
  <2> QED BY <2>3, <2>4
<1> QED BY <1>1

\* The bus takes the message of a stream.
LEMMA BusTakesMessageKeeps ==
  ASSUME TuiIInv, NEW k \in DOMAIN streams, BusTakesMessage(k)
  PROVE  TuiIInv'
<1>1. k \in 1..Len(streams) /\ k \in Nat
  BY DEF TuiIInv, TuiTyped
<1>2. PICK s \in 1..Len(rooms) : s = streams[k].room
  BY <1>1 DEF TuiIInv, TuiTyped
<1>3. UNCHANGED <<open, todo, screen, streaming, active>>
  BY DEF BusTakesMessage, appVars
<1>4. /\ streams' \in Seq(Streams) /\ Len(streams') = Len(streams)
      /\ \A j \in 1..Len(streams) : /\ streams'[j].room = streams[j].room
                                    /\ streams'[j].step = streams[j].step
                                    /\ streams'[j].pos = streams[j].pos
  <2>1. streams' = [streams EXCEPT ![k].taken = TRUE]
    BY DEF BusTakesMessage
  <2>2. streams \in Seq(Streams)
    BY DEF TuiIInv, TuiTyped
  <2>3. PICK f \in Streams : f = streams[k]
    BY <1>1, <2>2
  <2>4. PICK g : g = [f EXCEPT !.taken = TRUE]
    OBVIOUS
  <2>5. g \in Streams /\ g.room = f.room /\ g.step = f.step /\ g.pos = f.pos
    BY <2>4 DEF Streams
  <2>6. streams' = [streams EXCEPT ![k] = g]
    BY <2>1, <2>3, <2>4
  <2>7. /\ streams' \in Seq(Streams) /\ Len(streams') = Len(streams) /\ streams'[k] = g
        /\ \A j \in 1..Len(streams) : j # k => streams'[j] = streams[j]
    BY <1>1, <2>2, <2>5, <2>6
  <2> QED BY <2>3, <2>5, <2>7
<1>5. /\ rooms' \in Seq(Seq(TuiChunks)) /\ Len(rooms') = Len(rooms)
      /\ \A t \in 1..Len(rooms) : /\ Len(rooms[t]) \in Nat /\ Len(rooms[t]) <= Len(rooms'[t])
                                  /\ Len(rooms'[t]) \in Nat
                                  /\ \A i \in 1..Len(rooms[t]) : rooms'[t][i] = rooms[t][i]
      /\ \A t \in 1..Len(rooms) : PiecesAreSwept(rooms'[t], Due(t))
      /\ unanswered' \in Seq(Seq(Nat)) /\ Len(unanswered') = Len(unanswered)
  <2>1. /\ rooms \in Seq(Seq(TuiChunks))
        /\ unanswered \in Seq(Seq(Nat)) /\ Len(unanswered) = Len(rooms)
    BY DEF TuiIInv, TuiTyped
  <2>2. \A t \in 1..Len(rooms) : PiecesAreSwept(rooms[t], Due(t))
    BY DEF TuiIInv, RoomsAreSwept
  <2>3. CASE ~Exists(s)
    <3>1. rooms' = rooms /\ unanswered' = unanswered
      BY <1>2, <2>3, Zenon DEF BusTakesMessage
    <3>2. \A t \in 1..Len(rooms) : Len(rooms[t]) \in Nat
      BY <2>1
    <3> QED BY <2>1, <2>2, <3>1, <3>2
  <2>4. CASE Exists(s)
    <3>1. /\ rooms' = [rooms EXCEPT ![s] = Append(@, Shown("user", k))]
          /\ unanswered' = [unanswered EXCEPT ![s] = Append(@, k)]
      BY <1>2, <2>4, Zenon DEF BusTakesMessage
    <3>2. PICK c : c = Shown("user", k)
      OBVIOUS
    <3>20. c \in TuiChunks /\ c.kind = "user"
      BY <1>1, <3>2 DEF Shown, TuiChunks
    <3>3. PICK new : new = <<c>>
      OBVIOUS
    <3>4. new \in Seq(TuiChunks) /\ Len(new) = 1 /\ new[1] = c
      BY <3>20, <3>3
    <3>5. PICK log \in Seq(TuiChunks) : log = rooms[s]
      BY <2>1
    <3>50. PICK r : r = rooms'
      OBVIOUS
    <3>6. r = [rooms EXCEPT ![s] = @ \o new]
      <4>1. Append(log, c) = log \o new
        BY <3>3
      <4>2. r = [rooms EXCEPT ![s] = Append(log, c)]
        BY <3>1, <3>2, <3>5, <3>50
      <4> QED BY <3>5, <4>1, <4>2
    <3>7. /\ r \in Seq(Seq(TuiChunks)) /\ Len(r) = Len(rooms) /\ r[s] = rooms[s] \o new
          /\ \A t \in 1..Len(rooms) : t # s => r[t] = rooms[t]
          /\ \A t \in 1..Len(rooms) : /\ Len(rooms[t]) \in Nat /\ Len(rooms[t]) <= Len(r[t])
                                      /\ \A i \in 1..Len(rooms[t]) : r[t][i] = rooms[t][i]
      <4>1. Lengthened(rooms, s, new, r)
        BY <3>6, Zenon DEF Lengthened
      <4>2. WithNew(rooms, s, new, r)
        BY <2>1, <3>4, <4>1, Appends
      <4> QED BY <4>2, Zenon DEF WithNew
    <3>8. ASSUME NEW t \in 1..Len(rooms) PROVE PiecesAreSwept(r[t], Due(t))
      <4>1. CASE t # s
        BY <2>2, <3>7, <4>1
      <4>2. CASE t = s
        <5>1. PICK due : due = Due(s)
          OBVIOUS
        <5>2. PiecesAreSwept(log, due)
          BY <2>2, <3>5, <5>1
        <5>3. \A i \in 1..Len(new) : i = 1
          BY <3>4
        <5>4. \A i \in 1..Len(new) : new[i].kind # "piece" /\ ~Completes(new[i])
          BY <3>20, <3>4, <5>3 DEF Completes
        <5>5. \A i \in 1..Len(log) : (Open(log, i) /\ log[i].kind = "piece" /\ log[i].id \in due)
                 => Open(log \o new, i) /\ log[i].id \in due
          BY <3>4, <5>4, OpenStays
        <5>6. PiecesAreSwept(log \o new, due)
          BY <3>4, <5>2, <5>4, <5>5, SweptGrows
        <5> QED BY <3>5, <3>7, <4>2, <5>1, <5>6, Zenon
      <4> QED BY <4>1, <4>2
    <3>9. unanswered' \in Seq(Seq(Nat)) /\ Len(unanswered') = Len(unanswered)
      <4>1. PICK w \in Seq(Nat) : w = unanswered[s]
        BY <2>1
      <4>2. Append(w, k) \in Seq(Nat)
        BY <1>1
      <4>3. unanswered' = [unanswered EXCEPT ![s] = Append(w, k)]
        BY <3>1, <4>1
      <4> QED BY <2>1, <4>2, <4>3
    <3>10. \A t \in 1..Len(rooms) : Len(r[t]) \in Nat
      BY <3>7
    <3> QED BY <3>50, <3>7, <3>8, <3>9, <3>10
  <2> QED BY <2>3, <2>4
<1>6. \A j \in 1..Len(streams') : /\ streams'[j].room \in 1..Len(rooms')
                                  /\ streams'[j].pos <= Len(rooms'[streams'[j].room])
  <2>1. ASSUME NEW j \in 1..Len(streams)
        PROVE  streams[j].room \in 1..Len(rooms') /\ streams[j].pos <= Len(rooms'[streams[j].room])
    <3>1. PICK t \in 1..Len(rooms) : t = streams[j].room /\ streams[j].pos <= Len(rooms[t])
      BY DEF TuiIInv, TuiTyped
    <3>2. streams[j] \in Streams
      BY SMTT(60) DEF TuiIInv, TuiTyped
    <3>3. PICK p \in Nat : p = streams[j].pos
      BY <3>2 DEF Streams
    <3> QED BY <1>5, <3>1, <3>3, SMTT(60)
  <2> QED BY <1>4, <2>1
<1>7. TuiTyped'
  BY <1>3, <1>4, <1>5, <1>6 DEF TuiIInv, TuiTyped
<1>8. RoomsAreSwept'
  <2>1. ASSUME NEW t \in 1..Len(rooms) PROVE TodoFits(t)' /\ Due(t)' = Due(t)
    <3>1. TodoFits(t) /\ Exists(t)' = Exists(t)
      BY <1>3 DEF TuiIInv, RoomsAreSwept, Exists
    <3> QED BY <1>3, <3>1, Zenon DEF TodoFits, Due
  <2> QED BY <1>5, <2>1 DEF RoomsAreSwept
<1>9. ScreenIsSwept'
  BY <1>3, <1>4, <1>5, ScreenKeeps DEF TuiIInv
<1> QED BY <1>7, <1>8, <1>9 DEF TuiIInv

\* A step of one stream keeps the types.
LEMMA StreamTyped ==
  ASSUME TuiTyped, NEW k \in 1..Len(streams),
         NEW step \in {"posted", "listening", "over", "cut"}, NEW pos \in Nat,
         pos <= Len(rooms[streams[k].room]),
         streams' = StreamAt(streams, k, step, pos),
         UNCHANGED <<rooms, open, todo, unanswered, active>>, screen' \subseteq TuiChunks
  PROVE  /\ TuiTyped'
         /\ Len(streams') = Len(streams)
         /\ \A j \in 1..Len(streams) : j # k => streams'[j] = streams[j]
         /\ \A j \in 1..Len(streams) : streams'[j].room = streams[j].room
         /\ streams'[k].step = step /\ streams'[k].pos = pos
<1>1. streams \in Seq(Streams)
  BY DEF TuiTyped
<1>2. PICK r : r = streams'
  OBVIOUS
<1>3. /\ r \in Seq(Streams) /\ Len(r) = Len(streams)
      /\ \A j \in 1..Len(streams) : j # k => r[j] = streams[j]
      /\ \A j \in 1..Len(streams) : r[j].room = streams[j].room
      /\ r[k].step = step /\ r[k].pos = pos
  <2>1. r = StreamAt(streams, k, step, pos)
    BY <1>2
  <2>2. Stepped(StreamAt(streams, k, step, pos), streams, k, step, pos)
    BY <1>1, StreamSteps
  <2>3. Stepped(r, streams, k, step, pos)
    BY <2>1, <2>2, Zenon
  <2> QED BY <2>3, Zenon DEF Stepped
<1>4. /\ streams' \in Seq(Streams) /\ Len(streams') = Len(streams)
      /\ \A j \in 1..Len(streams) : j # k => streams'[j] = streams[j]
      /\ \A j \in 1..Len(streams) : streams'[j].room = streams[j].room
      /\ streams'[k].step = step /\ streams'[k].pos = pos
  BY <1>2, <1>3, Zenon
<1>5. \A j \in 1..Len(streams') : /\ streams'[j].room \in 1..Len(rooms')
                                  /\ streams'[j].pos <= Len(rooms'[streams'[j].room])
  BY <1>4, PlacesMove
<1>6. TuiTyped'
  BY <1>4, <1>5 DEF TuiTyped
<1> QED BY <1>4, <1>6, Zenon

\* A step that only streams and the screen take keeps what is said of the sessions.
LEMMA SameRooms ==
  ASSUME RoomsAreSwept, UNCHANGED <<rooms, open, todo>>
  PROVE  RoomsAreSwept'
<1>1. ASSUME NEW s \in 1..Len(rooms) PROVE TodoFits(s)' /\ Due(s) \subseteq Due(s)'
  <2>1. TodoFits(s) /\ Exists(s)' = Exists(s)
    BY DEF RoomsAreSwept, Exists
  <2> QED BY <2>1, Zenon DEF TodoFits, Due
<1> QED BY <1>1, RoomsKeep

\* The server subscribes to the session.
LEMMA ChatSubscribesKeeps ==
  ASSUME TuiIInv, NEW k \in DOMAIN streams, ChatSubscribes(k)
  PROVE  TuiIInv'
<1>1. k \in 1..Len(streams)
  BY DEF TuiIInv, TuiTyped
<1>2. PICK p \in Nat : p = Len(rooms[streams[k].room]) /\ p <= Len(rooms[streams[k].room])
  <2>1. PICK s \in 1..Len(rooms) : s = streams[k].room
    BY <1>1 DEF TuiIInv, TuiTyped
  <2>2. rooms[s] \in Seq(TuiChunks)
    BY DEF TuiIInv, TuiTyped
  <2> QED BY <2>1, <2>2
<1>3. /\ streams' = StreamAt(streams, k, "listening", p)
      /\ UNCHANGED <<rooms, open, todo, unanswered, active, screen, streaming>>
  BY <1>2 DEF ChatSubscribes, serverVars, appVars, StreamAt
<1>4. screen \subseteq TuiChunks
  BY DEF TuiIInv, TuiTyped
<1>5. /\ TuiTyped'
      /\ Len(streams') = Len(streams)
      /\ \A j \in 1..Len(streams) : j # k => streams'[j] = streams[j]
      /\ \A j \in 1..Len(streams) : streams'[j].room = streams[j].room
      /\ streams'[k].step = "listening"
  BY <1>1, <1>2, <1>3, <1>4, StreamTyped DEF TuiIInv
<1>6. RoomsAreSwept'
  BY <1>3, SameRooms DEF TuiIInv
<1>7. ScreenIsSwept'
  <2>1. streams[k].step = "posted"
    BY DEF ChatSubscribes
  <2>2. \A j \in 1..Len(streams) :
           /\ j \in 1..Len(streams') /\ streams'[j].room = streams[j].room
           /\ \/ streams'[j].step = streams[j].step /\ streams'[j].pos = streams[j].pos
              \/ streams'[j].step = "cut"
              \/ streams[j].step = "posted" /\ streams'[j].step # "over"
    BY <1>5, <2>1
  <2> QED BY <1>3, <2>2, ScreenKeeps DEF TuiIInv
<1> QED BY <1>5, <1>6, <1>7 DEF TuiIInv

\* A stream breaks.
LEMMA StreamIsCutKeeps ==
  ASSUME TuiIInv, NEW k \in DOMAIN streams, StreamIsCut(k)
  PROVE  TuiIInv'
<1>1. k \in 1..Len(streams)
  BY DEF TuiIInv, TuiTyped
<1>2. 0 <= Len(rooms[streams[k].room])
  <2>1. PICK s \in 1..Len(rooms) : s = streams[k].room
    BY <1>1 DEF TuiIInv, TuiTyped
  <2>2. rooms[s] \in Seq(TuiChunks)
    BY DEF TuiIInv, TuiTyped
  <2> QED BY <2>1, <2>2
<1>3. /\ streams' = StreamAt(streams, k, "cut", 0)
      /\ UNCHANGED <<rooms, open, todo, unanswered, active, screen, streaming>>
  BY DEF StreamIsCut, serverVars, appVars, StreamAt
<1>4. screen \subseteq TuiChunks
  BY DEF TuiIInv, TuiTyped
<1>5. /\ TuiTyped'
      /\ Len(streams') = Len(streams)
      /\ \A j \in 1..Len(streams) : j # k => streams'[j] = streams[j]
      /\ \A j \in 1..Len(streams) : streams'[j].room = streams[j].room
      /\ streams'[k].step = "cut"
  BY <1>1, <1>2, <1>3, <1>4, StreamTyped DEF TuiIInv
<1>6. RoomsAreSwept'
  BY <1>3, SameRooms DEF TuiIInv
<1>7. ScreenIsSwept'
  <2>1. \A j \in 1..Len(streams) :
           /\ j \in 1..Len(streams') /\ streams'[j].room = streams[j].room
           /\ \/ streams'[j].step = streams[j].step /\ streams'[j].pos = streams[j].pos
              \/ streams'[j].step = "cut"
              \/ streams[j].step = "posted" /\ streams'[j].step # "over"
    BY <1>5
  <2> QED BY <1>3, <2>1, ScreenKeeps DEF TuiIInv
<1> QED BY <1>5, <1>6, <1>7 DEF TuiIInv

\* No token is left behind a completion: its tombstone has come before.
LEMMA CompletionIsSwept ==
  ASSUME TuiTyped, RoomsAreSwept, NEW k \in 1..Len(streams), NEW m \in TuiChunks, m.kind = "piece",
         streams[k].step = "listening", Sweeps(k, m),
         NEW s \in 1..Len(rooms), s = streams[k].room,
         NEW p \in Nat, p = streams[k].pos, p < Len(rooms[s]), Completes(rooms[s][p + 1])
  PROVE  FALSE
<1>1. PICK log \in Seq(TuiChunks) : log = rooms[s]
  BY SMTT(60) DEF TuiTyped
<1>2. PICK i \in 1..p : log[i] = m /\ \A t \in i + 1..p : log[t] # Shown("tombstone", m.id)
  BY <1>1, Zenon DEF Sweeps
<1>3. i \in 1..Len(log) /\ p + 1 \in i..Len(log)
  BY <1>1
<1>4. ~Open(log, i)
  BY <1>1, <1>3 DEF Open
<1>5. Swept(log, i)
  <2>1. PiecesAreSwept(log, Due(s))
    BY <1>1 DEF RoomsAreSwept
  <2> QED BY <1>2, <1>3, <1>4, <2>1 DEF PiecesAreSwept
<1>6. PICK t \in i + 1..Len(log) :
         log[t] = Shown("tombstone", m.id) /\ \A c \in i..t : ~Completes(log[c])
  BY <1>2, <1>5 DEF Swept
<1>7. ~(t \in i + 1..p)
  BY <1>2, <1>6
<1>8. p + 1 \in i..t
  BY <1>3, <1>7
<1> QED BY <1>1, <1>6, <1>8

\* A stream that reads anything but the tombstone still has the token behind it.
LEMMA SweepsOn ==
  ASSUME TuiTyped, NEW k \in 1..Len(streams), NEW m, Sweeps(k, m), streams[k].step = "listening",
         NEW s \in 1..Len(rooms), s = streams[k].room,
         NEW p \in Nat, p = streams[k].pos,
         streams'[k].room = s, streams'[k].step = "listening", streams'[k].pos = p + 1,
         rooms' = rooms, rooms[s][p + 1] # Shown("tombstone", m.id)
  PROVE  Sweeps(k, m)'
<1>1. PICK i \in 1..p : rooms[s][i] = m /\ \A t \in i + 1..p : rooms[s][t] # Shown("tombstone", m.id)
  BY Zenon DEF Sweeps
<1>2. \A t \in i + 1..p + 1 : rooms[s][t] # Shown("tombstone", m.id)
  <2>1. ASSUME NEW t \in i + 1..p + 1 PROVE t \in i + 1..p \/ t = p + 1
    OBVIOUS
  <2> QED BY <1>1, <2>1, Zenon
<1>3. i \in 1..p + 1
  OBVIOUS
<1>4. \E j \in 1..p + 1 : /\ rooms'[s][j] = m
                          /\ \A t \in j + 1..p + 1 : rooms'[s][t] # Shown("tombstone", m.id)
  BY <1>1, <1>2, <1>3, Zenon
<1> QED BY <1>4, Zenon DEF Sweeps

\* The screen takes the next chunk of a stream.
LEMMA DrainsKeeps ==
  ASSUME TuiIInv, NEW k \in DOMAIN streams, Drains(k)
  PROVE  TuiIInv'
<1>1. k \in 1..Len(streams) /\ streams[k].step = "listening"
  BY DEF TuiIInv, TuiTyped, Drains
<1>2. PICK s \in 1..Len(rooms) : s = streams[k].room
  BY <1>1 DEF TuiIInv, TuiTyped
<1>3. PICK f \in Streams : f = streams[k]
  BY <1>1 DEF TuiIInv, TuiTyped
<1>4. PICK p \in Nat : p = streams[k].pos
  BY <1>3 DEF Streams
<1>5. PICK log \in Seq(TuiChunks) : log = rooms[s]
  BY DEF TuiIInv, TuiTyped
<1>6. p < Len(log) /\ p + 1 \in 1..Len(log)
  BY <1>2, <1>4, <1>5 DEF Drains
<1>7. PICK c \in TuiChunks : c = log[p + 1]
  BY <1>6
<1>8. /\ streams' = IF Completes(c) THEN [streams EXCEPT ![k].step = "over", ![k].pos = 0]
                    ELSE [streams EXCEPT ![k].pos = p + 1]
      /\ screen' = IF c.kind = "tombstone" THEN screen \ {Shown("piece", c.id)} ELSE screen \cup {c}
      /\ streaming' = CASE c.kind \in {"piece", "text"} -> TRUE
                        [] Completes(c)                 -> FALSE
                        [] OTHER                        -> streaming
  BY <1>2, <1>4, <1>5, <1>7, Zenon DEF Drains, Tombstoned
<1>9. UNCHANGED <<rooms, open, todo, unanswered, active>>
  BY DEF Drains, serverVars
<1>10. screen \subseteq TuiChunks /\ screen' \subseteq TuiChunks
  BY <1>7, <1>8 DEF TuiIInv, TuiTyped
<1>11. RoomsAreSwept'
  BY <1>9, SameRooms DEF TuiIInv
<1>12. CASE Completes(c)
  <2>1. streams' = StreamAt(streams, k, "over", 0)
    BY <1>8, <1>12, Zenon DEF StreamAt
  <2>2. 0 <= Len(rooms[streams[k].room])
    BY <1>2, <1>5
  <2>3. /\ TuiTyped'
        /\ Len(streams') = Len(streams)
        /\ \A j \in 1..Len(streams) : j # k => streams'[j] = streams[j]
    BY <1>1, <1>9, <1>10, <2>1, <2>2, StreamTyped DEF TuiIInv
  <2>4. ASSUME NEW m \in screen', m.kind = "piece"
        PROVE  \E j \in 1..Len(streams') : Sweeps(j, m)'
    <3>1. m \in screen
      BY <1>8, <1>12, <2>4 DEF Completes
    <3>2. PICK j \in 1..Len(streams) : Sweeps(j, m)
      BY <2>4, <3>1 DEF TuiIInv, ScreenIsSwept
    <3>3. j # k
      <4>1. m \in TuiChunks
        BY <1>10, <3>1
      <4>2. ASSUME j = k PROVE FALSE
        BY <1>1, <1>2, <1>4, <1>5, <1>6, <1>7, <1>12, <2>4, <3>2, <4>1, <4>2, CompletionIsSwept
           DEF TuiIInv
      <4> QED BY <4>2
    <3>4. j \in 1..Len(streams') /\ streams'[j] = streams[j]
      BY <2>3, <3>3
    <3>5. Sweeps(j, m)'
      BY <1>9, <3>2, <3>4, StreamsKeep DEF TuiIInv
    <3> QED BY <3>4, <3>5
  <2>5. ~streaming'
    BY <1>8, <1>12 DEF Completes
  <2>6. ScreenIsSwept'
    BY <2>4, <2>5 DEF ScreenIsSwept
  <2> QED BY <1>11, <2>3, <2>6 DEF TuiIInv
<1>13. CASE ~Completes(c)
  <2>1. streams' = StreamAt(streams, k, "listening", p + 1)
    <3>1. [f EXCEPT !.step = "listening"] = f
      BY <1>1, <1>3 DEF Streams
    <3>2. StreamAt(streams, k, "listening", p + 1)
            = [streams EXCEPT ![k] = [[f EXCEPT !.step = "listening"] EXCEPT !.pos = p + 1]]
      BY <1>3 DEF StreamAt
    <3>3. streams' = [streams EXCEPT ![k] = [f EXCEPT !.pos = p + 1]]
      BY <1>3, <1>8, <1>13
    <3> QED BY <3>1, <3>2, <3>3, Zenon
  <2>2. p + 1 <= Len(rooms[streams[k].room])
    BY <1>2, <1>5, <1>6
  <2>3. /\ TuiTyped'
        /\ Len(streams') = Len(streams)
        /\ \A j \in 1..Len(streams) : j # k => streams'[j] = streams[j]
        /\ \A j \in 1..Len(streams) : streams'[j].room = streams[j].room
        /\ streams'[k].step = "listening" /\ streams'[k].pos = p + 1
    BY <1>1, <1>9, <1>10, <2>1, <2>2, StreamTyped DEF TuiIInv
  <2>4. ASSUME NEW m \in screen', m.kind = "piece"
        PROVE  \E j \in 1..Len(streams') : Sweeps(j, m)'
    <3>1. CASE m \in screen
      <4>1. PICK j \in 1..Len(streams) : Sweeps(j, m)
        BY <2>4, <3>1 DEF TuiIInv, ScreenIsSwept
      <4>2. CASE j # k
        <5>1. j \in 1..Len(streams') /\ streams'[j] = streams[j]
          BY <2>3, <4>2
        <5>2. Sweeps(j, m)'
          BY <1>9, <4>1, <5>1, StreamsKeep DEF TuiIInv
        <5> QED BY <5>1, <5>2
      <4>3. CASE j = k
        <5>1. c # Shown("tombstone", m.id)
          <6>1. ASSUME c = Shown("tombstone", m.id) PROVE FALSE
            <7>1. c.kind = "tombstone" /\ c.id = m.id
              BY <6>1 DEF Shown
            <7>2. m # Shown("piece", m.id)
              BY <1>8, <2>4, <7>1, Zenon
            <7>3. m \in TuiChunks
              BY <1>10, <3>1
            <7> QED BY <2>4, <7>2, <7>3 DEF TuiChunks, Shown
          <6> QED BY <6>1
        <5>2. Sweeps(k, m)'
          BY <1>1, <1>2, <1>4, <1>5, <1>7, <1>9, <2>3, <4>1, <4>3, <5>1, SweepsOn DEF TuiIInv
        <5> QED BY <1>1, <2>3, <5>2
      <4> QED BY <4>2, <4>3
    <3>2. CASE m \notin screen
      <4>1. m = c
        BY <1>8, <3>2
      <4>2. \A t \in (p + 1) + 1..p + 1 : FALSE
        OBVIOUS
      <4>3. rooms'[s][p + 1] = m /\ p + 1 \in 1..p + 1
        BY <1>5, <1>7, <1>9, <4>1
      <4>4. \E i \in 1..p + 1 : /\ rooms'[s][i] = m
                                /\ \A t \in i + 1..p + 1 : rooms'[s][t] # Shown("tombstone", m.id)
        BY <4>2, <4>3, Zenon
      <4>5. streams'[k].room = s
        BY <1>1, <1>2, <2>3
      <4>6. Sweeps(k, m)'
        BY <2>3, <4>4, <4>5, Zenon DEF Sweeps
      <4> QED BY <1>1, <2>3, <4>6
    <3> QED BY <3>1, <3>2
  <2>5. k \in 1..Len(streams') /\ streams'[k].step # "over"
    BY <1>1, <2>3
  <2>6. ScreenIsSwept'
    BY <2>4, <2>5 DEF ScreenIsSwept
  <2> QED BY <1>11, <2>3, <2>6 DEF TuiIInv
<1> QED BY <1>12, <1>13

\* A key that changes nothing but what is shown and which session is active.
LEMMA KeyKeeps ==
  ASSUME TuiIInv, UNCHANGED <<serverVars, streams>>, active' \in 0..Len(rooms),
         screen' \subseteq TuiChunks, \A m \in screen' : m.kind = "piece" => m \in screen,
         streaming' = streaming
  PROVE  TuiIInv'
<1>1. UNCHANGED <<rooms, open, todo, unanswered, streams>>
  BY DEF serverVars
<1>2. TuiTyped'
  BY <1>1 DEF TuiIInv, TuiTyped
<1>3. RoomsAreSwept'
  BY <1>1, SameRooms DEF TuiIInv
<1>4. ScreenIsSwept'
  BY <1>1, ScreenKeeps DEF TuiIInv
<1> QED BY <1>2, <1>3, <1>4 DEF TuiIInv

\* Enter sends a message: a stream more, and the message on the screen.
LEMMA SendsMessageKeeps ==
  ASSUME TuiIInv, SendsMessage
  PROVE  TuiIInv'
<1>1. PICK c : c = Shown("user", Len(streams) + 1)
  OBVIOUS
<1>2. PICK f : f = [room |-> active, step |-> "posted", taken |-> FALSE, pos |-> 0]
  OBVIOUS
<1>3. /\ screen' = screen \cup {c} /\ streams' = Append(streams, f)
      /\ UNCHANGED <<rooms, open, todo, unanswered, active, streaming>> /\ active # 0
  BY <1>1, <1>2 DEF SendsMessage, serverVars
<1>4. streams \in Seq(Streams) /\ active \in 1..Len(rooms)
  BY <1>3 DEF TuiIInv, TuiTyped
<1>5. c \in TuiChunks /\ c.kind = "user"
  BY <1>1, <1>4 DEF TuiChunks, Shown
<1>6. f \in Streams /\ f.room = active /\ f.pos = 0
  BY <1>2, <1>4 DEF Streams
<1>7. /\ streams' \in Seq(Streams) /\ Len(streams') = Len(streams) + 1
      /\ \A k \in 1..Len(streams) : streams'[k] = streams[k] /\ k \in 1..Len(streams')
      /\ streams'[Len(streams) + 1] = f
  <2>1. f \in Streams
    BY <1>6
  <2> QED BY <1>3, <1>4, <2>1
<1>8. \A k \in 1..Len(streams') : /\ streams'[k].room \in 1..Len(rooms')
                                  /\ streams'[k].pos <= Len(rooms'[streams'[k].room])
  <2>1. ASSUME NEW k \in 1..Len(streams')
        PROVE  streams'[k].room \in 1..Len(rooms) /\ streams'[k].pos <= Len(rooms[streams'[k].room])
    <3>1. CASE k \in 1..Len(streams)
      <4>1. streams[k].room \in 1..Len(rooms) /\ streams[k].pos <= Len(rooms[streams[k].room])
        BY <3>1 DEF TuiIInv, TuiTyped
      <4> QED BY <1>7, <3>1, <4>1
    <3>2. CASE k = Len(streams) + 1
      <4>1. streams'[k].room = active /\ streams'[k].pos = 0
        BY <1>6, <1>7, <3>2
      <4>2. rooms[active] \in Seq(TuiChunks)
        BY <1>4 DEF TuiIInv, TuiTyped
      <4> QED BY <1>4, <4>1, <4>2
    <3>3. k \in 1..Len(streams) \/ k = Len(streams) + 1
      BY <1>4, <1>7
    <3> QED BY <3>1, <3>2, <3>3
  <2> QED BY <1>3, <2>1
<1>9. TuiTyped'
  BY <1>3, <1>4, <1>5, <1>7, <1>8 DEF TuiIInv, TuiTyped
<1>10. RoomsAreSwept'
  BY <1>3, SameRooms DEF TuiIInv
<1>11. ScreenIsSwept'
  <2>1. \A m \in screen' : m.kind = "piece" => m \in screen
    BY <1>3, <1>5
  <2> QED BY <1>3, <1>7, <2>1, ScreenKeeps DEF TuiIInv
<1> QED BY <1>9, <1>10, <1>11 DEF TuiIInv

\* A session more, whose log holds no token.
LEMMA NewRoomKeeps ==
  ASSUME TuiIInv, NEW log \in Seq(TuiChunks), \A i \in 1..Len(log) : log[i].kind # "piece",
         NewRoom(log), UNCHANGED <<streams, streaming>>,
         screen' \subseteq TuiChunks, \A m \in screen' : m.kind = "piece" => m \in screen
  PROVE  TuiIInv'
<1>1. /\ rooms \in Seq(Seq(TuiChunks))
      /\ todo \in Seq(Seq(Seq(TuiChunks))) /\ Len(todo) = Len(rooms)
      /\ unanswered \in Seq(Seq(Nat)) /\ Len(unanswered) = Len(rooms)
      /\ open \in Seq(Nat) /\ ToSet(open) \subseteq 1..Len(rooms)
  BY DEF TuiIInv, TuiTyped
<1>2. /\ rooms' \in Seq(Seq(TuiChunks)) /\ Len(rooms') = Len(rooms) + 1
      /\ \A s \in 1..Len(rooms) : rooms'[s] = rooms[s] /\ s \in 1..Len(rooms')
      /\ rooms'[Len(rooms) + 1] = log
  BY <1>1 DEF NewRoom
<1>3. /\ todo' \in Seq(Seq(Seq(TuiChunks))) /\ Len(todo') = Len(todo) + 1
      /\ \A s \in 1..Len(todo) : todo'[s] = todo[s]
      /\ todo'[Len(todo) + 1] = <<>>
  BY <1>1 DEF NewRoom
<1>4. unanswered' \in Seq(Seq(Nat)) /\ Len(unanswered') = Len(unanswered) + 1
  BY <1>1 DEF NewRoom
<1>5. open' \in Seq(Nat) /\ ToSet(open') = ToSet(open) \cup {Len(rooms) + 1}
  <2>1. PICK n \in Nat : n = Len(rooms) + 1
    BY <1>1
  <2>2. open' = Append(open, n)
    BY <2>1 DEF NewRoom
  <2>3. /\ open' \in Seq(Nat) /\ Len(open') = Len(open) + 1 /\ open'[Len(open) + 1] = n
        /\ \A i \in 1..Len(open) : open'[i] = open[i]
    BY <1>1, <2>2
  <2>4. 1..Len(open') = 1..Len(open) \cup {Len(open) + 1}
    BY <1>1, <2>3
  <2>5. ToSet(open') = ToSet(open) \cup {n}
    <3>1. ASSUME NEW i \in 1..Len(open') PROVE open'[i] \in ToSet(open) \cup {n}
      <4>1. i \in 1..Len(open) \/ i = Len(open) + 1
        BY <2>4, Zenon
      <4> QED BY <2>3, <4>1 DEF ToSet
    <3>2. ASSUME NEW i \in 1..Len(open) PROVE \E j \in 1..Len(open') : open'[j] = open[i]
      BY <2>3, <2>4
    <3>3. \E j \in 1..Len(open') : open'[j] = n
      <4>1. Len(open) + 1 \in 1..Len(open')
        BY <1>1, <2>3
      <4> QED BY <2>3, <4>1, Zenon
    <3>4. DOMAIN open = 1..Len(open) /\ DOMAIN open' = 1..Len(open')
      BY <1>1, <2>3
    <3>5. \A x \in ToSet(open') : x \in ToSet(open) \cup {n}
      BY <3>1, <3>4, Zenon DEF ToSet
    <3>6. \A x \in ToSet(open) : x \in ToSet(open')
      BY <3>2, <3>4, Zenon DEF ToSet
    <3>7. n \in ToSet(open')
      BY <3>3, <3>4, Zenon DEF ToSet
    <3> QED BY <3>5, <3>6, <3>7
  <2> QED BY <2>1, <2>3, <2>5
<1>6. active' \in 0..Len(rooms')
  BY <1>1, <1>2 DEF NewRoom
<1>7. \A k \in 1..Len(streams') : /\ streams'[k].room \in 1..Len(rooms')
                                  /\ streams'[k].pos <= Len(rooms'[streams'[k].room])
  <2>1. \A s \in 1..Len(rooms) : s \in 1..Len(rooms') /\ Len(rooms[s]) <= Len(rooms'[s])
                                 /\ Len(rooms'[s]) \in Nat
    BY <1>1, <1>2, SMTT(60)
  <2> QED BY <2>1, PlacesStay DEF TuiIInv
<1>8. TuiTyped'
  <2>1. ToSet(open') \subseteq 1..Len(rooms')
    BY <1>1, <1>2, <1>5
  <2>2. streams \in Seq(Streams)
    BY DEF TuiIInv, TuiTyped
  <2> QED BY <1>1, <1>2, <1>3, <1>4, <1>5, <1>6, <1>7, <2>1, <2>2 DEF TuiTyped
<1>9. RoomsAreSwept'
  <2>1. ASSUME NEW s \in 1..Len(rooms) PROVE TodoFits(s)' /\ PiecesAreSwept(rooms'[s], Due(s)')
    <3>1. TodoFits(s) /\ PiecesAreSwept(rooms[s], Due(s))
      BY DEF TuiIInv, RoomsAreSwept
    <3>2. todo'[s] = todo[s] /\ rooms'[s] = rooms[s]
      BY <1>1, <1>2, <1>3
    <3>3. Exists(s)' = Exists(s)
      <4>1. s # Len(rooms) + 1
        BY <1>1
      <4> QED BY <1>5, <4>1 DEF Exists
    <3>4. Due(s)' = Due(s)
      BY <3>2, <3>3 DEF Due
    <3>5. TodoFits(s)'
      BY <3>1, <3>2, Zenon DEF TodoFits
    <3> QED BY <3>1, <3>2, <3>4, <3>5
  <2>2. ASSUME NEW s, s = Len(rooms) + 1 PROVE TodoFits(s)' /\ PiecesAreSwept(rooms'[s], Due(s)')
    <3>1. todo'[s] = <<>> /\ rooms'[s] = log
      BY <1>1, <1>2, <1>3, <2>2
    <3>2. PiecesAreSwept(log, Due(s)')
      BY DEF PiecesAreSwept
    <3> QED BY <3>1, <3>2 DEF TodoFits
  <2>3. \A s \in 1..Len(rooms') : s \in 1..Len(rooms) \/ s = Len(rooms) + 1
    BY <1>1, <1>2
  <2> QED BY <2>1, <2>2, <2>3, Zenon DEF RoomsAreSwept
<1>10. ScreenIsSwept'
  <2>1. \A s \in 1..Len(rooms) : \A i \in 1..Len(rooms[s]) : rooms'[s][i] = rooms[s][i]
    BY <1>2
  <2> QED BY <2>1, ScreenKeeps DEF TuiIInv
<1> QED BY <1>8, <1>9, <1>10 DEF TuiIInv

\* The active session is deleted, and what is still due in it never comes.
LEMMA DeletesSessionKeeps ==
  ASSUME TuiIInv, DeletesSession
  PROVE  TuiIInv'
<1>1. UNCHANGED <<rooms, todo, unanswered, streams, streaming>>
  BY DEF DeletesSession
<1>2. CASE active = 0
  <2>1. UNCHANGED <<open, screen, active>>
    BY <1>2 DEF DeletesSession
  <2>2. screen \subseteq TuiChunks /\ active \in 0..Len(rooms)
    BY DEF TuiIInv, TuiTyped
  <2> QED BY <1>1, <2>1, <2>2, KeyKeeps DEF serverVars
<1>3. CASE active # 0
  <2>1. /\ open' = RemoveFirst(open, active) /\ screen' = {}
        /\ active' = IF open' = <<>> THEN 0 ELSE open'[1]
    BY <1>3 DEF DeletesSession
  <2>2. open \in Seq(Nat) /\ ToSet(open) \subseteq 1..Len(rooms)
    BY DEF TuiIInv, TuiTyped
  <2>3. open' \in Seq(Nat) /\ ToSet(open') \subseteq ToSet(open)
    <3>1. RemoveFirst(open, active) \in Seq(Nat) /\ ToSet(RemoveFirst(open, active)) \subseteq ToSet(open)
      BY <2>2, RemovedIs
    <3> QED BY <2>1, <3>1
  <2>4. active' \in 0..Len(rooms)
    <3>1. CASE open' = <<>>
      BY <2>1, <3>1 DEF TuiIInv, TuiTyped
    <3>2. CASE open' # <<>>
      <4>1. open'[1] \in ToSet(open')
        BY <2>3, <3>2 DEF ToSet
      <4>2. open'[1] \in 1..Len(rooms)
        BY <2>2, <2>3, <4>1
      <4> QED BY <2>1, <3>2, <4>2
    <3> QED BY <3>1, <3>2
  <2>5. TuiTyped'
    BY <1>1, <2>1, <2>2, <2>3, <2>4 DEF TuiIInv, TuiTyped
  <2>6. RoomsAreSwept'
    <3>1. ASSUME NEW s \in 1..Len(rooms) PROVE TodoFits(s)' /\ Due(s) \subseteq Due(s)'
      <4>1. TodoFits(s) /\ (Exists(s)' => Exists(s))
        BY <2>3 DEF TuiIInv, RoomsAreSwept, Exists
      <4>2. todo'[s] = todo[s]
        BY <1>1
      <4>3. \A id \in Due(s) : id \in Due(s)'
        BY <4>1, <4>2, Zenon DEF Due
      <4> QED BY <4>1, <4>2, <4>3, Zenon DEF TodoFits
    <3> QED BY <1>1, <3>1, RoomsKeep DEF TuiIInv
  <2>7. ScreenIsSwept'
    BY <1>1, <2>1, ScreenKeeps DEF TuiIInv
  <2> QED BY <2>5, <2>6, <2>7 DEF TuiIInv
<1> QED BY <1>2, <1>3

\* The keys.
LEMMA PressesKeep ==
  ASSUME TuiIInv, Presses
  PROVE  TuiIInv'
<1>1. active \in 0..Len(rooms) /\ screen \subseteq TuiChunks /\ TuiTyped
  BY DEF TuiIInv, TuiTyped
<1>2. \A s \in ToSet(open) : s \in 1..Len(rooms)
  BY DEF TuiIInv, TuiTyped
<1>3. CASE SendsMessage
  BY <1>3, SendsMessageKeeps
<1>4. CASE OpensSessions \/ Escapes \/ OpensAgents \/ AsksToDelete \/ Refuses
  <2>1. UNCHANGED <<serverVars, streams, screen, streaming, active, raw>>
    BY <1>4 DEF OpensSessions, Escapes, OpensAgents, AsksToDelete, Refuses
  <2> QED BY <1>1, <2>1, KeyKeeps
<1>5. CASE SwitchesSession
  <2>1. /\ UNCHANGED <<serverVars, streams, streaming, active>>
        /\ screen' = IF active = 0 THEN {} ELSE Loaded(active, raw)
    BY <1>5 DEF SwitchesSession
  <2>2. CASE active = 0
    BY <1>1, <2>1, <2>2, KeyKeeps
  <2>3. CASE active # 0
    <3>1. active \in 1..Len(rooms)
      BY <1>1, <2>3
    <3>2. screen' \subseteq TuiChunks /\ \A m \in screen' : m.kind # "piece"
      BY <1>1, <2>1, <2>3, <3>1, LoadedIs
    <3> QED BY <1>1, <2>1, <3>2, KeyKeeps
  <2> QED BY <2>2, <2>3
<1>6. CASE CreatesSession
  <2>1. NewRoom(<<>>) /\ screen' = {} /\ UNCHANGED <<streams, streaming>>
    BY <1>6 DEF CreatesSession
  <2>2. PICK log : log = <<>>
    OBVIOUS
  <2>3. log \in Seq(TuiChunks) /\ \A i \in 1..Len(log) : FALSE
    BY <2>2
  <2> QED BY <2>1, <2>2, <2>3, NewRoomKeeps
<1>7. CASE ForksSession
  <2>1. /\ NewRoom(History(active)) /\ screen' = Loaded(active, raw) /\ active # 0
        /\ UNCHANGED <<streams, streaming>>
    BY <1>7 DEF ForksSession
  <2>2. active \in 1..Len(rooms)
    BY <1>1, <2>1
  <2>3. screen' \subseteq TuiChunks /\ \A m \in screen' : m.kind # "piece"
    BY <1>1, <2>1, <2>2, LoadedIs
  <2>4. PICK log \in Seq(TuiChunks) : log = History(active) /\ \A i \in 1..Len(log) : log[i].kind # "piece"
    BY <1>1, <2>2, HistoryIs
  <2>5. NewRoom(log)
    BY <2>1, <2>4
  <2> QED BY <2>1, <2>3, <2>4, <2>5, NewRoomKeeps
<1>8. CASE DeletesSession
  BY <1>8, DeletesSessionKeeps
<1>9. CASE Clears
  <2>1. screen' = {} /\ UNCHANGED <<serverVars, streams, streaming, active>>
    BY <1>9 DEF Clears
  <2> QED BY <1>1, <2>1, KeyKeeps
<1>10. CASE TogglesRaw
  <2>1. /\ UNCHANGED <<serverVars, streams, streaming, active>>
        /\ screen' = IF active = 0 THEN screen ELSE Loaded(active, ~raw)
    BY <1>10 DEF TogglesRaw
  <2>2. CASE active = 0
    BY <1>1, <2>1, <2>2, KeyKeeps
  <2>3. CASE active # 0
    <3>1. active \in 1..Len(rooms)
      BY <1>1, <2>3
    <3>2. Loaded(active, ~raw) \subseteq TuiChunks /\ \A m \in Loaded(active, ~raw) : m.kind # "piece"
      BY <1>1, <3>1, LoadedIs, Zenon
    <3>3. screen' \subseteq TuiChunks /\ \A m \in screen' : m.kind # "piece"
      BY <2>1, <2>3, <3>2, Zenon
    <3> QED BY <1>1, <2>1, <3>3, KeyKeeps
  <2> QED BY <2>2, <2>3
<1>11. ASSUME NEW s \in ToSet(open), Moves(s) PROVE TuiIInv'
  <2>1. active' = s /\ UNCHANGED <<serverVars, streams, screen, streaming>>
    BY <1>11 DEF Moves
  <2>2. active' \in 0..Len(rooms)
    BY <1>2, <2>1
  <2> QED BY <1>1, <2>1, <2>2, KeyKeeps
<1> QED BY <1>3, <1>4, <1>5, <1>6, <1>7, <1>8, <1>9, <1>10, <1>11 DEF Presses

\* At the start there is a session and nothing on the screen.
LEMMA TuiInitEstablishes ==
  ASSUME TuiInit
  PROVE  TuiIInv
<1>1. /\ rooms = << <<>> >> /\ open = <<1>> /\ todo = << <<>> >> /\ unanswered = << <<>> >>
      /\ streams = <<>> /\ screen = {} /\ streaming = FALSE /\ active = 1
  BY DEF TuiInit
<1>2. ToSet(open) \subseteq 1..Len(rooms)
  BY <1>1 DEF ToSet
<1>3. TuiTyped
  BY <1>1, <1>2 DEF TuiTyped
<1>4. RoomsAreSwept
  BY <1>1 DEF RoomsAreSwept, TodoFits, PiecesAreSwept
<1>5. ScreenIsSwept
  BY <1>1 DEF ScreenIsSwept
<1> QED BY <1>3, <1>4, <1>5 DEF TuiIInv

\* Every step of the bus, the streams and the keyboard keeps the invariant of the screen.
THEOREM TuiInductive == TuiSpec => []TuiIInv
<1>1. TuiInit => TuiIInv
  BY TuiInitEstablishes
<1>2. TuiIInv /\ [TuiNext]_tuiVars => TuiIInv'
  <2> SUFFICES ASSUME TuiIInv, [TuiNext]_tuiVars PROVE TuiIInv'
    OBVIOUS
  <2>1. ASSUME NEW s \in DOMAIN rooms, AnswerBegins(s) PROVE TuiIInv'
    BY <2>1, AnswerBeginsKeeps
  <2>2. ASSUME NEW s \in DOMAIN rooms, AnswerGoesOn(s) PROVE TuiIInv'
    BY <2>2, AnswerGoesOnKeeps
  <2>3. ASSUME NEW k \in DOMAIN streams, Chats(k) PROVE TuiIInv'
    BY <2>3, BusTakesMessageKeeps, ChatSubscribesKeeps, DrainsKeeps, StreamIsCutKeeps DEF Chats
  <2>4. CASE Presses
    BY <2>4, PressesKeep
  <2>5. CASE UNCHANGED tuiVars
    <3>1. UNCHANGED <<serverVars, streams, screen, streaming, active>>
      BY <2>5 DEF tuiVars, appVars
    <3>2. active \in 0..Len(rooms) /\ screen \subseteq TuiChunks
      BY DEF TuiIInv, TuiTyped
    <3> QED BY <3>1, <3>2, KeyKeeps
  <2> QED BY <2>1, <2>2, <2>3, <2>4, <2>5 DEF TuiNext
<1> QED BY <1>1, <1>2, PTL DEF TuiSpec

\* When every stream has ended by itself, the screen is free again and shows no token of an
\* answer: run_app's channel is drained, whatever was typed, switched, forked or deleted.
THEOREM ScreenAlwaysSettles == TuiSpec => []ScreenSettles
<1>1. TuiIInv => ScreenSettles
  <2> SUFFICES ASSUME TuiIInv, \A k \in DOMAIN streams : streams[k].step = "over"
               PROVE  ~streaming /\ \A m \in screen : m.kind # "piece"
    BY DEF ScreenSettles
  <2>1. \A k \in 1..Len(streams) : streams[k].step = "over"
    BY DEF TuiIInv, TuiTyped
  <2>2. \A k \in 1..Len(streams) : \A m : ~Sweeps(k, m)
    BY <2>1 DEF Sweeps
  <2> QED BY <2>1, <2>2 DEF TuiIInv, ScreenIsSwept
<1> QED BY <1>1, TuiInductive, PTL

-----------------------------------------------------------------------------
(* LlmContext: the configuration *)

\* The settings of a session.
Setting == [key : Values, legacy : Values]

\* The greatest and the least of a set of numbers.
LEMMA MaxIs ==
    ASSUME NEW T, T \subseteq Nat, NEW m \in T, \A k \in T : k <= m
    PROVE  Max(T) = m
<1>1. \A n \in T : (\A k \in T : n >= k) => n = m
  OBVIOUS
<1> QED
  BY <1>1 DEF Max

LEMMA MinIs ==
    ASSUME NEW T, T \subseteq Nat, NEW m \in T, \A k \in T : m <= k
    PROVE  Min(T) = m
<1>1. \A n \in T : (\A k \in T : n <= k) => n = m
  OBVIOUS
<1> QED
  BY <1>1 DEF Min

\* The value is that of the first legacy key from a on, of the first n settings.
LegacyFrom(a, n, v) ==
    \/ v = "none" /\ \A k \in 1..n : k >= a => settings[k].legacy \in {"absent", "none"}
    \/ \E m \in 1..n :
          /\ m >= a /\ settings[m].legacy \notin {"absent", "none"} /\ v = settings[m].legacy
          /\ \A k \in 1..n : k >= a /\ k < m => settings[k].legacy \in {"absent", "none"}

\* The last namespaced key of the first n settings is at a, and the value is v.
DueFrom(a, n, v) ==
    /\ a = 0 \/ settings[a].key # "absent"
    /\ \A k \in 1..n : k > a => settings[k].key = "absent"
    /\ IF a # 0 /\ settings[a].key # "none" THEN v = settings[a].key ELSE LegacyFrom(a, n, v)

\* One more setting.
LEMMA DueKept ==
    ASSUME settings \in Seq(Setting), NEW n \in 1..Len(settings), NEW v, NEW a \in 0..n - 1,
           DueFrom(a, n - 1, v)
    PROVE  \E b \in 0..n : DueFrom(b, n, Merged(v, settings[n]))
<1>1. PICK key, legacy : key = settings[n].key /\ legacy = settings[n].legacy
  OBVIOUS
<1>2. n \in Nat /\ n > 0 /\ n - 1 \in Nat
  OBVIOUS
<1>3. \A k \in 1..n : k = n \/ k \in 1..n - 1
  OBVIOUS
<1>4. PICK w : w = Merged(v, settings[n])
  OBVIOUS
<1>5. CASE key # "absent"
  <2>1. w = IF key = "none" /\ legacy # "absent" THEN legacy ELSE key
    BY <1>1, <1>4, <1>5 DEF Merged
  <2>2. key = "none" => LegacyFrom(n, n, w)
    <3>1. CASE legacy \in {"absent", "none"} /\ key = "none"
      BY <1>1, <1>3, <2>1, <3>1 DEF LegacyFrom
    <3>2. CASE legacy \notin {"absent", "none"} /\ key = "none"
      <4>1. n \in 1..n /\ n >= n /\ w = settings[n].legacy
        BY <1>1, <2>1, <3>2
      <4> QED
        BY <1>1, <3>2, <4>1 DEF LegacyFrom
    <3> QED
      BY <3>1, <3>2
  <2>3. DueFrom(n, n, w)
    BY <1>1, <1>2, <1>5, <2>1, <2>2 DEF DueFrom
  <2> QED
    BY <1>2, <1>4, <2>3
<1>6. CASE key = "absent"
  <2>1. w = IF v = "none" /\ legacy # "absent" THEN legacy ELSE v
    BY <1>1, <1>4, <1>6 DEF Merged
  <2>2. \A k \in 1..n : k > a => settings[k].key = "absent"
    BY <1>1, <1>3, <1>6 DEF DueFrom
  <2>3. a # 0 /\ settings[a].key # "none" => w = settings[a].key
    BY <2>1 DEF DueFrom
  <2>4. ASSUME LegacyFrom(a, n - 1, v)
        PROVE  LegacyFrom(a, n, w)
    <3>1. CASE \E m \in 1..n - 1 :
                 /\ m >= a /\ settings[m].legacy \notin {"absent", "none"} /\ v = settings[m].legacy
                 /\ \A k \in 1..n - 1 : k >= a /\ k < m => settings[k].legacy \in {"absent", "none"}
      <4>1. PICK m \in 1..n - 1 :
                 /\ m >= a /\ settings[m].legacy \notin {"absent", "none"} /\ v = settings[m].legacy
                 /\ \A k \in 1..n - 1 : k >= a /\ k < m => settings[k].legacy \in {"absent", "none"}
        BY <3>1
      <4>2. w = v /\ m \in 1..n
        BY <2>1, <4>1
      <4>3. \A k \in 1..n : k >= a /\ k < m => settings[k].legacy \in {"absent", "none"}
        BY <1>3, <4>1
      <4> QED
        BY <4>1, <4>2, <4>3 DEF LegacyFrom
    <3>2. CASE v = "none" /\ \A k \in 1..n - 1 : k >= a => settings[k].legacy \in {"absent", "none"}
      <4>1. CASE legacy \in {"absent", "none"}
        BY <1>1, <1>3, <2>1, <3>2, <4>1 DEF LegacyFrom
      <4>2. CASE legacy \notin {"absent", "none"}
        <5>1. n \in 1..n /\ n >= a /\ w = settings[n].legacy
          BY <1>1, <2>1, <3>2, <4>2
        <5>2. \A k \in 1..n : k >= a /\ k < n => settings[k].legacy \in {"absent", "none"}
          BY <1>3, <3>2
        <5> QED
          BY <1>1, <4>2, <5>1, <5>2 DEF LegacyFrom
      <4> QED
        BY <4>1, <4>2
    <3> QED
      BY <2>4, <3>1, <3>2 DEF LegacyFrom
  <2>5. DueFrom(a, n, w)
    BY <2>2, <2>3, <2>4 DEF DueFrom
  <2>6. a \in 0..n
    OBVIOUS
  <2> QED
    BY <1>4, <2>5, <2>6
<1> QED
  BY <1>5, <1>6

\* extract_config is the fold of Merged over the settings.
LEMMA ConfigIs ==
    ASSUME settings \in Seq(Setting)
    PROVE  \E f : /\ f[0] = "none" /\ Config = f[Len(settings)]
                  /\ \A n \in 1..Len(settings) : f[n] = Merged(f[n - 1], settings[n])
<1>1. PICK N \in Nat : N = Len(settings)
  OBVIOUS
<1>2. \A n \in 1..N : settings[n].key \in Values /\ settings[n].legacy \in Values
  <2>1. \A n \in 1..N : settings[n] \in Setting
    BY <1>1
  <2> QED
    BY <2>1 DEF Setting
<1>3. PICK F : F = [x \in (1..N) \X Values |-> Merged(x[2], settings[x[1]])]
  OBVIOUS
<1>4. \A n \in 1..N : \A v \in Values : Merged(v, settings[n]) \in Values
  BY <1>2 DEF Merged, Values
<1>5. Steps(F, N, Values)
  BY <1>3, <1>4 DEF Steps
<1>6. \A n \in 1..N : \A v \in Values : F[<<n, v>>] = Merged(v, settings[n])
  BY <1>3
<1>7. PICK g \in [0..N -> Values] : g[0] = "none" /\ \A n \in 1..N : g[n] = F[<<n, g[n - 1]>>]
  <2>1. "none" \in Values
    BY DEF Values
  <2>2. \E h : Solves(h, N, Values, "none", F)
    BY <1>5, <2>1, Recursion
  <2> QED
    BY <2>2 DEF Solves
<1>8. \A n \in 1..N : g[n] = Merged(g[n - 1], settings[n])
  <2> SUFFICES ASSUME NEW n \in 1..N
               PROVE  g[n] = Merged(g[n - 1], settings[n])
    OBVIOUS
  <2>1. g[n - 1] \in Values
    BY <1>7
  <2> QED
    BY <1>6, <1>7, <2>1
<1> DEFINE Step(h) == [n \in 0..Len(settings) |-> IF n = 0 THEN "none" ELSE Merged(h[n - 1], settings[n])]
           value == CHOOSE h : h = Step(h)
<1>9. g = Step(g)
  <2>1. \A n \in 0..N : g[n] = IF n = 0 THEN "none" ELSE Merged(g[n - 1], settings[n])
    BY <1>7, <1>8
  <2>2. g = [n \in 0..N |-> IF n = 0 THEN "none" ELSE Merged(g[n - 1], settings[n])]
    BY <1>7, <2>1
  <2> QED
    BY <1>1, <2>2
<1>10. value = Step(value)
  BY <1>9, Zenon
<1>11. Config = value[Len(settings)]
  BY Zenon DEF Config
<1>12. PICK f : f = value
  OBVIOUS
<1>13. f = [n \in 0..N |-> IF n = 0 THEN "none" ELSE Merged(f[n - 1], settings[n])]
  BY <1>1, <1>10, <1>12, Zenon
<1>14. Config = f[N]
  BY <1>1, <1>11, <1>12, Zenon
<1> HIDE DEF Step, value
<1>15. f[0] = "none" /\ \A n \in 1..N : f[n] = Merged(f[n - 1], settings[n])
  <2>1. \A n \in 0..N : f[n] = IF n = 0 THEN "none" ELSE Merged(f[n - 1], settings[n])
    BY <1>13, Zenon
  <2> QED
    BY <1>1, <2>1
<1> QED
  BY <1>1, <1>14, <1>15

\* The value is that which is due after all the settings.
LEMMA ConfigDue ==
    ASSUME settings \in Seq(Setting)
    PROVE  \E a \in 0..Len(settings) : DueFrom(a, Len(settings), Config)
<1>1. PICK f : /\ f[0] = "none" /\ Config = f[Len(settings)]
               /\ \A n \in 1..Len(settings) : f[n] = Merged(f[n - 1], settings[n])
  BY ConfigIs
<1>2. PICK N \in Nat : N = Len(settings)
  OBVIOUS
<1> DEFINE G == {n \in 0..N : \E a \in 0..n : DueFrom(a, n, f[n])}
<1>3. 0 \in G
  <2>1. LegacyFrom(0, 0, "none")
    BY DEF LegacyFrom
  <2>2. DueFrom(0, 0, f[0])
    BY <1>1, <2>1 DEF DueFrom
  <2> QED
    BY <1>2, <2>2
<1>4. ASSUME NEW n \in 1..N, n - 1 \in G
      PROVE  n \in G
  <2>1. PICK a \in 0..n - 1 : DueFrom(a, n - 1, f[n - 1])
    BY <1>4
  <2>2. \E b \in 0..n : DueFrom(b, n, Merged(f[n - 1], settings[n]))
    BY <1>2, <2>1, DueKept
  <2>3. f[n] = Merged(f[n - 1], settings[n])
    BY <1>1, <1>2
  <2> QED
    BY <2>2, <2>3
<1>5. N \in G
  <2> HIDE DEF G
  <2>1. \A n \in 0..N : n \in G
    BY <1>2, <1>3, <1>4, UpTo
  <2> QED
    BY <1>2, <2>1
<1> QED
  BY <1>1, <1>2, <1>5

\* The configuration is the one that the precedence of the keys gives.
LEMMA ConfigHolds ==
    ASSUME settings \in Seq(Setting)
    PROVE  ConfigIsMerged
<1>1. PICK N \in Nat : N = Len(settings)
  OBVIOUS
<1>2. PICK a \in 0..N : DueFrom(a, N, Config)
  BY <1>1, ConfigDue
<1> DEFINE named == {k \in DOMAIN settings : settings[k].key # "absent"}
           from == IF named = {} THEN 0 ELSE Max(named)
           legacy == {settings[k].legacy : k \in {m \in DOMAIN settings : m >= from}} \ {"absent", "none"}
<1>3. DOMAIN settings = 1..N
  BY <1>1
<1>4. from = a
  <2>1. CASE a = 0
    <3>1. named = {}
      BY <1>2, <1>3, <2>1 DEF DueFrom
    <3> QED
      BY <2>1, <3>1
  <2>2. CASE a # 0
    <3>1. named \subseteq Nat /\ a \in named /\ \A k \in named : k <= a
      BY <1>2, <1>3, <2>2 DEF DueFrom
    <3> HIDE DEF named
    <3>2. Max(named) = a
      BY <3>1, MaxIs
    <3>3. named # {}
      BY <3>1
    <3> QED
      BY <3>2, <3>3, Zenon
  <2> QED
    BY <2>1, <2>2
<1>5. \A v : LegacyFrom(a, N, v) => v \in legacy \/ (legacy = {} /\ v = "none")
  <2>1. legacy = {settings[k].legacy : k \in {m \in 1..N : m >= a}} \ {"absent", "none"}
    BY <1>3, <1>4
  <2>. QED
    BY <2>1 DEF LegacyFrom
<1>6. IF from # 0 /\ settings[from].key # "none" THEN Config = settings[from].key
      ELSE Config \in legacy \/ (legacy = {} /\ Config = "none")
  <2> HIDE DEF legacy, from
  <2> QED
    BY <1>2, <1>4, <1>5 DEF DueFrom
<1> QED
  BY <1>6, Zenon DEF ConfigIsMerged

-----------------------------------------------------------------------------
(* LlmContext: the messages *)

\* A message, and the roles of the conversation.
Message == [role : {"system", "user", "assistant"}, text : Seq(Nat)]
Role == {"user", "assistant"}

\* Texts and that of one more message.
With(t, m) == t \o m.text

\* f holds the text of the first messages of the list.
Sums(list, f) ==
    /\ f[0] = <<>> /\ Flat(list) = f[Len(list)]
    /\ \A n \in 0..Len(list) : f[n] \in Seq(Nat)
    /\ \A n \in 1..Len(list) : f[n] = With(f[n - 1], list[n])

\* The text of messages is put together from the first to the last.
LEMMA FlatIs ==
    ASSUME NEW list \in Seq(Message)
    PROVE  \E f : Sums(list, f)
<1>1. PICK N \in Nat : N = Len(list)
  OBVIOUS
<1>2. PICK T : T = Seq(Nat)
  OBVIOUS
<1>3. \A n \in 1..N : list[n].text \in T
  <2>1. \A n \in 1..N : list[n] \in Message
    BY <1>1
  <2> QED
    BY <1>2, <2>1 DEF Message
<1>4. PICK F : F = [x \in (1..N) \X T |-> With(x[2], list[x[1]])]
  OBVIOUS
<1>5. \A n \in 1..N : \A v \in T : With(v, list[n]) \in T
  BY <1>2, <1>3 DEF With
<1>6. Steps(F, N, T)
  BY <1>4, <1>5 DEF Steps
<1>7. \A n \in 1..N : \A v \in T : F[<<n, v>>] = With(v, list[n])
  BY <1>4
<1>8. PICK g \in [0..N -> T] : g[0] = <<>> /\ \A n \in 1..N : g[n] = F[<<n, g[n - 1]>>]
  <2>1. <<>> \in T
    BY <1>2
  <2>2. \E h : Solves(h, N, T, <<>>, F)
    BY <1>6, <2>1, Recursion
  <2> QED
    BY <2>2 DEF Solves
<1>9. \A n \in 1..N : g[n] = With(g[n - 1], list[n])
  <2> SUFFICES ASSUME NEW n \in 1..N
               PROVE  g[n] = With(g[n - 1], list[n])
    OBVIOUS
  <2>1. g[n - 1] \in T
    BY <1>8
  <2> QED
    BY <1>7, <1>8, <2>1
<1> DEFINE Step(h) == [n \in 0..Len(list) |-> IF n = 0 THEN <<>> ELSE With(h[n - 1], list[n])]
           text == CHOOSE h : h = Step(h)
<1>10. g = Step(g)
  <2>1. \A n \in 0..N : g[n] = IF n = 0 THEN <<>> ELSE With(g[n - 1], list[n])
    BY <1>8, <1>9
  <2>2. g = [n \in 0..N |-> IF n = 0 THEN <<>> ELSE With(g[n - 1], list[n])]
    BY <1>8, <2>1
  <2> QED
    BY <1>1, <2>2
<1>11. text = Step(text)
  BY <1>10, Zenon
<1>12. Flat(list) = text[Len(list)]
  BY Zenon DEF Flat, With
<1>13. PICK f : f = text
  OBVIOUS
<1>14. f = [n \in 0..N |-> IF n = 0 THEN <<>> ELSE With(f[n - 1], list[n])]
  BY <1>1, <1>11, <1>13, Zenon
<1>15. Flat(list) = f[N]
  BY <1>1, <1>12, <1>13, Zenon
<1> HIDE DEF Step, text
<1>16. f[0] = <<>> /\ \A n \in 1..N : f[n] = With(f[n - 1], list[n])
  <2>1. \A n \in 0..N : f[n] = IF n = 0 THEN <<>> ELSE With(f[n - 1], list[n])
    BY <1>14, Zenon
  <2> QED
    BY <1>1, <2>1
<1> DEFINE G == {n \in 0..N : f[n] \in T}
<1>17. 0 \in G
  <2>1. <<>> \in T
    BY <1>2
  <2> QED
    BY <1>1, <1>16, <2>1
<1>18. ASSUME NEW n \in 1..N, n - 1 \in G
       PROVE  n \in G
  <2>1. f[n - 1] \in T /\ f[n] = With(f[n - 1], list[n])
    BY <1>16, <1>18
  <2> QED
    BY <1>5, <2>1
<1>19. \A n \in 0..N : n \in G
  <2> HIDE DEF G
  <2> QED
    BY <1>17, <1>18, UpTo
<1> QED
  BY <1>1, <1>2, <1>15, <1>16, <1>19 DEF Sums

\* The text of messages and one more.
LEMMA FlatAppend ==
    ASSUME NEW list \in Seq(Message), NEW m \in Message, NEW more, more = Append(list, m)
    PROVE  /\ Flat(list) \in Seq(Nat) /\ Flat(more) \in Seq(Nat)
           /\ Flat(more) = Flat(list) \o m.text
<1>1. PICK N \in Nat : N = Len(list)
  OBVIOUS
<1>2. more \in Seq(Message) /\ Len(more) = N + 1 /\ more[N + 1] = m /\ \A n \in 1..N : more[n] = list[n]
  BY <1>1
<1>3. PICK f : /\ f[0] = <<>> /\ Flat(list) = f[N]
               /\ \A n \in 0..N : f[n] \in Seq(Nat)
               /\ \A n \in 1..N : f[n] = With(f[n - 1], list[n])
  <2>1. PICK f : Sums(list, f)
    BY FlatIs
  <2> QED
    BY <1>1, <2>1, Zenon DEF Sums
<1>4. PICK g : /\ g[0] = <<>> /\ Flat(more) = g[N + 1]
               /\ \A n \in 0..N + 1 : g[n] \in Seq(Nat)
               /\ \A n \in 1..N + 1 : g[n] = With(g[n - 1], more[n])
  <2>1. more \in Seq(Message)
    BY <1>2
  <2>2. PICK g : Sums(more, g)
    BY <2>1, FlatIs
  <2> QED
    BY <1>2, <2>2, Zenon DEF Sums
<1> DEFINE G == {n \in 0..N : g[n] = f[n]}
<1>5. 0 \in G
  BY <1>3, <1>4
<1>6. ASSUME NEW n \in 1..N, n - 1 \in G
      PROVE  n \in G
  <2>1. n \in 1..N + 1
    BY <1>1
  <2>2. g[n - 1] = f[n - 1] /\ more[n] = list[n]
    BY <1>2, <1>6
  <2>3. g[n] = With(g[n - 1], more[n]) /\ f[n] = With(f[n - 1], list[n])
    BY <1>3, <1>4, <2>1
  <2>4. g[n] = f[n]
    BY <2>2, <2>3
  <2> QED
    BY <1>1, <2>4
<1>7. N \in G
  <2> HIDE DEF G
  <2>1. \A n \in 0..N : n \in G
    BY <1>5, <1>6, UpTo
  <2> QED
    BY <1>1, <2>1
<1>8. (N + 1) - 1 = N /\ N + 1 \in 1..N + 1 /\ N \in 0..N
  BY <1>1
<1>9. Flat(more) = With(f[N], m)
  <2>1. g[N + 1] = With(g[(N + 1) - 1], more[N + 1])
    BY <1>4, <1>8
  <2> QED
    BY <1>2, <1>4, <1>7, <1>8, <2>1
<1>10. Flat(list) \in Seq(Nat) /\ Flat(more) \in Seq(Nat)
  BY <1>3, <1>4, <1>8
<1> QED
  BY <1>3, <1>9, <1>10 DEF With

\* No messages have no text.
LEMMA FlatOfNone == Flat(<<>>) = <<>>
<1>1. <<>> \in Seq(Message) /\ Len(<<>>) = 0
  OBVIOUS
<1>2. PICK e : e = <<>>
  OBVIOUS
<1>3. e \in Seq(Message) /\ Len(e) = 0
  BY <1>1, <1>2
<1>4. Flat(e) = <<>>
  <2>1. PICK f : Sums(e, f)
    BY <1>3, FlatIs
  <2> QED
    BY <1>2, <1>3, <2>1 DEF Sums
<1> QED
  BY <1>2, <1>4

\* What is said in the conversation.
Said == [role : Role, text : Seq(Nat)]

\* The role of a message is not that of the one before it.
Alternates(q) == \A k \in 1..Len(q) - 1 : q[k].role # q[k + 1].role

\* A longer text of a message.
Grown(m, i) == [role |-> m.role, text |-> Append(m.text, i)]

\* q is front and one more element.
Ends(q, front, m) == q = Append(front, m)

\* The last of the messages, and those before it.
LEMMA LastOf ==
    ASSUME NEW S, NEW q \in Seq(S), q # <<>>
    PROVE  \E front \in Seq(S), m \in S :
              Ends(q, front, m) /\ m = Last(q) /\ Len(q) = Len(front) + 1
<1>1. PICK N \in Nat : N = Len(q) /\ N > 0
  OBVIOUS
<1>2. PICK front : front = [n \in 1..N - 1 |-> q[n]]
  OBVIOUS
<1>3. front \in Seq(S) /\ Len(front) = N - 1
  BY <1>1, <1>2
<1>4. q[N] \in S /\ q[N] = Last(q)
  BY <1>1 DEF Last
<1>5. q = Append(front, q[N])
  BY <1>1, <1>2, <1>3, <1>4
<1> QED
  BY <1>1, <1>3, <1>4, <1>5 DEF Ends

\* A longer text is that of a message.
LEMMA LongerIs ==
    ASSUME NEW m \in Message, NEW i \in Nat
    PROVE  /\ Grown(m, i) \in Message /\ Grown(m, i).role = m.role
           /\ Grown(m, i).text = Append(m.text, i)
           /\ m \in Said => Grown(m, i) \in Said
<1>1. m.text \in Seq(Nat) /\ m.role \in {"system", "user", "assistant"}
  BY DEF Message
<1>2. Append(m.text, i) \in Seq(Nat)
  BY <1>1
<1>3. m \in Said => m.role \in Role
  BY DEF Said
<1>4. PICK t : t = Append(m.text, i)
  OBVIOUS
<1>5. Grown(m, i) = [role |-> m.role, text |-> t]
  BY <1>4 DEF Grown
<1> QED
  BY <1>1, <1>2, <1>3, <1>4, <1>5 DEF Said, Message

\* Coalesced changes the last message or adds one.
LEMMA CoalescedIs ==
    ASSUME NEW list \in Seq(Message), NEW role \in Role, NEW i \in Nat
    PROVE  /\ \A front \in Seq(Message) : \A m \in Message :
                 Ends(list, front, m) /\ m.role = role =>
                    Ends(Coalesced(list, role, i), front, Grown(m, i))
           /\ list = <<>> \/ Last(list).role # role =>
                 Ends(Coalesced(list, role, i), list, [role |-> role, text |-> <<i>>])
<1>1. ASSUME NEW front \in Seq(Message), NEW m \in Message, list = Append(front, m), m.role = role
      PROVE  Coalesced(list, role, i) = Append(front, Grown(m, i))
  <2>1. PICK N \in Nat : N = Len(front)
    OBVIOUS
  <2>2. Len(list) = N + 1 /\ list[N + 1] = m /\ list # <<>> /\ Last(list) = m
    BY <1>1, <2>1 DEF Last
  <2>3. Coalesced(list, role, i) = [list EXCEPT ![N + 1].text = Append(@, i)]
    BY <1>1, <2>2 DEF Coalesced
  <2>4. PICK t : t = Append(m.text, i)
    OBVIOUS
  <2>5. PICK l : l = Grown(m, i)
    OBVIOUS
  <2>6. [list EXCEPT ![N + 1].text = Append(@, i)] = [list EXCEPT ![N + 1] = l]
    <3>1. PICK a, b : a = m.role /\ b = m.text /\ m = [role |-> a, text |-> b]
      BY DEF Message
    <3>2. [m EXCEPT !.text = t] = l
      <4>1. l = [role |-> a, text |-> t]
        BY <2>4, <2>5, <3>1, Zenon DEF Grown
      <4>2. [m EXCEPT !.text = t] = [role |-> a, text |-> t]
        BY <3>1
      <4> QED
        BY <4>1, <4>2
    <3>3. Append(list[N + 1].text, i) = t
      BY <2>2, <2>4, Zenon
    <3>4. [list EXCEPT ![N + 1].text = Append(@, i)] = [list EXCEPT ![N + 1].text = t]
      BY <3>3
    <3>5. [list EXCEPT ![N + 1].text = t] = [list EXCEPT ![N + 1] = l]
      BY <2>2, <3>2
    <3> QED
      BY <3>4, <3>5, Zenon
  <2>7. [list EXCEPT ![N + 1] = l] = Append(front, l)
    <3>1. l \in Message
      BY <2>5, LongerIs
    <3>2. PICK r : r = [list EXCEPT ![N + 1] = l]
      OBVIOUS
    <3>3. r \in Seq(Message) /\ Len(r) = N + 1 /\ r[N + 1] = l
      BY <2>2, <3>1, <3>2
    <3>4. \A k \in 1..N : r[k] = front[k]
      <4>1. \A k \in 1..N : list[k] = front[k]
        BY <1>1, <2>1
      <4> QED
        BY <2>1, <2>2, <3>2, <4>1
    <3>5. PICK q : q = Append(front, l)
      OBVIOUS
    <3>6. q \in Seq(Message) /\ Len(q) = N + 1 /\ q[N + 1] = l /\ \A k \in 1..N : q[k] = front[k]
      BY <2>1, <3>1, <3>5
    <3>7. \A k \in 1..N + 1 : r[k] = q[k]
      BY <2>1, <3>3, <3>4, <3>6
    <3>8. r = q
      BY <3>3, <3>6, <3>7
    <3> QED
      BY <3>2, <3>5, <3>8
  <2> QED
    BY <2>3, <2>5, <2>6, <2>7, Zenon
<1>2. ASSUME list = <<>> \/ Last(list).role # role
      PROVE  Coalesced(list, role, i) = Append(list, [role |-> role, text |-> <<i>>])
  BY <1>2 DEF Coalesced
<1> QED
  BY <1>1, <1>2 DEF Ends

\* What is said is a message.
LEMMA SaidIs == Said \subseteq Message /\ Seq(Said) \subseteq Seq(Message)
<1>1. Said \subseteq Message
  BY DEF Said, Message, Role
<1> QED
  BY <1>1

\* A new message.
LEMMA NewIs ==
    ASSUME NEW role \in Role, NEW i \in Nat, NEW m, m = [role |-> role, text |-> <<i>>]
    PROVE  m \in Said /\ m \in Message /\ m.role = role /\ m.text = <<i>>
<1>1. <<i>> \in Seq(Nat)
  OBVIOUS
<1>2. PICK t : t = <<i>>
  OBVIOUS
<1> QED
  BY <1>1, <1>2 DEF Said, Message, Role

\* A chunk goes into the last message or into one of its own.
LEMMA CoalescedTyped ==
    ASSUME NEW list \in Seq(Message), NEW role \in Role, NEW i \in Nat
    PROVE  Coalesced(list, role, i) \in Seq(Message)
<1>1. CASE list # <<>> /\ Last(list).role = role
  <2>1. PICK front \in Seq(Message), m \in Message : Ends(list, front, m) /\ m = Last(list)
    BY <1>1, LastOf
  <2>2. Ends(Coalesced(list, role, i), front, Grown(m, i))
    BY <1>1, <2>1, CoalescedIs
  <2>3. Grown(m, i) \in Message
    BY LongerIs
  <2> QED
    BY <2>2, <2>3 DEF Ends
<1>2. CASE list = <<>> \/ Last(list).role # role
  <2>1. PICK m : m = [role |-> role, text |-> <<i>>]
    OBVIOUS
  <2>2. Ends(Coalesced(list, role, i), list, m)
    BY <1>2, <2>1, CoalescedIs
  <2>3. m \in Message
    BY <2>1, NewIs
  <2> QED
    BY <2>2, <2>3 DEF Ends
<1> QED
  BY <1>1, <1>2

\* The conversation goes on: the roles alternate, and the text is one chunk longer.
LEMMA TalkGoesOn ==
    ASSUME NEW rest \in Seq(Said), NEW role \in Role, NEW i \in Nat, Alternates(rest)
    PROVE  /\ Coalesced(rest, role, i) \in Seq(Said) /\ Alternates(Coalesced(rest, role, i))
           /\ Flat(Coalesced(rest, role, i)) = Append(Flat(rest), i)
<1>0. rest \in Seq(Message)
  BY SaidIs
<1>1. CASE rest # <<>> /\ Last(rest).role = role
  <2>1. PICK front \in Seq(Said), m \in Said :
               rest = Append(front, m) /\ Ends(rest, front, m) /\ m = Last(rest)
    BY <1>1, LastOf DEF Ends
  <2>2. front \in Seq(Message) /\ m \in Message
    BY SaidIs
  <2>3. PICK l : l = Grown(m, i)
    OBVIOUS
  <2>4. l \in Message /\ l \in Said /\ l.role = m.role /\ l.text = Append(m.text, i)
    BY <2>2, <2>3, LongerIs
  <2>5. PICK r : r = Append(front, l)
    OBVIOUS
  <2>6. Coalesced(rest, role, i) = r
    <3>1. Ends(Coalesced(rest, role, i), front, l)
      BY <1>0, <1>1, <2>1, <2>2, <2>3, CoalescedIs
    <3> QED
      BY <2>5, <3>1, Zenon DEF Ends
  <2>7. PICK N \in Nat : N = Len(front)
    OBVIOUS
  <2>8. Len(rest) = N + 1 /\ Len(r) = N + 1 /\ r \in Seq(Said)
    BY <2>1, <2>4, <2>5, <2>7
  <2>9. \A k \in 1..N + 1 : r[k].role = rest[k].role
    <3>1. \A k \in 1..N : r[k] = front[k] /\ rest[k] = front[k]
      BY <2>1, <2>5, <2>7
    <3>2. r[N + 1] = l /\ rest[N + 1] = m
      BY <2>1, <2>5, <2>7
    <3> QED
      BY <2>4, <2>7, <3>1, <3>2
  <2>10. Alternates(r)
    BY <2>7, <2>8, <2>9 DEF Alternates
  <2>11. Flat(rest) = Flat(front) \o m.text /\ Flat(front) \in Seq(Nat)
    BY <2>1, <2>2, FlatAppend
  <2>12. Flat(r) = Flat(front) \o l.text
    BY <2>2, <2>4, <2>5, FlatAppend
  <2>13. PICK a \in Seq(Nat), t \in Seq(Nat) : a = Flat(front) /\ t = m.text
    BY <2>2, <2>11 DEF Message
  <2>14. a \o Append(t, i) = Append(a \o t, i)
    OBVIOUS
  <2>15. Flat(r) = Append(Flat(rest), i)
    BY <2>4, <2>11, <2>12, <2>13, <2>14, Zenon
  <2> QED
    BY <2>6, <2>8, <2>10, <2>15
<1>2. CASE rest = <<>> \/ Last(rest).role # role
  <2>1. PICK m : m = [role |-> role, text |-> <<i>>]
    OBVIOUS
  <2>2. m \in Said /\ m \in Message /\ m.role = role /\ m.text = <<i>>
    BY <2>1, NewIs
  <2>3. PICK r : r = Append(rest, m)
    OBVIOUS
  <2>4. Coalesced(rest, role, i) = r
    <3>1. Ends(Coalesced(rest, role, i), rest, m)
      BY <1>0, <1>2, <2>1, CoalescedIs
    <3> QED
      BY <2>3, <3>1, Zenon DEF Ends
  <2>5. PICK N \in Nat : N = Len(rest)
    OBVIOUS
  <2>6. Len(r) = N + 1 /\ r \in Seq(Said) /\ r[N + 1] = m /\ \A k \in 1..N : r[k] = rest[k]
    BY <2>2, <2>3, <2>5
  <2>7. N > 0 => rest[N].role # role
    BY <1>2, <2>5 DEF Last
  <2>8. Alternates(r)
    <3> SUFFICES ASSUME NEW k \in 1..N
                 PROVE  r[k].role # r[k + 1].role
      BY <2>5, <2>6 DEF Alternates
    <3>1. CASE k = N
      BY <2>2, <2>5, <2>6, <2>7, <3>1
    <3>2. CASE k # N
      <4>1. k \in 1..N - 1 /\ k \in 1..N /\ k + 1 \in 1..N
        BY <2>5, <3>2
      <4>2. rest[k].role # rest[k + 1].role
        BY <2>5, <4>1 DEF Alternates
      <4> QED
        BY <2>6, <4>1, <4>2
    <3> QED
      BY <3>1, <3>2
  <2>9. Flat(r) = Flat(rest) \o <<i>> /\ Flat(rest) \in Seq(Nat)
    BY <1>0, <2>2, <2>3, FlatAppend
  <2>10. PICK a \in Seq(Nat) : a = Flat(rest)
    BY <2>9
  <2>11. a \o <<i>> = Append(a, i)
    OBVIOUS
  <2> QED
    BY <2>4, <2>6, <2>8, <2>9, <2>10, <2>11
<1> QED
  BY <1>1, <1>2

\* b is h and then q.
After(b, h, q) == b = h \o q

\* One more element after two sequences.
LEMMA EndsAfter ==
    ASSUME NEW S, NEW h \in Seq(S), NEW front \in Seq(S), NEW m \in S, NEW q, Ends(q, front, m),
           NEW a, After(a, h, front)
    PROVE  /\ a \in Seq(S) /\ q \in Seq(S)
           /\ \A b : After(b, h, q) <=> Ends(b, a, m)
<1>1. Append(h \o front, m) = h \o Append(front, m)
  OBVIOUS
<1>2. \A b : b = h \o q <=> b = Append(a, m)
  BY <1>1, Zenon DEF Ends, After
<1>3. a \in Seq(S) /\ q \in Seq(S)
  BY DEF Ends, After
<1>4. \A b : After(b, h, q) <=> Ends(b, a, m)
  BY <1>2, Zenon DEF Ends, After
<1> QED
  BY <1>3, <1>4

\* The system message, if there is one, does not change.
LEMMA CoalescedAfter ==
    ASSUME NEW h \in Seq(Message), NEW rest \in Seq(Said), NEW role \in Role, NEW i \in Nat,
           h = <<>> \/ Last(h).role = "system", NEW list, After(list, h, rest)
    PROVE  After(Coalesced(list, role, i), h, Coalesced(rest, role, i))
<1>0. rest \in Seq(Message) /\ list \in Seq(Message)
  <2>1. rest \in Seq(Message)
    BY SaidIs
  <2> QED
    BY <2>1 DEF After
<1>1. PICK new : new = [role |-> role, text |-> <<i>>]
  OBVIOUS
<1>2. new \in Message
  BY <1>1, NewIs
<1>3. ASSUME rest = <<>> \/ Last(rest).role # role, list = <<>> \/ Last(list).role # role
      PROVE  After(Coalesced(list, role, i), h, Coalesced(rest, role, i))
  <2>1. Ends(Coalesced(list, role, i), list, new) /\ Ends(Coalesced(rest, role, i), rest, new)
    BY <1>0, <1>1, <1>3, CoalescedIs
  <2> QED
    BY <1>0, <1>2, <2>1, EndsAfter
<1>4. CASE rest = <<>>
  <2>1. list = h
    BY <1>4 DEF After
  <2>2. h = <<>> \/ Last(h).role # role
    BY DEF Role
  <2> QED
    BY <1>3, <1>4, <2>1, <2>2
<1>5. CASE rest # <<>>
  <2>1. PICK front \in Seq(Message), m \in Message : Ends(rest, front, m) /\ m = Last(rest)
    BY <1>0, <1>5, LastOf
  <2>2. PICK before : After(before, h, front)
    BY DEF After
  <2>3. before \in Seq(Message) /\ Ends(list, before, m)
    BY <2>1, <2>2, EndsAfter
  <2>4. CASE m.role = role
    <3>1. Ends(Coalesced(rest, role, i), front, Grown(m, i))
      BY <1>0, <2>1, <2>4, CoalescedIs
    <3>2. Ends(Coalesced(list, role, i), before, Grown(m, i))
      BY <1>0, <2>1, <2>3, <2>4, CoalescedIs
    <3>3. Grown(m, i) \in Message
      BY <2>1, LongerIs
    <3> QED
      BY <2>1, <2>2, <3>1, <3>2, <3>3, EndsAfter
  <2>5. CASE m.role # role
    <3>1. Last(list) = m
      <4>1. list[Len(list)] = m
        BY <2>3 DEF Ends
      <4> QED
        BY <4>1 DEF Last
    <3> QED
      BY <1>3, <2>1, <2>5, <3>1
  <2> QED
    BY <2>4, <2>5
<1> QED
  BY <1>4, <1>5

\* What build_messages makes of a chunk.
Told(list, n) == IF Conversation(n) THEN Coalesced(list, history[n].role, n) ELSE list

\* The messages before the first chunk.
Opening(prompt) == IF prompt THEN <<System>> ELSE <<>>

\* The opening is a list of messages that ends with none of the conversation.
LEMMA OpeningIs ==
    ASSUME NEW prompt \in BOOLEAN
    PROVE  /\ Opening(prompt) \in Seq(Message) /\ Opening(prompt) \in {<<>>, <<System>>}
           /\ Opening(prompt) = <<>> \/ Last(Opening(prompt)).role = "system"
<1>1. System \in Message /\ System.role = "system"
  <2>1. <<>> \in Seq(Nat)
    OBVIOUS
  <2>2. PICK e : e = <<>>
    OBVIOUS
  <2> QED
    BY <2>1, <2>2 DEF System, Message
<1>2. PICK m : m = System
  OBVIOUS
<1>3. <<m>> \in Seq(Message) /\ Last(<<m>>) = m
  BY <1>1, <1>2 DEF Last
<1> QED
  BY <1>1, <1>2, <1>3 DEF Opening

\* A chunk of the conversation has one of its roles.
LEMMA ConversationIs ==
    ASSUME NEW n, Conversation(n)
    PROVE  history[n].role \in Role
BY DEF Conversation, Role

\* build_messages goes from one chunk to the next.
LEMMA BuiltIs ==
    ASSUME history \in Seq(Texts), NEW prompt \in BOOLEAN
    PROVE  \E f : /\ f[0] = Opening(prompt) /\ Built(prompt) = f[Len(history)]
                  /\ \A n \in 1..Len(history) : f[n] = Told(f[n - 1], n)
<1>1. PICK N \in Nat : N = Len(history)
  OBVIOUS
<1>2. PICK T : T = Seq(Message)
  OBVIOUS
<1>3. PICK h : h = Opening(prompt)
  OBVIOUS
<1>4. PICK F : F = [x \in (1..N) \X T |-> Told(x[2], x[1])]
  OBVIOUS
<1>5. \A n \in 1..N : \A v \in T : Told(v, n) \in T
  <2> SUFFICES ASSUME NEW n \in 1..N, NEW v \in T
               PROVE  Told(v, n) \in T
    OBVIOUS
  <2>1. n \in Nat
    BY <1>1
  <2>2. CASE Conversation(n)
    <3>1. history[n].role \in Role
      BY <2>2, ConversationIs
    <3>2. PICK role \in Role : role = history[n].role
      BY <3>1
    <3>3. Coalesced(v, role, n) \in T
      BY <1>2, <2>1, CoalescedTyped
    <3> QED
      BY <2>2, <3>2, <3>3 DEF Told
  <2>3. CASE ~Conversation(n)
    BY <2>3 DEF Told
  <2> QED
    BY <2>2, <2>3
<1>6. Steps(F, N, T)
  BY <1>4, <1>5 DEF Steps
<1>7. \A n \in 1..N : \A v \in T : F[<<n, v>>] = Told(v, n)
  BY <1>4
<1>8. PICK g \in [0..N -> T] : g[0] = h /\ \A n \in 1..N : g[n] = F[<<n, g[n - 1]>>]
  <2>1. h \in T
    BY <1>2, <1>3, OpeningIs
  <2>2. \E x : Solves(x, N, T, h, F)
    BY <1>6, <2>1, Recursion
  <2> QED
    BY <2>2 DEF Solves
<1>9. \A n \in 1..N : g[n] = Told(g[n - 1], n)
  <2> SUFFICES ASSUME NEW n \in 1..N
               PROVE  g[n] = Told(g[n - 1], n)
    OBVIOUS
  <2>1. g[n - 1] \in T
    BY <1>8
  <2> QED
    BY <1>7, <1>8, <2>1
<1> DEFINE Step(x) == [n \in 0..Len(history) |->
                          IF n = 0 THEN Opening(prompt) ELSE Told(x[n - 1], n)]
           list == CHOOSE x : x = Step(x)
<1>10. g = Step(g)
  <2>1. \A n \in 0..N : g[n] = IF n = 0 THEN h ELSE Told(g[n - 1], n)
    BY <1>8, <1>9
  <2>2. g = [n \in 0..N |-> IF n = 0 THEN h ELSE Told(g[n - 1], n)]
    BY <1>8, <2>1
  <2> QED
    BY <1>1, <1>3, <2>2
<1>11. list = Step(list)
  BY <1>10, Zenon
<1> DEFINE Whole(x) == [n \in 0..Len(history) |->
                           IF n = 0 THEN IF prompt THEN <<System>> ELSE <<>>
                           ELSE IF Conversation(n) THEN Coalesced(x[n - 1], history[n].role, n)
                           ELSE x[n - 1]]
<1>12. \A x : Whole(x) = Step(x)
  BY Zenon DEF Told, Opening
<1>13. Built(prompt) = (CHOOSE x : x = Whole(x))[Len(history)]
  BY Zenon DEF Built
<1>14. (CHOOSE x : x = Whole(x)) = list
  <2> HIDE DEF Whole, Step
  <2> QED
    BY <1>12, Zenon
<1>15. PICK f : f = list
  OBVIOUS
<1>16. f = [n \in 0..N |-> IF n = 0 THEN h ELSE Told(f[n - 1], n)]
  BY <1>1, <1>3, <1>11, <1>15, Zenon
<1>17. Built(prompt) = f[N]
  <2> HIDE DEF Whole, list
  <2> QED
    BY <1>1, <1>13, <1>14, <1>15, Zenon
<1> HIDE DEF Step, list, Whole
<1>18. f[0] = h /\ \A n \in 1..N : f[n] = Told(f[n - 1], n)
  <2>1. \A n \in 0..N : f[n] = IF n = 0 THEN h ELSE Told(f[n - 1], n)
    BY <1>16, Zenon
  <2> QED
    BY <1>1, <2>1
<1> QED
  BY <1>1, <1>3, <1>17, <1>18

\* The trusted chunks of the conversation, of the first n.
LEMMA EligibleIs ==
    ASSUME history \in Seq(Texts)
    PROVE  \E c : /\ c[0] = <<>> /\ Eligible = c[Len(history)]
                  /\ \A n \in 1..Len(history) :
                        c[n] = IF Conversation(n) THEN Append(c[n - 1], n) ELSE c[n - 1]
<1>1. PICK N \in Nat : N = Len(history)
  OBVIOUS
<1>2. PICK q : q = [i \in 1..N |-> i]
  OBVIOUS
<1>3. PICK keep : keep = {i \in 1..N : Conversation(i)}
  OBVIOUS
<1>4. q \in Seq(Nat) /\ Len(q) = N /\ keep \in SUBSET (1..Len(q))
  BY <1>1, <1>2, <1>3
<1>5. Eligible = Selected(q, keep)
  BY <1>1, <1>2, <1>3, Zenon DEF Eligible
<1>6. PICK c : /\ c[0] = <<>>
               /\ \A n \in 1..Len(q) :
                     c[n] = IF n \in keep THEN Append(c[n - 1], q[n]) ELSE c[n - 1]
               /\ Selected(q, keep) = c[Len(q)]
  BY <1>4, SelectedIs
<1>7. \A n \in 1..N : c[n] = IF Conversation(n) THEN Append(c[n - 1], n) ELSE c[n - 1]
  <2> SUFFICES ASSUME NEW n \in 1..N
               PROVE  c[n] = IF Conversation(n) THEN Append(c[n - 1], n) ELSE c[n - 1]
    OBVIOUS
  <2>1. n \in keep <=> Conversation(n)
    BY <1>3
  <2>2. q[n] = n
    BY <1>2
  <2>3. c[n] = IF n \in keep THEN Append(c[n - 1], q[n]) ELSE c[n - 1]
    BY <1>4, <1>6
  <2> QED
    BY <2>1, <2>2, <2>3, Zenon
<1> QED
  BY <1>1, <1>4, <1>5, <1>6, <1>7

\* The messages are an opening and a conversation with this text.
Tells(list, h, text) ==
    \E rest \in Seq(Said) : After(list, h, rest) /\ Flat(rest) = text /\ Alternates(rest)

\* build_messages keeps the conversation.
LEMMA BuiltHolds ==
    ASSUME history \in Seq(Texts), NEW prompt \in BOOLEAN
    PROVE  Tells(Built(prompt), Opening(prompt), Eligible)
<1>1. PICK f : /\ f[0] = Opening(prompt) /\ Built(prompt) = f[Len(history)]
               /\ \A n \in 1..Len(history) : f[n] = Told(f[n - 1], n)
  BY BuiltIs
<1>2. PICK c : /\ c[0] = <<>> /\ Eligible = c[Len(history)]
               /\ \A n \in 1..Len(history) :
                     c[n] = IF Conversation(n) THEN Append(c[n - 1], n) ELSE c[n - 1]
  BY EligibleIs
<1>3. PICK N \in Nat : N = Len(history)
  OBVIOUS
<1>4. PICK h : h = Opening(prompt)
  OBVIOUS
<1>5. h \in Seq(Message) /\ (h = <<>> \/ Last(h).role = "system")
  BY <1>4, OpeningIs
<1> DEFINE G == {n \in 0..N : Tells(f[n], h, c[n])}
<1>6. 0 \in G
  <2>1. PICK e : e = <<>>
    OBVIOUS
  <2>2. e \in Seq(Said) /\ After(h, h, e) /\ Alternates(e)
    BY <1>5, <2>1 DEF After, Alternates
  <2>3. Flat(e) = e
    BY <2>1, FlatOfNone
  <2>4. Tells(f[0], h, c[0])
    BY <1>1, <1>2, <1>4, <2>1, <2>2, <2>3 DEF Tells
  <2> QED
    BY <1>3, <2>4
<1>7. ASSUME NEW n \in 1..N, n - 1 \in G
      PROVE  n \in G
  <2>1. PICK old, text : old = f[n - 1] /\ text = c[n - 1] /\ Tells(old, h, text)
    BY <1>7
  <2>2. f[n] = Told(old, n) /\ c[n] = IF Conversation(n) THEN Append(text, n) ELSE text
    BY <1>1, <1>2, <1>3, <2>1
  <2>3. CASE ~Conversation(n)
    <3>1. f[n] = old /\ c[n] = text
      BY <2>2, <2>3 DEF Told
    <3> QED
      BY <2>1, <3>1
  <2>4. CASE Conversation(n)
    <3>1. PICK role \in Role : role = history[n].role
      BY <2>4, ConversationIs
    <3>2. f[n] = Coalesced(old, role, n) /\ c[n] = Append(text, n)
      BY <2>2, <2>4, <3>1 DEF Told
    <3>3. PICK rest \in Seq(Said) : After(old, h, rest) /\ Flat(rest) = text /\ Alternates(rest)
      BY <2>1 DEF Tells
    <3>4. n \in Nat
      BY <1>3
    <3>5. After(Coalesced(old, role, n), h, Coalesced(rest, role, n))
      BY <1>5, <3>3, <3>4, CoalescedAfter
    <3>6. /\ Coalesced(rest, role, n) \in Seq(Said) /\ Alternates(Coalesced(rest, role, n))
          /\ Flat(Coalesced(rest, role, n)) = Append(Flat(rest), n)
      BY <3>3, <3>4, TalkGoesOn
    <3>7. Tells(Coalesced(old, role, n), h, Append(Flat(rest), n))
      BY <3>5, <3>6 DEF Tells
    <3>8. Tells(f[n], h, c[n])
      BY <3>2, <3>3, <3>7, Zenon
    <3> QED
      BY <1>3, <3>8
  <2> QED
    BY <2>3, <2>4
<1>8. N \in G
  <2> HIDE DEF G
  <2>1. \A n \in 0..N : n \in G
    BY <1>3, <1>6, <1>7, UpTo
  <2> QED
    BY <1>3, <2>1
<1> QED
  BY <1>1, <1>2, <1>3, <1>4, <1>8

\* The positions of q after those of a.
Above(keep, q, a) == keep = {k \in 1..Len(q) : k > Len(a)}

\* Selected takes the last elements, if they are the chosen ones.
LEMMA SelectedTail ==
    ASSUME NEW S, NEW a \in Seq(S), NEW t \in Seq(S), NEW q, After(q, a, t),
           NEW keep, Above(keep, q, a)
    PROVE  Selected(q, keep) = t
<1>1. PICK A \in Nat, N \in Nat : A = Len(a) /\ N = Len(t)
  OBVIOUS
<1>2. q \in Seq(S) /\ Len(q) = A + N /\ \A k \in 1..N : q[A + k] = t[k]
  BY <1>1 DEF After
<1>3. keep \in SUBSET (1..Len(q)) /\ \A n \in 1..Len(q) : n \in keep <=> n > A
  BY <1>1 DEF Above
<1>4. PICK c : /\ c[0] = <<>>
               /\ \A n \in 1..Len(q) :
                     c[n] = IF n \in keep THEN Append(c[n - 1], q[n]) ELSE c[n - 1]
               /\ Selected(q, keep) = c[Len(q)]
  BY <1>2, <1>3, SelectedIs
<1> DEFINE First(n) == [k \in 1..n - A |-> t[k]]
<1>5. \A n \in 0..A : First(n) = <<>>
  BY <1>1
<1>6. \A n \in A + 1..A + N : First(n) = Append(First(n - 1), q[n])
  <2> SUFFICES ASSUME NEW n \in A + 1..A + N
               PROVE  First(n) = Append(First(n - 1), q[n])
    OBVIOUS
  <2>1. PICK m \in 1..N : n = A + m
    <3>1. n - A \in 1..N /\ n = A + (n - A)
      BY <1>1
    <3> QED
      BY <3>1
  <2>2. First(n) = [k \in 1..m |-> t[k]] /\ First(n - 1) = [k \in 1..m - 1 |-> t[k]]
    <3>1. n - A = m /\ (n - 1) - A = m - 1
      BY <1>1, <2>1
    <3> QED
      BY <3>1
  <2>3. q[n] = t[m]
    BY <1>2, <2>1
  <2>4. [k \in 1..m |-> t[k]] = Append([k \in 1..m - 1 |-> t[k]], t[m])
    BY <1>1
  <2> QED
    BY <2>2, <2>3, <2>4, Zenon
<1> DEFINE G == {n \in 0..A + N : c[n] = First(n)}
<1>7. 0 \in G
  BY <1>1, <1>4, <1>5
<1> HIDE DEF First
<1>8. ASSUME NEW n \in 1..A + N, n - 1 \in G
      PROVE  n \in G
  <2>1. c[n] = IF n \in keep THEN Append(c[n - 1], q[n]) ELSE c[n - 1]
    BY <1>2, <1>4
  <2>2. c[n - 1] = First(n - 1)
    BY <1>8
  <2>3. CASE n > A
    <3>1. n \in keep
      BY <1>1, <1>2, <1>3, <2>3
    <3>2. First(n) = Append(First(n - 1), q[n])
      BY <1>1, <1>6, <2>3
    <3>3. c[n] = First(n)
      BY <2>1, <2>2, <3>1, <3>2, Zenon
    <3> QED
      BY <1>1, <3>3
  <2>4. CASE ~(n > A)
    <3>1. n \notin keep
      BY <1>1, <1>2, <1>3, <2>4
    <3>2. n \in 0..A /\ n - 1 \in 0..A
      BY <1>1, <2>4
    <3>3. First(n) = <<>> /\ First(n - 1) = <<>>
      BY <1>5, <3>2
    <3>4. c[n] = First(n)
      BY <2>1, <2>2, <3>1, <3>3, Zenon
    <3> QED
      BY <1>1, <3>4
  <2> QED
    BY <2>3, <2>4
<1>9. A + N \in G
  <2> HIDE DEF G
  <2>1. A + N \in Nat
    BY <1>1
  <2>2. \A n \in 0..A + N : n \in G
    BY <1>7, <1>8, <2>1, UpTo
  <2> QED
    BY <1>1, <2>2
<1>10. First(A + N) = t
  <2>1. (A + N) - A = N
    BY <1>1
  <2>2. First(A + N) = [k \in 1..N |-> t[k]]
    BY <2>1, Zenon DEF First
  <2> QED
    BY <1>1, <2>2
<1> QED
  BY <1>2, <1>4, <1>9, <1>10

\* What is left of the messages from position i on.
From(q, i) == SubSeq(q, i, Len(q))

\* What apply_compaction cuts: nothing that fits, and never the newest.
LEMMA StartIs ==
    ASSUME NEW q \in Seq(Said), NEW N \in Nat, N = Len(q)
    PROVE  /\ Start(q) \in 0..N /\ (q # <<>> => Start(q) < N)
           /\ N - Start(q) <= 1 \/ Fits(From(q, Start(q) + 1))
           /\ Start(q) # 0 => ~Fits(From(q, Start(q)))
<1> DEFINE T == {s \in 0..N : N - s <= 1 \/ Fits(From(q, s + 1))}
<1>1. Start(q) = Min(T)
  BY Zenon DEF Start, From
<1>2. T \subseteq Nat /\ N \in T /\ (q # <<>> => N - 1 \in T)
  OBVIOUS
<1>3. \A s \in T : s \in 0..N /\ (N - s <= 1 \/ Fits(From(q, s + 1)))
  OBVIOUS
<1>4. \A s \in 0..N : s \notin T => ~Fits(From(q, s + 1))
  OBVIOUS
<1> HIDE DEF T
<1>5. T # {}
  BY <1>2
<1>6. PICK m \in T : \A k \in T : m <= k
  BY <1>2, <1>5, Least
<1>7. Start(q) = m
  BY <1>1, <1>2, <1>6, MinIs
<1>8. q # <<>> => m < N
  BY <1>2, <1>3, <1>6
<1>9. m # 0 => ~Fits(From(q, m))
  <2> SUFFICES ASSUME m # 0
               PROVE  ~Fits(From(q, m))
    OBVIOUS
  <2>1. m - 1 \in 0..N /\ (m - 1) + 1 = m /\ m - 1 < m
    BY <1>3
  <2>2. m - 1 \notin T
    BY <1>2, <1>6, <2>1
  <2>3. ~Fits(From(q, (m - 1) + 1))
    BY <1>4, <2>1, <2>2, Zenon
  <2> QED
    BY <2>1, <2>3, Zenon
<1> QED
  BY <1>3, <1>6, <1>7, <1>8, <1>9

\* Compacts and Fits, of a budget.
Limits(b) == b.mode \in {"truncate", "summarize"} /\ (b.messages >= 1 \/ b.chars >= 1)
Within(b, list) ==
    /\ b.messages >= 1 => Len(list) <= b.messages
    /\ b.chars >= 1 => Sizes(list) <= b.chars

\* The text is in what was cut and what was kept, and no more was cut than needed.
Faithful(b, text, drop, kept) ==
    /\ Flat(drop \o kept) = text
    /\ Alternates(kept)
    /\ text # <<>> => kept # <<>>
    /\ Limits(b) => Within(b, kept) \/ Len(kept) <= 1
    /\ drop # <<>> => Limits(b) /\ ~Within(b, <<Last(drop)>> \o kept)

\* A budget is that of the session.
LEMMA BudgetIs == (Compacts <=> Limits(budget)) /\ \A list : Fits(list) <=> Within(budget, list)
BY DEF Compacts, Limits, Fits, Within

\* What is cut, and what is kept.
CutOf(rest) == IF Compacts THEN Start(rest) ELSE 0

\* q is cut after its first s elements.
Cuts(q, s, drop, kept) == drop = SubSeq(q, 1, s) /\ kept = From(q, s + 1)

\* The two parts of q make up q, and the second one with the element before it is From(q, s).
Halves(q, s, drop, kept) ==
    /\ drop \in Seq(Said) /\ kept \in Seq(Said) /\ After(q, drop, kept)
    /\ Len(drop) = s /\ Len(kept) = Len(q) - s
    /\ \A k \in 1..Len(q) - s : kept[k] = q[s + k]
    /\ s # 0 => drop # <<>> /\ After(From(q, s), <<Last(drop)>>, kept)

\* A sequence cut in two.
LEMMA CutInTwo ==
    ASSUME NEW q \in Seq(Said), NEW s \in 0..Len(q), NEW drop, NEW kept, Cuts(q, s, drop, kept)
    PROVE  Halves(q, s, drop, kept)
<1>1. PICK S : S = Said
  OBVIOUS
<1>2. PICK N \in Nat : N = Len(q) /\ S = Said /\ q \in Seq(S) /\ s \in 0..N
  BY <1>1
<1>3. /\ drop \in Seq(S) /\ Len(drop) = s /\ \A k \in 1..s : drop[k] = q[k]
  BY <1>2 DEF Cuts
<1>4. /\ kept \in Seq(S) /\ Len(kept) = N - s /\ \A k \in 1..N - s : kept[k] = q[s + k]
  BY <1>2 DEF Cuts, From
<1>5. After(q, drop, kept)
  <2>1. PICK r : r = drop \o kept
    OBVIOUS
  <2>2. r \in Seq(S) /\ Len(r) = N
    <3>1. drop \in Seq(S) /\ kept \in Seq(S)
      BY <1>3, <1>4
    <3>2. r \in Seq(S) /\ Len(r) = Len(drop) + Len(kept)
      BY <2>1, <3>1
    <3>3. Len(drop) = s /\ Len(kept) = N - s
      BY <1>3, <1>4
    <3> QED
      BY <3>2, <3>3
  <2>3. \A k \in 1..N : r[k] = q[k]
    <3> SUFFICES ASSUME NEW k \in 1..N
                 PROVE  r[k] = q[k]
      OBVIOUS
    <3>0. k \in Nat /\ s \in Nat /\ N \in Nat
      BY <1>2
    <3>1. CASE k <= s
      BY <1>3, <1>4, <2>1, <3>1
    <3>2. CASE k > s
      <4>1. k - s \in 1..N - s /\ s + (k - s) = k
        BY <1>2, <3>2
      <4>2. r[k] = kept[k - s]
        BY <1>3, <1>4, <2>1, <3>2
      <4> QED
        BY <1>4, <4>1, <4>2
    <3> QED
      BY <3>1, <3>2
  <2>4. r = q
    BY <1>2, <2>2, <2>3
  <2> QED
    BY <2>1, <2>4 DEF After
<1>6. ASSUME s # 0
      PROVE  drop # <<>> /\ After(From(q, s), <<Last(drop)>>, kept)
  <2>1. PICK l : l = Last(drop)
    OBVIOUS
  <2>2. l = q[s] /\ l \in S /\ drop # <<>>
    BY <1>2, <1>3, <1>6, <2>1 DEF Last
  <2>3. PICK r : r = <<l>> \o kept
    OBVIOUS
  <2>4. r \in Seq(S) /\ Len(r) = N - s + 1 /\ r[1] = l
    <3>1. kept \in Seq(S)
      BY <1>4
    <3>2. r \in Seq(S) /\ Len(r) = 1 + Len(kept) /\ r[1] = l
      BY <2>2, <2>3, <3>1
    <3>3. Len(kept) = N - s
      BY <1>4
    <3> QED
      BY <3>2, <3>3
  <2>5. \A k \in 1..N - s : r[k + 1] = q[s + k]
    BY <1>4, <2>2, <2>3
  <2>6. PICK u : u = From(q, s)
    OBVIOUS
  <2>7. u \in Seq(S) /\ Len(u) = N - s + 1 /\ \A k \in 1..N - s + 1 : u[k] = q[s + k - 1]
    BY <1>2, <1>6, <2>6 DEF From
  <2>8. \A k \in 1..N - s + 1 : r[k] = u[k]
    <3> SUFFICES ASSUME NEW k \in 1..N - s + 1
                 PROVE  r[k] = u[k]
      OBVIOUS
    <3>1. u[k] = q[s + k - 1]
      BY <2>7
    <3>2. CASE k = 1
      BY <2>2, <2>4, <3>1, <3>2
    <3>3. CASE k # 1
      <4>1. PICK j \in 1..N - s : k = j + 1 /\ s + k - 1 = s + j
        <5>1. k - 1 \in 1..N - s /\ k = (k - 1) + 1 /\ s + k - 1 = s + (k - 1)
          BY <3>3
        <5> QED
          BY <5>1
      <4> QED
        BY <2>5, <3>1, <4>1
    <3> QED
      BY <3>2, <3>3
  <2>9. r = u
    BY <2>4, <2>7, <2>8
  <2> QED
    BY <2>1, <2>2, <2>3, <2>6, <2>9 DEF After
<1> QED
  BY <1>2, <1>3, <1>4, <1>5, <1>6 DEF Halves

\* apply_compaction cuts what the budgets ask for.
LEMMA CutHolds ==
    ASSUME NEW rest \in Seq(Said), Flat(rest) = Eligible, Alternates(rest),
           NEW s, s = CutOf(rest), NEW drop, NEW kept, Cuts(rest, s, drop, kept)
    PROVE  drop \in Seq(Said) /\ kept \in Seq(Said) /\ Faithful(budget, Eligible, drop, kept)
<1>1. PICK N \in Nat : N = Len(rest)
  OBVIOUS
<1>2. /\ s \in 0..N /\ (rest # <<>> => s < N)
      /\ Compacts => N - s <= 1 \/ Fits(From(rest, s + 1))
      /\ s # 0 => Compacts /\ ~Fits(From(rest, s))
  <2>1. CASE Compacts
    <3>1. s = Start(rest)
      BY <2>1 DEF CutOf
    <3> QED
      BY <1>1, <2>1, <3>1, StartIs
  <2>2. CASE ~Compacts
    <3>1. s = 0
      BY <2>2 DEF CutOf
    <3>2. rest # <<>> => 0 < N
      BY <1>1
    <3> QED
      BY <1>1, <2>2, <3>1, <3>2
  <2> QED
    BY <2>1, <2>2
<1>3. kept = From(rest, s + 1)
  BY Zenon DEF Cuts
<1>4. /\ drop \in Seq(Said) /\ kept \in Seq(Said) /\ After(rest, drop, kept)
      /\ Len(drop) = s /\ Len(kept) = N - s
      /\ \A k \in 1..N - s : kept[k] = rest[s + k]
      /\ s # 0 => drop # <<>> /\ After(From(rest, s), <<Last(drop)>>, kept)
  <2>1. s \in 0..Len(rest)
    BY <1>1, <1>2
  <2>2. Halves(rest, s, drop, kept)
    BY <2>1, CutInTwo
  <2> QED
    BY <1>1, <2>2, Zenon DEF Halves
<1>5. Flat(drop \o kept) = Eligible
  BY <1>4, Zenon DEF After
<1>6. Alternates(kept)
  <2> SUFFICES ASSUME NEW k \in 1..(N - s) - 1
               PROVE  kept[k].role # kept[k + 1].role
    BY <1>4 DEF Alternates
  <2>0. PICK z \in Nat : z = s /\ z <= N
    BY <1>1, <1>2
  <2>1. /\ k \in 1..N - s /\ k + 1 \in 1..N - s /\ s + k \in 1..N - 1
        /\ s + (k + 1) = (s + k) + 1
    <3>1. k \in 1..(N - z) - 1
      BY <2>0
    <3>2. /\ k \in 1..N - z /\ k + 1 \in 1..N - z /\ z + k \in 1..N - 1
          /\ z + (k + 1) = (z + k) + 1
      BY <3>1
    <3> QED
      BY <2>0, <3>2
  <2>2. rest[s + k].role # rest[(s + k) + 1].role
    BY <1>1, <2>1 DEF Alternates
  <2> QED
    BY <1>4, <2>1, <2>2
<1>7. Eligible # <<>> => kept # <<>>
  <2> SUFFICES ASSUME Eligible # <<>>
               PROVE  kept # <<>>
    OBVIOUS
  <2>1. rest # <<>>
    BY FlatOfNone
  <2>2. Len(kept) > 0
    BY <1>1, <1>2, <1>4, <2>1
  <2> QED
    BY <2>2
<1>8. Compacts => Fits(kept) \/ Len(kept) <= 1
  BY <1>2, <1>3, <1>4
<1>9. drop # <<>> => Compacts /\ ~Fits(<<Last(drop)>> \o kept)
  <2> SUFFICES ASSUME drop # <<>>
               PROVE  Compacts /\ ~Fits(<<Last(drop)>> \o kept)
    OBVIOUS
  <2>1. s # 0
    BY <1>4
  <2>2. From(rest, s) = <<Last(drop)>> \o kept
    BY <1>4, <2>1, Zenon DEF After
  <2> QED
    BY <1>2, <2>1, <2>2, Zenon
<1>10. Limits(budget) => Within(budget, kept) \/ Len(kept) <= 1
  BY <1>8, BudgetIs
<1>11. drop # <<>> => Limits(budget) /\ ~Within(budget, <<Last(drop)>> \o kept)
  BY <1>9, BudgetIs, Zenon
<1> QED
  BY <1>4, <1>5, <1>6, <1>7, <1>10, <1>11, Zenon DEF Faithful

\* The parts that apply_compaction takes the messages into.
LEMMA PartsAre ==
    ASSUME NEW prompt \in BOOLEAN, NEW rest \in Seq(Said), NEW list,
           After(list, Opening(prompt), rest)
    PROVE  Head1(list) = Opening(prompt) /\ Body(list) = rest
<1>1. CASE prompt
  <2>1. PICK m : m = System
    OBVIOUS
  <2>2. Opening(prompt) = <<m>> /\ m.role = "system"
    BY <1>1, <2>1 DEF Opening, System
  <2>3. list = <<m>> \o rest
    BY <2>2 DEF After
  <2>4. list # <<>> /\ list[1] = m /\ Tail(list) = rest
    <3>0. PICK S : rest \in Seq(S \cup {m})
      <4>1. rest \in Seq(Said \cup {m})
        OBVIOUS
      <4> QED
        BY <4>1
    <3>1. PICK N \in Nat : N = Len(rest) /\ rest \in Seq(S \cup {m})
      BY <3>0
    <3>2. list \in Seq(S \cup {m}) /\ Len(list) = N + 1 /\ list[1] = m
      BY <2>3, <3>1
    <3>3. \A k \in 1..N : list[k + 1] = rest[k]
      BY <2>3, <3>1
    <3>4. PICK t : t = Tail(list)
      OBVIOUS
    <3>5. t \in Seq(S \cup {m}) /\ Len(t) = N /\ \A k \in 1..N : t[k] = list[k + 1]
      BY <3>1, <3>2, <3>4
    <3>6. \A k \in 1..N : t[k] = rest[k]
      BY <3>3, <3>5
    <3>7. t = rest
      BY <3>1, <3>5, <3>6
    <3> QED
      BY <3>2, <3>4, <3>7
  <2>5. HasSystem(list)
    BY <2>2, <2>4 DEF HasSystem
  <2> QED
    BY <2>2, <2>4, <2>5, Zenon DEF Head1, Body
<1>2. CASE ~prompt
  <2>1. Opening(prompt) = <<>>
    BY <1>2 DEF Opening
  <2>2. list = rest
    BY <2>1 DEF After
  <2>3. ~HasSystem(list)
    <3>1. ASSUME list # <<>>
          PROVE  list[1].role # "system"
      <4>1. list[1] \in Said
        BY <2>2, <3>1
      <4> QED
        BY <4>1 DEF Said, Role
    <3> QED
      BY <3>1 DEF HasSystem
  <2> QED
    BY <2>1, <2>2, <2>3, Zenon DEF Head1, Body
<1> QED
  BY <1>1, <1>2

\* Messages of no role of the conversation.
Notice == {m \in Message : m.role = "system"}

\* The messages are faithful if they are notices and then what was kept.
LEMMA FaithfulHolds ==
    ASSUME NEW h \in Seq(Notice), NEW kept \in Seq(Said), After(messages, h, kept),
           Faithful(budget, Eligible, dropped, kept)
    PROVE  MessagesAreFaithful
<1>1. PICK keep : keep = {k \in 1..Len(messages) : messages[k].role # "system"}
  OBVIOUS
<1>2. h \in Seq(Message) /\ kept \in Seq(Message)
  BY SaidIs DEF Notice
<1>3. PICK A \in Nat, N \in Nat : A = Len(h) /\ N = Len(kept)
  BY <1>2
<1>4. Above(keep, messages, h)
  <2>1. Len(messages) = A + N
    BY <1>2, <1>3 DEF After
  <2>2. \A k \in 1..A : messages[k] = h[k] /\ h[k].role = "system"
    <3>1. \A k \in 1..A : messages[k] = h[k]
      BY <1>2, <1>3 DEF After
    <3>2. \A k \in 1..A : h[k] \in Notice
      BY <1>3
    <3> QED
      BY <3>1, <3>2 DEF Notice
  <2>3. \A k \in 1..N : messages[A + k] = kept[k] /\ kept[k].role # "system"
    <3>1. \A k \in 1..N : messages[A + k] = kept[k]
      BY <1>2, <1>3 DEF After
    <3>2. \A k \in 1..N : kept[k] \in Said
      BY <1>3
    <3> QED
      BY <3>1, <3>2 DEF Said, Role
  <2>4. \A k \in 1..A + N : messages[k].role # "system" <=> k > A
    <3> SUFFICES ASSUME NEW k \in 1..A + N
                 PROVE  messages[k].role # "system" <=> k > A
      OBVIOUS
    <3>1. CASE k <= A
      BY <1>3, <2>2, <3>1
    <3>2. CASE k > A
      <4>1. k - A \in 1..N /\ A + (k - A) = k
        BY <1>3, <3>2
      <4> QED
        BY <2>3, <3>2, <4>1
    <3> QED
      BY <1>3, <3>1, <3>2
  <2>5. keep = {k \in 1..A + N : k > A}
    BY <1>1, <2>1, <2>4
  <2> QED
    BY <1>3, <2>1, <2>5 DEF Above
<1>5. Selected(messages, keep) = kept
  BY <1>2, <1>4, SelectedTail
<1> DEFINE list == Selected(messages, {k \in 1..Len(messages) : messages[k].role # "system"})
<1>6. list = kept
  BY <1>1, <1>5, Zenon
<1>7. /\ Flat(dropped \o kept) = Eligible
      /\ \A k \in 1..Len(kept) - 1 : kept[k].role # kept[k + 1].role
      /\ Eligible # <<>> => kept # <<>>
      /\ Compacts => Fits(kept) \/ Len(kept) <= 1
      /\ dropped # <<>> => Compacts /\ ~Fits(<<Last(dropped)>> \o kept)
  BY BudgetIs, Zenon DEF Faithful, Alternates
<1>8. /\ Flat(dropped \o list) = Eligible
      /\ \A k \in 1..Len(list) - 1 : list[k].role # list[k + 1].role
      /\ Eligible # <<>> => list # <<>>
      /\ Compacts => Fits(list) \/ Len(list) <= 1
      /\ dropped # <<>> => Compacts /\ ~Fits(<<Last(dropped)>> \o list)
  <2> HIDE DEF list
  <2> QED
    BY <1>6, <1>7, Zenon
<1> QED
  BY <1>8, Zenon DEF MessagesAreFaithful

\* The value is one of a key, or none.
LEMMA ConfigTyped ==
    ASSUME settings \in Seq(Setting)
    PROVE  Config \in {"none", "a", "b"}
<1>1. PICK N \in Nat : N = Len(settings)
  OBVIOUS
<1>2. PICK a \in 0..N : \E v : DueFrom(a, N, v) /\ v = Config
  BY <1>1, ConfigDue
<1>3. PICK v : DueFrom(a, N, v) /\ v = Config
  BY <1>2
<1>4. \A k \in 1..N : settings[k].key \in Values /\ settings[k].legacy \in Values
  <2>1. \A k \in 1..N : settings[k] \in Setting
    BY <1>1
  <2> QED
    BY <2>1 DEF Setting
<1>5. CASE a # 0 /\ settings[a].key # "none"
  <2>1. a \in 1..N
    BY <1>1, <1>5
  <2>2. v = settings[a].key /\ v # "absent"
    BY <1>5, <1>3 DEF DueFrom
  <2> QED
    BY <1>4, <1>3, <2>1, <2>2 DEF Values
<1>6. CASE ~(a # 0 /\ settings[a].key # "none")
  <2>1. LegacyFrom(a, N, v)
    BY <1>6, <1>3 DEF DueFrom
  <2> QED
    BY <1>4, <1>3, <2>1 DEF LegacyFrom, Values
<1> QED
  BY <1>5, <1>6

\* The messages are an opening and what the history tells; then notices and what was kept of it.
StageHolds ==
    /\ stage = "history" => messages = <<>>
    /\ stage = "built" => \E prompt \in BOOLEAN : Tells(messages, Opening(prompt), Eligible)
    /\ stage = "compacted" =>
          \E prompt \in BOOLEAN : \E kept \in Seq(Said) :
             After(messages, Opening(prompt), kept) /\ Faithful(budget, Eligible, dropped, kept)
    /\ stage = "request" =>
          \E h \in Seq(Notice) : \E kept \in Seq(Said) :
             After(messages, h, kept) /\ Faithful(budget, Eligible, dropped, kept)

\* The inductive invariant of LlmContext.
ContextIInv ==
    /\ history \in Seq(Texts) /\ settings \in Seq(Setting) /\ dropped \in Seq(Said)
    /\ stage \in {"history", "built", "compacted", "request"}
    /\ StageHolds

\* A sequence of a bounded length.
LEMMA SeqOfIs ==
    ASSUME NEW S, NEW n \in Nat
    PROVE  SeqOf(S, n) \subseteq Seq(S)
BY DEF SeqOf

LEMMA ContextStarts ==
    ASSUME ContextInit
    PROVE  ContextIInv
<1>1. history \in Seq(Texts) /\ settings \in Seq(Setting)
  <2>1. CASE history \in SeqOf(Texts, MaxHistory) /\ settings = <<>>
    BY <2>1, SeqOfIs, ContextAssumption
  <2>2. CASE history = <<>> /\ settings \in SeqOf([key : Values, legacy : Values], 3)
    <3>1. SeqOf([key : Values, legacy : Values], 3) \subseteq Seq([key : Values, legacy : Values])
      BY SeqOfIs
    <3>2. history \in Seq(Texts)
      BY <2>2
    <3>3. settings \in Seq(Setting)
      BY <2>2, <3>1, Zenon DEF Setting
    <3> QED
      BY <3>2, <3>3
  <2> QED
    BY <2>1, <2>2, Zenon DEF ContextInit
<1>2. stage = "history" /\ messages = <<>> /\ dropped = <<>>
  BY Zenon DEF ContextInit
<1>3. dropped \in Seq(Said)
  BY <1>2
<1> QED
  BY <1>1, <1>2, <1>3 DEF ContextIInv, StageHolds

\* The opening consists of notices.
LEMMA OpeningNotice ==
    ASSUME NEW prompt \in BOOLEAN
    PROVE  Opening(prompt) \in Seq(Notice)
<1>1. PICK m : m = System
  OBVIOUS
<1>2. m \in Notice
  <2>1. <<>> \in Seq(Nat)
    OBVIOUS
  <2>2. PICK e : e = <<>>
    OBVIOUS
  <2> QED
    BY <1>1, <2>1, <2>2 DEF System, Message, Notice
<1>3. <<m>> \in Seq(Notice) /\ <<>> \in Seq(Notice)
  BY <1>2
<1> QED
  BY <1>1, <1>3 DEF Opening

\* Every step keeps the invariant.
LEMMA ContextKeeps ==
    ASSUME ContextIInv, [ContextNext]_contextVars
    PROVE  ContextIInv'
<1>1. CASE UNCHANGED contextVars
  BY <1>1 DEF contextVars, ContextIInv, StageHolds, Eligible, Conversation
<1>2. ASSUME history' = history, settings' = settings, budget' = budget,
             dropped' \in Seq(Said), stage' \in {"built", "compacted", "request"},
             stage' = "built" =>
                \E prompt \in BOOLEAN : Tells(messages', Opening(prompt), Eligible),
             stage' = "compacted" =>
                \E prompt \in BOOLEAN : \E kept \in Seq(Said) :
                   /\ After(messages', Opening(prompt), kept)
                   /\ Faithful(budget, Eligible, dropped', kept),
             stage' = "request" =>
                \E h \in Seq(Notice) : \E kept \in Seq(Said) :
                   After(messages', h, kept) /\ Faithful(budget, Eligible, dropped', kept)
      PROVE  ContextIInv'
  <2>1. Eligible' = Eligible
    BY <1>2 DEF Eligible, Conversation
  <2>2. StageHolds'
    BY <1>2, <2>1 DEF StageHolds
  <2> QED
    BY <1>2, <2>2 DEF ContextIInv
<1>3. CASE BuildMessages
  <2>1. PICK prompt \in BOOLEAN : messages' = Built(prompt)
    BY <1>3 DEF BuildMessages
  <2>2. Tells(Built(prompt), Opening(prompt), Eligible)
    BY BuiltHolds DEF ContextIInv
  <2>3. stage' = "built" /\ UNCHANGED <<history, settings, budget, dropped>>
    BY <1>3 DEF BuildMessages
  <2>4. dropped' \in Seq(Said)
    BY <2>3 DEF ContextIInv
  <2> QED
    BY <1>2, <2>1, <2>2, <2>3, <2>4
<1>4. CASE ApplyCompaction
  <2>1. PICK prompt \in BOOLEAN : Tells(messages, Opening(prompt), Eligible)
    BY <1>4 DEF ApplyCompaction, ContextIInv, StageHolds
  <2>2. PICK rest \in Seq(Said) :
           After(messages, Opening(prompt), rest) /\ Flat(rest) = Eligible /\ Alternates(rest)
    BY <2>1 DEF Tells
  <2>3. Head1(messages) = Opening(prompt) /\ Body(messages) = rest
    BY <2>2, PartsAre
  <2>4. PICK s : s = CutOf(rest)
    OBVIOUS
  <2>5. PICK drop, kept : drop = SubSeq(rest, 1, s) /\ kept = SubSeq(rest, s + 1, Len(rest))
    OBVIOUS
  <2>6. messages' = Opening(prompt) \o kept /\ dropped' = drop
    BY <1>4, <2>3, <2>4, <2>5, Zenon DEF ApplyCompaction, CutOf
  <2>7. Cuts(rest, s, drop, kept)
    BY <2>5, Zenon DEF Cuts, From
  <2>8. drop \in Seq(Said) /\ kept \in Seq(Said) /\ Faithful(budget, Eligible, drop, kept)
    BY <2>2, <2>4, <2>7, CutHolds
  <2>9. After(messages', Opening(prompt), kept)
    BY <2>6, Zenon DEF After
  <2>10. stage' = "compacted" /\ UNCHANGED <<history, settings, budget>>
    BY <1>4, Zenon DEF ApplyCompaction
  <2> HIDE <2>5
  <2> QED
    BY <1>2, <2>6, <2>8, <2>9, <2>10
<1>5. CASE Summarize
  <2>1. PICK prompt \in BOOLEAN : \E kept \in Seq(Said) :
           After(messages, Opening(prompt), kept) /\ Faithful(budget, Eligible, dropped, kept)
    BY <1>5 DEF Summarize, ContextIInv, StageHolds
  <2>2. PICK kept \in Seq(Said) :
           After(messages, Opening(prompt), kept) /\ Faithful(budget, Eligible, dropped, kept)
    BY <2>1
  <2>3. stage' = "request" /\ UNCHANGED <<history, settings, budget, dropped>>
    BY <1>5, Zenon DEF Summarize
  <2>4. dropped \in Seq(Said)
    BY DEF ContextIInv
  <2>5. \E h \in Seq(Notice) : After(messages', h, kept)
    <3>1. CASE UNCHANGED messages
      BY <2>2, <3>1, OpeningNotice
    <3>2. CASE messages' = Head1(messages) \o
                  <<[role |-> "system", text |-> Flat(dropped)]>> \o Body(messages)
      <4>1. Head1(messages) = Opening(prompt) /\ Body(messages) = kept
        BY <2>2, PartsAre
      <4>2. PICK m : m = [role |-> "system", text |-> Flat(dropped)]
        OBVIOUS
      <4>3. m \in Notice
        <5>1. Flat(dropped) \in Seq(Nat)
          <6>1. dropped \in Seq(Message)
            BY <2>4, SaidIs
          <6>2. PICK f : Sums(dropped, f)
            BY <6>1, FlatIs
          <6>3. Len(dropped) \in 0..Len(dropped)
            BY <6>1
          <6> QED
            BY <6>2, <6>3, Zenon DEF Sums
        <5>2. PICK t \in Seq(Nat) : t = Flat(dropped)
          BY <5>1
        <5>3. m = [role |-> "system", text |-> t]
          BY <4>2, <5>2, Zenon
        <5> QED
          BY <5>3 DEF Notice, Message
      <4>4. PICK h : h = Opening(prompt) \o <<m>>
        OBVIOUS
      <4>5. h \in Seq(Notice)
        BY <4>3, <4>4, OpeningNotice
      <4>6. messages' = h \o kept
        BY <3>2, <4>1, <4>2, <4>4, Zenon
      <4> QED
        BY <4>5, <4>6, Zenon DEF After
    <3> QED
      BY <1>5, <3>1, <3>2, Zenon DEF Summarize
  <2>6. PICK h \in Seq(Notice) : After(messages', h, kept)
    BY <2>5
  <2> QED
    BY <1>2, <2>2, <2>3, <2>4, <2>6
<1> QED
  BY <1>1, <1>3, <1>4, <1>5 DEF ContextNext

\* The invariant holds always: what the messages are at each stage of a request.
THEOREM ContextInductive == ContextSpec => []ContextIInv
<1>1. ContextInit => ContextIInv
  BY ContextStarts
<1>2. ContextIInv /\ [ContextNext]_contextVars => ContextIInv'
  BY ContextKeeps
<1> QED
  BY <1>1, <1>2, PTL DEF ContextSpec

\* Every trusted chunk of the conversation is in the request or in what the budgets cut.
LEMMA RequestFollows ==
    ASSUME ContextIInv
    PROVE  RequestIsFaithful
<1>1. ASSUME stage \in {"compacted", "request"}
      PROVE  MessagesAreFaithful
  <2>1. PICK h \in Seq(Notice) : \E kept \in Seq(Said) :
           After(messages, h, kept) /\ Faithful(budget, Eligible, dropped, kept)
    BY <1>1, OpeningNotice DEF ContextIInv, StageHolds
  <2> QED
    BY <2>1, FaithfulHolds
<1>2. ASSUME stage \notin {"compacted", "request"}
      PROVE  MessagesAreFaithful
  BY <1>2, Zenon DEF MessagesAreFaithful
<1>3. ConfigIsMerged
  BY ConfigHolds DEF ContextIInv
<1> QED
  BY <1>1, <1>2, <1>3 DEF RequestIsFaithful

\* What a backend gets is what the session says, whatever the history, the budgets and the
\* settings: build_messages, apply_compaction and extract_config.
THEOREM RequestFaithful == ContextSpec => []RequestIsFaithful
<1>1. ContextIInv => RequestIsFaithful
  BY RequestFollows
<1> QED
  BY <1>1, ContextInductive, PTL

\* What follows an opening or notices is a list of messages.
LEMMA AfterIs ==
    ASSUME NEW list, NEW h \in Seq(Message), NEW rest \in Seq(Said), After(list, h, rest)
    PROVE  list \in Seq(Message)
BY SaidIs DEF After

\* The messages have roles that backends know, and the configuration is of its type.
LEMMA TypesFollow ==
    ASSUME ContextIInv
    PROVE  ContextTypeOK
<1>1. messages \in Seq(Message)
  <2>1. CASE stage = "history"
    <3>1. messages = <<>>
      BY <2>1 DEF ContextIInv, StageHolds
    <3> QED
      BY <3>1
  <2>2. CASE stage = "built"
    <3>1. PICK prompt \in BOOLEAN : Tells(messages, Opening(prompt), Eligible)
      BY <2>2 DEF ContextIInv, StageHolds
    <3> QED
      BY <3>1, OpeningIs, AfterIs DEF Tells
  <2>3. CASE stage \in {"compacted", "request"}
    <3>1. PICK h \in Seq(Notice), kept \in Seq(Said) : After(messages, h, kept)
      BY <2>3, OpeningNotice DEF ContextIInv, StageHolds
    <3>2. h \in Seq(Message)
      BY DEF Notice
    <3> QED
      BY <3>1, <3>2, AfterIs
  <2> QED
    BY <2>1, <2>2, <2>3 DEF ContextIInv
<1>2. \A k \in DOMAIN messages : messages[k].role \in {"system", "user", "assistant"}
  <2>1. \A k \in DOMAIN messages : messages[k] \in Message
    BY <1>1
  <2> QED
    BY <2>1 DEF Message
<1>3. Config \in {"none", "a", "b"}
  BY ConfigTyped DEF ContextIInv
<1> QED
  BY <1>2, <1>3 DEF ContextTypeOK, ContextIInv

\* The state of LlmContext is of its type: roles of messages, value of the configuration.
THEOREM ContextTyped == ContextSpec => []ContextTypeOK
<1>1. ContextIInv => ContextTypeOK
  BY TypesFollow
<1> QED
  BY <1>1, ContextInductive, PTL

-----------------------------------------------------------------------------
(* WireReaders *)

\* Sequences with the same elements are the same.
LEMMA SameSeq ==
    ASSUME NEW S, NEW a \in Seq(S), NEW b \in Seq(S), Len(a) = Len(b),
           \A k \in 1..Len(a) : a[k] = b[k]
    PROVE  a = b
OBVIOUS

\* A byte, and how many a frame has.
Pair == Nat \X Nat
Width == 2 + Len(Separator)

\* A frame is a character of two bytes and the separator, of which the character has no part.
LEMMA BytesAre ==
    ASSUME NEW i \in Nat, i > 0
    PROVE  /\ Width \in {3, 4} /\ Len(Separator) = Width - 2
           /\ Separator \in Seq(Pair) /\ \A k \in 1..Width - 2 : Separator[k] = Newline
           /\ Bytes(i) \in Seq(Pair) /\ Len(Bytes(i)) = Width
           /\ Bytes(i)[1] = <<i, 1>> /\ Bytes(i)[2] = <<i, 2>>
           /\ Bytes(i)[1] # Newline /\ Bytes(i)[2] # Newline
           /\ \A r \in 3..Width : Bytes(i)[r] = Newline
<1>1. Newline \in Pair /\ <<i, 1>> \in Pair /\ <<i, 2>> \in Pair
  BY DEF Newline, Pair
<1>2. <<i, 1>> # Newline /\ <<i, 2>> # Newline
  BY DEF Newline
<1>3. PICK x, y, z : x = <<i, 1>> /\ y = <<i, 2>> /\ z = Newline
  OBVIOUS
<1>4. PICK b : b = Bytes(i)
  OBVIOUS
<1>5. PICK s : s = Separator
  OBVIOUS
<1>6. x \in Pair /\ y \in Pair /\ z \in Pair /\ x # z /\ y # z
  BY <1>1, <1>2, <1>3
<1>7. b = <<x, y>> \o s
  BY <1>3, <1>4, <1>5, Zenon DEF Bytes
<1>8. CASE s = <<z, z>>
  <2>1. Len(s) = 2 /\ s \in Seq(Pair) /\ \A k \in 1..2 : s[k] = z
    BY <1>6, <1>8
  <2>2. /\ b \in Seq(Pair) /\ Len(b) = 4 /\ b[1] = x /\ b[2] = y
        /\ \A r \in 3..4 : b[r] = z
    BY <1>6, <1>7, <1>8
  <2>3. Width = 4
    BY <1>5, <2>1 DEF Width
  <2> QED
    BY <1>3, <1>4, <1>5, <1>6, <2>1, <2>2, <2>3
<1>9. CASE s = <<z>>
  <2>1. Len(s) = 1 /\ s \in Seq(Pair) /\ \A k \in 1..1 : s[k] = z
    BY <1>6, <1>9
  <2>2. /\ b \in Seq(Pair) /\ Len(b) = 3 /\ b[1] = x /\ b[2] = y
        /\ \A r \in 3..3 : b[r] = z
    BY <1>6, <1>7, <1>9
  <2>3. Width = 3
    BY <1>5, <2>1 DEF Width
  <2> QED
    BY <1>3, <1>4, <1>5, <1>6, <2>1, <2>2, <2>3
<1> QED
  BY <1>3, <1>5, <1>8, <1>9, Zenon DEF Separator

\* The width of a frame, which depends on the reader alone.
LEMMA WidthIs ==
    /\ Width \in {3, 4} /\ Width \in Nat /\ Width > 0 /\ 1 \in 1..Width
    /\ Len(Separator) = Width - 2 /\ Len(Separator) \in Nat /\ Separator \in Seq(Pair)
<1>1. PICK i \in Nat : i > 0
  OBVIOUS
<1>2. Width \in {3, 4} /\ Len(Separator) = Width - 2 /\ Separator \in Seq(Pair)
  BY <1>1, BytesAre
<1> QED
  BY <1>2

\* The first bytes of q, as far as they are there, are those of the frame i.
Opens(q, i) == \A r \in 1..Width : r <= Len(q) => q[r] = Bytes(i)[r]

\* A separator ends at k.
EndsAt(q, k) == SubSeq(q, k - Len(Separator) + 1, k) = Separator

\* There is no separator in a frame but the one at its end.
LEMMA NoneBefore ==
    ASSUME NEW q \in Seq(Pair), NEW i \in Nat, i > 0, Opens(q, i),
           NEW k \in Len(Separator)..Len(q), k < Width
    PROVE  ~EndsAt(q, k)
<1> SUFFICES ASSUME EndsAt(q, k)
             PROVE  FALSE
  OBVIOUS
<1>1. /\ Width \in {3, 4} /\ Len(Separator) = Width - 2
      /\ \A j \in 1..Width - 2 : Separator[j] = Newline
      /\ Bytes(i)[1] # Newline /\ Bytes(i)[2] # Newline
  BY BytesAre
<1>2. PICK w : w = Width
  OBVIOUS
<1>3. PICK s : s = SubSeq(q, k - Len(Separator) + 1, k)
  OBVIOUS
<1>4. s = Separator /\ s[1] = Newline
  <2>1. s = Separator
    BY <1>3, Zenon DEF EndsAt
  <2>2. 1 \in 1..Width - 2
    BY <1>1
  <2> QED
    BY <1>1, <2>1, <2>2
<1>5. PICK a \in Nat : a = k - Len(Separator) + 1 /\ a \in {1, 2} /\ a <= Len(q)
  BY <1>1
<1>6. s[1] = q[a]
  <2>1. s = SubSeq(q, a, k)
    BY <1>3, <1>5
  <2>2. a <= k /\ k <= Len(q) /\ k \in Nat
    BY <1>1, <1>5
  <2> QED
    BY <1>5, <2>1, <2>2
<1>7. q[a] = Bytes(i)[a]
  BY <1>1, <1>5 DEF Opens
<1> QED
  BY <1>1, <1>4, <1>5, <1>6, <1>7

\* The first separator of a frame is at its end.
LEMMA EndOfFrame ==
    ASSUME NEW q \in Seq(Pair), NEW i \in Nat, i > 0, Opens(q, i)
    PROVE  /\ Len(q) >= Width => FrameEnd(q) = Width /\ SubSeq(q, 1, Width) = Bytes(i)
           /\ Len(q) < Width => FrameEnd(q) = 0
<1>1. /\ Width \in {3, 4} /\ Len(Separator) = Width - 2 /\ Separator \in Seq(Pair)
      /\ \A j \in 1..Width - 2 : Separator[j] = Newline
      /\ Bytes(i) \in Seq(Pair) /\ Len(Bytes(i)) = Width
      /\ \A r \in 3..Width : Bytes(i)[r] = Newline
  BY BytesAre
<1> DEFINE ends == {k \in Len(Separator)..Len(q) : EndsAt(q, k)}
<1>2. FrameEnd(q) = IF ends = {} THEN 0 ELSE CHOOSE k \in ends : \A j \in ends : k <= j
  BY Zenon DEF FrameEnd, EndsAt
<1>3. \A k \in ends : k \in Nat /\ k <= Len(q) /\ k >= Width
  BY <1>1, NoneBefore
<1>4. ASSUME Len(q) >= Width
      PROVE  FrameEnd(q) = Width /\ SubSeq(q, 1, Width) = Bytes(i)
  <2>1. PICK w \in Nat, b \in Seq(Pair), s \in Seq(Pair) : w = Width /\ b = Bytes(i) /\ s = Separator
    BY <1>1
  <2>2. \A r \in 1..w : q[r] = b[r]
    BY <1>1, <1>4, <2>1 DEF Opens
  <2>3. SubSeq(q, 1, w) = b
    <3>1. PICK t : t = SubSeq(q, 1, w)
      OBVIOUS
    <3>2. t \in Seq(Pair) /\ Len(t) = w /\ \A r \in 1..w : t[r] = q[r]
      BY <1>4, <2>1, <3>1
    <3>3. b \in Seq(Pair) /\ Len(b) = w
      BY <1>1, <2>1
    <3>4. t = b
      BY <2>2, <3>2, <3>3, SameSeq
    <3> QED
      BY <3>1, <3>4
  <2>4. EndsAt(q, w)
    <3>1. PICK t : t = SubSeq(q, w - Len(Separator) + 1, w)
      OBVIOUS
    <3>2. w - Len(Separator) + 1 = 3 /\ w >= 3
      BY <1>1, <2>1
    <3>3. t \in Seq(Pair) /\ Len(t) = w - 2 /\ \A r \in 1..w - 2 : t[r] = q[r + 2]
      BY <1>4, <2>1, <3>1, <3>2
    <3>4. \A r \in 1..w - 2 : r + 2 \in 3..w
      BY <2>1
    <3>5. \A r \in 1..w - 2 : t[r] = Newline
      BY <1>1, <2>1, <2>2, <3>3, <3>4
    <3>6. s \in Seq(Pair) /\ Len(s) = w - 2 /\ \A r \in 1..w - 2 : s[r] = Newline
      BY <1>1, <2>1
    <3>7. t = s
      BY <3>3, <3>5, <3>6, SameSeq
    <3> QED
      BY <2>1, <3>1, <3>7 DEF EndsAt
  <2>5. w \in ends
    BY <1>1, <1>4, <2>1, <2>4
  <2>6. \A k \in ends : w <= k
    BY <1>3, <2>1
  <2>7. ends \subseteq Nat
    BY <1>3
  <2> HIDE DEF ends
  <2>8. (CHOOSE k \in ends : \A j \in ends : k <= j) = w
    <3>1. \A k \in ends : (\A j \in ends : k <= j) => k = w
      BY <2>5, <2>6, <2>7
    <3> QED
      BY <2>5, <2>6, <3>1
  <2> QED
    BY <1>2, <2>1, <2>3, <2>5, <2>8
<1>5. ASSUME Len(q) < Width
      PROVE  FrameEnd(q) = 0
  <2>1. ends = {}
    BY <1>1, <1>3, <1>5
  <2> QED
    BY <1>2, <2>1, Zenon
<1> QED
  BY <1>4, <1>5

\* A separator ends in the sequence, if there is one.
LEMMA FrameEndIs ==
    ASSUME NEW q \in Seq(Pair)
    PROVE  FrameEnd(q) \in 0..Len(q)
<1>1. Len(Separator) \in Nat
  BY WidthIs
<1> DEFINE ends == {k \in Len(Separator)..Len(q) : EndsAt(q, k)}
<1>2. FrameEnd(q) = IF ends = {} THEN 0 ELSE CHOOSE k \in ends : \A j \in ends : k <= j
  BY Zenon DEF FrameEnd, EndsAt
<1>3. ends \subseteq Nat /\ ends \subseteq 0..Len(q)
  BY <1>1
<1> HIDE DEF ends
<1>4. CASE ends = {}
  BY <1>2, <1>4
<1>5. CASE ends # {}
  <2>1. \E k \in ends : \A j \in ends : k <= j
    BY <1>3, <1>5, Least
  <2>2. (CHOOSE k \in ends : \A j \in ends : k <= j) \in ends
    BY <2>1
  <2>3. FrameEnd(q) \in ends
    BY <1>2, <1>5, <2>2, Zenon
  <2> QED
    BY <1>3, <2>3
<1> QED
  BY <1>4, <1>5

\* What the loop over the frames holds: the lines, and the bytes that are left.
Cut == [lines : Seq(Seq(Pair)), left : Seq(Pair)]

LEMMA CutTyped ==
    ASSUME NEW c \in Cut
    PROVE  CutOne(c) \in Cut
<1>1. PICK lines \in Seq(Seq(Pair)), left \in Seq(Pair) : c = [lines |-> lines, left |-> left]
  BY DEF Cut
<1>2. PICK end : end = FrameEnd(left)
  OBVIOUS
<1>3. end \in 0..Len(left)
  BY <1>2, FrameEndIs
<1>4. CASE end = 0
  <2>1. CutOne(c) = c
    BY <1>1, <1>2, <1>4 DEF CutOne
  <2> QED
    BY <2>1
<1>5. CASE end # 0
  <2>1. PICK line, rest : line = SubSeq(left, 1, end) /\ rest = SubSeq(left, end + 1, Len(left))
    OBVIOUS
  <2>2. line \in Seq(Pair) /\ rest \in Seq(Pair)
    BY <1>3, <2>1
  <2>3. PICK more : more = Append(lines, line)
    OBVIOUS
  <2>4. more \in Seq(Seq(Pair))
    BY <2>2, <2>3
  <2>5. c.lines = lines /\ c.left = left
    BY <1>1
  <2>6. CutOne(c) = [lines |-> more, left |-> rest]
    BY <1>2, <1>5, <2>1, <2>3, <2>5, Zenon DEF CutOne
  <2> QED
    BY <2>2, <2>4, <2>6 DEF Cut
<1> QED
  BY <1>4, <1>5

\* c holds what the loop has after each turn.
Loops(q, c) ==
    /\ c[0] = [lines |-> <<>>, left |-> q] /\ CutInFrames(q) = c[Len(q)]
    /\ \A n \in 1..Len(q) : c[n] = CutOne(c[n - 1])
    /\ \A n \in 0..Len(q) : c[n] \in Cut

LEMMA LoopIs ==
    ASSUME NEW q \in Seq(Pair)
    PROVE  \E c : Loops(q, c)
<1>1. PICK N \in Nat : N = Len(q)
  OBVIOUS
<1>2. PICK b : b = [lines |-> <<>>, left |-> q]
  OBVIOUS
<1>3. b \in Cut
  <2>1. PICK e : e = <<>>
    OBVIOUS
  <2>2. e \in Seq(Seq(Pair))
    BY <2>1
  <2>3. b = [lines |-> e, left |-> q]
    BY <1>2, <2>1, Zenon
  <2> QED
    BY <2>2, <2>3 DEF Cut
<1>4. PICK F : F = [x \in (1..N) \X Cut |-> CutOne(x[2])]
  OBVIOUS
<1>5. Steps(F, N, Cut)
  BY <1>4, CutTyped DEF Steps
<1>6. \A n \in 1..N : \A v \in Cut : F[<<n, v>>] = CutOne(v)
  BY <1>4
<1>7. PICK g \in [0..N -> Cut] : g[0] = b /\ \A n \in 1..N : g[n] = F[<<n, g[n - 1]>>]
  <2>1. \E h : Solves(h, N, Cut, b, F)
    BY <1>3, <1>5, Recursion
  <2> QED
    BY <2>1 DEF Solves
<1>8. \A n \in 1..N : g[n] = CutOne(g[n - 1])
  <2> SUFFICES ASSUME NEW n \in 1..N
               PROVE  g[n] = CutOne(g[n - 1])
    OBVIOUS
  <2>1. g[n - 1] \in Cut
    BY <1>7
  <2> QED
    BY <1>6, <1>7, <2>1
<1> DEFINE Step(h) == [n \in 0..Len(q) |-> IF n = 0 THEN [lines |-> <<>>, left |-> q] ELSE CutOne(h[n - 1])]
           cut == CHOOSE h : h = Step(h)
<1>9. g = Step(g)
  <2>1. \A n \in 0..N : g[n] = IF n = 0 THEN b ELSE CutOne(g[n - 1])
    BY <1>7, <1>8
  <2>2. g = [n \in 0..N |-> IF n = 0 THEN b ELSE CutOne(g[n - 1])]
    BY <1>7, <2>1
  <2> QED
    BY <1>1, <1>2, <2>2, Zenon
<1>10. cut = Step(cut)
  BY <1>9, Zenon
<1>11. CutInFrames(q) = cut[Len(q)]
  BY Zenon DEF CutInFrames
<1>12. PICK f : f = cut
  OBVIOUS
<1>13. f = [n \in 0..N |-> IF n = 0 THEN b ELSE CutOne(f[n - 1])]
  BY <1>1, <1>2, <1>10, <1>12, Zenon
<1>14. CutInFrames(q) = f[N]
  BY <1>1, <1>11, <1>12, Zenon
<1> HIDE DEF Step, cut
<1>15. f[0] = b /\ \A n \in 1..N : f[n] = CutOne(f[n - 1])
  <2>1. \A n \in 0..N : f[n] = IF n = 0 THEN b ELSE CutOne(f[n - 1])
    BY <1>13, Zenon
  <2> QED
    BY <1>1, <2>1
<1> DEFINE G == {n \in 0..N : f[n] \in Cut}
<1>16. 0 \in G
  BY <1>1, <1>3, <1>15
<1>17. ASSUME NEW n \in 1..N, n - 1 \in G
       PROVE  n \in G
  <2>1. f[n - 1] \in Cut /\ f[n] = CutOne(f[n - 1])
    BY <1>15, <1>17
  <2> QED
    BY <2>1, CutTyped
<1>18. \A n \in 0..N : n \in G
  <2> HIDE DEF G
  <2> QED
    BY <1>16, <1>17, UpTo
<1>19. \A n \in 0..N : f[n] \in Cut
  BY <1>18
<1> QED
  BY <1>1, <1>2, <1>14, <1>15, <1>19, Zenon DEF Loops

\* Where the byte r of the frame i is in a stream.
At(i, r) == Width * (i - 1) + r

\* The bytes of q are those of the frames from m + 1 on.
Holds(q, m) ==
    \A i \in Nat \ {0} : \A r \in 1..Width : At(i, r) <= Len(q) => q[At(i, r)] = Bytes(m + i)[r]

\* The places of bytes.
LEMMA AtIs ==
    ASSUME NEW i \in Nat, i > 0, NEW r \in 1..Width
    PROVE  /\ At(i, r) \in Nat /\ At(i, r) > 0 /\ At(1, r) = r
           /\ At(i + 1, r) = At(i, r) + Width
<1>1. CASE Width = 3
  BY <1>1 DEF At
<1>2. CASE Width = 4
  BY <1>2 DEF At
<1> QED
  BY <1>1, <1>2, WidthIs

\* What follows the first frame.
LEMMA HoldsNext ==
    ASSUME NEW a \in Seq(Pair), NEW b \in Seq(Pair), NEW m \in Nat, Holds(a, m),
           Len(a) = Len(b) + Width, \A j \in 1..Len(b) : b[j] = a[j + Width]
    PROVE  Holds(b, m + 1)
<1> SUFFICES ASSUME NEW i \in Nat \ {0}, NEW r \in 1..Width, At(i, r) <= Len(b)
             PROVE  b[At(i, r)] = Bytes((m + 1) + i)[r]
  BY DEF Holds
<1>0. Width \in Nat
  BY WidthIs
<1>1. At(i, r) \in 1..Len(b) /\ At(i + 1, r) = At(i, r) + Width
  <2>1. At(i, r) \in Nat /\ At(i, r) > 0 /\ At(i + 1, r) = At(i, r) + Width
    BY AtIs
  <2> QED
    BY <2>1
<1>2. b[At(i, r)] = a[At(i, r) + Width]
  BY <1>1
<1>3. At(i + 1, r) <= Len(a)
  BY <1>0, <1>1
<1>4. a[At(i + 1, r)] = Bytes(m + (i + 1))[r]
  BY <1>3 DEF Holds
<1>5. m + (i + 1) = (m + 1) + i
  OBVIOUS
<1> QED
  BY <1>1, <1>2, <1>4, <1>5, Zenon

\* A stream begins with its first frame.
LEMMA HoldsOpens ==
    ASSUME NEW q \in Seq(Pair), NEW m \in Nat, Holds(q, m)
    PROVE  Opens(q, m + 1)
<1> SUFFICES ASSUME NEW r \in 1..Width, r <= Len(q)
             PROVE  q[r] = Bytes(m + 1)[r]
  BY DEF Opens
<1>1. At(1, r) = r
  BY AtIs
<1>2. At(1, r) <= Len(q) => q[At(1, r)] = Bytes(m + 1)[r]
  BY DEF Holds
<1> QED
  BY <1>1, <1>2, Zenon

\* So does a part of it.
LEMMA HoldsFirst ==
    ASSUME NEW q \in Seq(Pair), NEW t \in Seq(Pair), NEW m \in Nat, Holds(q \o t, m)
    PROVE  Holds(q, m)
<1>1. PICK a : a = q \o t
  OBVIOUS
<1>2. Len(a) >= Len(q) /\ \A j \in 1..Len(q) : a[j] = q[j]
  BY <1>1
<1> SUFFICES ASSUME NEW i \in Nat \ {0}, NEW r \in 1..Width, At(i, r) <= Len(q)
             PROVE  q[At(i, r)] = Bytes(m + i)[r]
  BY DEF Holds
<1>3. At(i, r) \in 1..Len(q)
  <2>1. At(i, r) \in Nat /\ At(i, r) > 0
    BY AtIs
  <2> QED
    BY <2>1
<1>4. At(i, r) <= Len(a)
  <2>1. Len(a) \in Nat
    BY <1>1
  <2> QED
    BY <1>2, <1>3, <2>1
<1>5. a[At(i, r)] = Bytes(m + i)[r]
  BY <1>1, <1>4 DEF Holds
<1> QED
  BY <1>2, <1>3, <1>5

\* One turn of the loop takes the first frame, once all of it is there.
LEMMA CutOneIs ==
    ASSUME NEW c \in Cut, NEW m \in Nat, Holds(c.left, m)
    PROVE  /\ Len(c.left) < Width => CutOne(c) = c
           /\ Len(c.left) >= Width =>
                 CutOne(c) = [lines |-> Append(c.lines, Bytes(m + 1)),
                              left |-> SubSeq(c.left, Width + 1, Len(c.left))]
<1>1. PICK left \in Seq(Pair) : left = c.left
  BY DEF Cut
<1>2. Opens(left, m + 1)
  BY <1>1, HoldsOpens
<1>3. /\ Len(left) >= Width => FrameEnd(left) = Width /\ SubSeq(left, 1, Width) = Bytes(m + 1)
      /\ Len(left) < Width => FrameEnd(left) = 0
  BY <1>2, EndOfFrame
<1>4. Width # 0
  BY WidthIs
<1>5. Len(left) < Width => CutOne(c) = c
  BY <1>1, <1>3, Zenon DEF CutOne
<1>6. Len(left) >= Width =>
         CutOne(c) = [lines |-> Append(c.lines, Bytes(m + 1)),
                      left |-> SubSeq(c.left, Width + 1, Len(c.left))]
  BY <1>1, <1>3, <1>4, Zenon DEF CutOne
<1> QED
  BY <1>1, <1>5, <1>6

\* The lines are the frames from m + 1 to m + k, and what is left and t the rest.
Parted(c, t, m, k, size) ==
    /\ Len(c.lines) = k /\ \A j \in 1..k : c.lines[j] = Bytes(m + j)
    /\ Holds(c.left \o t, m + k)
    /\ Len(c.left) + Len(t) + Width * k = size

\* After another turn there is one line more, or less than a frame is left.
LEMMA TurnHolds ==
    ASSUME NEW c \in Cut, NEW t \in Seq(Pair), NEW m \in Nat, NEW k \in Nat, NEW size \in Nat,
           Parted(c, t, m, k, size)
    PROVE  /\ Len(c.left) < Width => CutOne(c) = c
           /\ Len(c.left) >= Width => Parted(CutOne(c), t, m, k + 1, size)
<1>1. PICK left \in Seq(Pair), lines \in Seq(Seq(Pair)) : left = c.left /\ lines = c.lines
  BY DEF Cut
<1>2. Holds(left, m + k) /\ Holds(left \o t, m + k)
  <2>1. Holds(left \o t, m + k)
    BY <1>1 DEF Parted
  <2> QED
    BY <2>1, HoldsFirst
<1>3. /\ Len(left) < Width => CutOne(c) = c
      /\ Len(left) >= Width =>
            CutOne(c) = [lines |-> Append(lines, Bytes((m + k) + 1)),
                         left |-> SubSeq(left, Width + 1, Len(left))]
  BY <1>1, <1>2, CutOneIs
<1>4. ASSUME Len(left) >= Width
      PROVE  Parted(CutOne(c), t, m, k + 1, size)
  <2>1. PICK w \in {3, 4} : w = Width
    BY WidthIs
  <2>2. PICK line \in Seq(Pair) : line = Bytes((m + k) + 1)
    <3>1. PICK i \in Nat : i = (m + k) + 1 /\ i > 0
      OBVIOUS
    <3>2. Bytes(i) \in Seq(Pair)
      BY <3>1, BytesAre
    <3> QED
      BY <3>1, <3>2, Zenon
  <2>3. PICK more, rest : more = Append(lines, line) /\ rest = SubSeq(left, w + 1, Len(left))
    OBVIOUS
  <2>4. CutOne(c) = [lines |-> more, left |-> rest]
    BY <1>3, <1>4, <2>1, <2>2, <2>3, Zenon
  <2>5. Len(lines) = k /\ \A j \in 1..k : lines[j] = Bytes(m + j)
    BY <1>1 DEF Parted
  <2>6. Len(more) = k + 1 /\ \A j \in 1..k + 1 : more[j] = Bytes(m + j)
    <3>1. Len(more) = k + 1 /\ more[k + 1] = line /\ \A j \in 1..k : more[j] = lines[j]
      BY <2>3, <2>5
    <3>2. \A j \in 1..k + 1 : j \in 1..k \/ j = k + 1
      OBVIOUS
    <3>3. (m + k) + 1 = m + (k + 1)
      OBVIOUS
    <3>4. more[k + 1] = Bytes(m + (k + 1))
      BY <2>2, <3>1, <3>3, Zenon
    <3> QED
      BY <2>5, <3>1, <3>2, <3>4
  <2>7. rest \in Seq(Pair) /\ Len(left) = Len(rest) + w /\ \A j \in 1..Len(rest) : rest[j] = left[j + w]
    <3>1. Len(left) \in Nat /\ Len(left) >= w
      BY <1>4, <2>1
    <3>2. rest \in Seq(Pair) /\ Len(rest) = Len(left) - w
      BY <2>1, <2>3, <3>1
    <3>3. \A j \in 1..Len(left) - w : rest[j] = left[j + w]
      BY <2>1, <2>3, <3>1
    <3> QED
      BY <3>1, <3>2, <3>3
  <2>8. Holds(rest \o t, (m + k) + 1)
    <3>1. PICK a, b : a = left \o t /\ b = rest \o t
      OBVIOUS
    <3>2. /\ a \in Seq(Pair) /\ Len(a) = Len(left) + Len(t)
          /\ \A j \in 1..Len(left) : a[j] = left[j]
          /\ \A j \in 1..Len(t) : a[Len(left) + j] = t[j]
      BY <3>1
    <3>3. /\ b \in Seq(Pair) /\ Len(b) = Len(rest) + Len(t)
          /\ \A j \in 1..Len(rest) : b[j] = rest[j]
          /\ \A j \in 1..Len(t) : b[Len(rest) + j] = t[j]
      BY <2>7, <3>1
    <3>4. PICK A \in Nat, B \in Nat : A = Len(rest) /\ B = Len(t)
      <4>1. Len(rest) \in Nat /\ Len(t) \in Nat
        BY <2>7
      <4> QED
        BY <4>1
    <3>5. Len(a) = Len(b) + w
      BY <2>7, <3>2, <3>3
    <3>6. \A j \in 1..Len(b) : b[j] = a[j + w]
      <4> SUFFICES ASSUME NEW j \in 1..A + B
                   PROVE  b[j] = a[j + w]
        BY <3>3, <3>4
      <4>1. CASE j <= A
        <5>1. b[j] = rest[j] /\ rest[j] = left[j + w] /\ a[j + w] = left[j + w]
          <6>1. j \in 1..Len(rest) /\ j + w \in 1..Len(left)
            BY <2>1, <2>7, <3>4, <4>1
          <6> QED
            BY <2>7, <3>2, <3>3, <6>1
        <5> QED
          BY <5>1
      <4>2. CASE j > A
        <5>1. PICK i \in 1..B : j = A + i
          <6>1. j - A \in 1..B /\ j = A + (j - A)
            BY <3>4, <4>2
          <6> QED
            BY <6>1
        <5>2. j + w = Len(left) + i
          BY <2>1, <2>7, <3>4, <5>1
        <5>3. b[j] = t[i] /\ a[j + w] = t[i]
          BY <3>2, <3>3, <3>4, <5>1, <5>2
        <5> QED
          BY <5>3
      <4> QED
        BY <3>4, <4>1, <4>2
    <3>7. Holds(a, m + k)
      BY <1>2, <3>1
    <3>8. m + k \in Nat
      OBVIOUS
    <3>9. Holds(b, (m + k) + 1)
      BY <2>1, <3>2, <3>3, <3>5, <3>6, <3>7, <3>8, HoldsNext
    <3> QED
      BY <3>1, <3>9
  <2>9. Len(rest) + Len(t) + Width * (k + 1) = size
    <3>1. Len(left) + Len(t) + Width * k = size
      BY <1>1 DEF Parted
    <3>2. PICK B \in Nat, R \in Nat, L \in Nat : B = Len(t) /\ R = Len(rest) /\ L = Len(left) /\ L = R + w
      BY <2>7
    <3>3. CASE w = 3
      BY <2>1, <3>1, <3>2, <3>3
    <3>4. CASE w = 4
      BY <2>1, <3>1, <3>2, <3>4
    <3> QED
      BY <2>1, <3>3, <3>4
  <2>10. (m + k) + 1 = m + (k + 1)
    OBVIOUS
  <2>11. CutOne(c).lines = more /\ CutOne(c).left = rest
    BY <2>4
  <2> QED
    BY <2>6, <2>8, <2>9, <2>10, <2>11, Zenon DEF Parted
<1> QED
  BY <1>1, <1>3, <1>4

\* The loop takes all frames that are there.
LEMMA LoopHolds ==
    ASSUME NEW q \in Seq(Pair), NEW t \in Seq(Pair), NEW m \in Nat, Holds(q \o t, m),
           NEW size \in Nat, size = Len(q) + Len(t)
    PROVE  /\ CutInFrames(q) \in Cut
           /\ \E k \in Nat : Parted(CutInFrames(q), t, m, k, size) /\ Len(CutInFrames(q).left) < Width
<1>1. PICK c : Loops(q, c)
  BY LoopIs
<1>2. PICK N \in Nat : N = Len(q)
  OBVIOUS
<1>3. /\ c[0] = [lines |-> <<>>, left |-> q] /\ CutInFrames(q) = c[N]
      /\ \A n \in 1..N : c[n] = CutOne(c[n - 1])
      /\ \A n \in 0..N : c[n] \in Cut
  BY <1>1, <1>2, Zenon DEF Loops
<1>4. Width \in Nat /\ Width > 0
  BY WidthIs
<1> DEFINE G == {n \in 0..N : \E k \in 0..n :
                    Parted(c[n], t, m, k, size) /\ (k = n \/ Len(c[n].left) < Width)}
<1>5. 0 \in G
  <2>1. c[0].lines = <<>> /\ c[0].left = q
    BY <1>3
  <2>2. Len(c[0].lines) = 0 /\ \A j \in 1..0 : c[0].lines[j] = Bytes(m + j)
    BY <2>1
  <2>3. m + 0 = m /\ Width * 0 = 0
    BY <1>4
  <2>4. Holds(c[0].left \o t, m + 0)
    BY <2>1, <2>3
  <2>5. Len(c[0].left) + Len(t) + Width * 0 = size
    BY <2>1, <2>3
  <2>6. Parted(c[0], t, m, 0, size)
    BY <2>2, <2>4, <2>5, Zenon DEF Parted
  <2> QED
    BY <1>2, <2>6
<1>6. ASSUME NEW n \in 1..N, n - 1 \in G
      PROVE  n \in G
  <2>1. PICK k \in 0..n - 1 :
           Parted(c[n - 1], t, m, k, size) /\ (k = n - 1 \/ Len(c[n - 1].left) < Width)
    BY <1>6
  <2>2. PICK a \in Cut : a = c[n - 1]
    BY <1>3, <1>6
  <2>3. c[n] = CutOne(a)
    BY <1>3, <2>2
  <2>4. Len(a.left) \in Nat
    BY <2>2 DEF Cut
  <2>5. k \in Nat /\ n \in 0..N
    BY <1>2
  <2>6. /\ Len(a.left) < Width => CutOne(a) = a
        /\ Len(a.left) >= Width => Parted(CutOne(a), t, m, k + 1, size)
    BY <2>1, <2>2, <2>5, TurnHolds
  <2>7. CASE Len(a.left) < Width
    <3>1. c[n] = a
      BY <2>3, <2>6, <2>7
    <3>2. Parted(c[n], t, m, k, size) /\ Len(c[n].left) < Width
      BY <2>1, <2>2, <2>7, <3>1
    <3>3. k \in 0..n
      BY <1>2
    <3> QED
      BY <2>5, <3>2, <3>3
  <2>8. CASE Len(a.left) >= Width
    <3>1. Parted(c[n], t, m, k + 1, size)
      BY <2>3, <2>6, <2>8
    <3>2. k = n - 1
      BY <1>4, <2>1, <2>2, <2>4, <2>8
    <3>3. k + 1 = n /\ k + 1 \in 0..n
      BY <1>2, <3>2
    <3> QED
      BY <2>5, <3>1, <3>3
  <2> QED
    BY <1>4, <2>4, <2>7, <2>8
<1>7. N \in G
  <2> HIDE DEF G
  <2>1. \A n \in 0..N : n \in G
    BY <1>2, <1>5, <1>6, UpTo
  <2> QED
    BY <1>2, <2>1
<1>8. PICK k \in 0..N : Parted(c[N], t, m, k, size) /\ (k = N \/ Len(c[N].left) < Width)
  BY <1>7
<1>9. c[N] \in Cut
  BY <1>2, <1>3
<1>10. Len(c[N].left) < Width
  <2>1. PICK L \in Nat, T \in Nat : L = Len(c[N].left) /\ T = Len(t)
    BY <1>9 DEF Cut
  <2>2. L + T + Width * k = N + T
    BY <1>2, <1>8, <2>1 DEF Parted
  <2>3. CASE k = N
    <3>1. PICK w \in {3, 4} : w = Width
      BY WidthIs
    <3>2. L + T + w * N = N + T
      BY <2>2, <2>3, <3>1
    <3>3. L = 0
      <4>1. w = 3 => L = 0
        BY <3>2
      <4>2. w = 4 => L = 0
        BY <3>2
      <4> QED
        BY <4>1, <4>2
    <3> QED
      BY <1>4, <2>1, <3>3
  <2> QED
    BY <1>8, <2>3
<1> QED
  BY <1>3, <1>8, <1>9, <1>10

\* The bytes of one more frame.
Plus(t, i) == t \o Bytes(i)

\* The stream is put together frame by frame.
LEMMA EncodedIs ==
    ASSUME NEW N \in Nat
    PROVE  \E f : /\ f[0] = <<>> /\ Encoded(N) = f[N]
                  /\ \A n \in 1..N : f[n] = Plus(f[n - 1], n)
<1>1. PICK T : T = Seq(Pair)
  OBVIOUS
<1>2. PICK F : F = [x \in (1..N) \X T |-> Plus(x[2], x[1])]
  OBVIOUS
<1>3. \A n \in 1..N : \A v \in T : Plus(v, n) \in T
  <2> SUFFICES ASSUME NEW n \in 1..N, NEW v \in T
               PROVE  Plus(v, n) \in T
    OBVIOUS
  <2>1. PICK b \in Seq(Pair) : b = Bytes(n)
    BY BytesAre
  <2>2. v \o b \in T
    BY <1>1
  <2> QED
    BY <2>1, <2>2 DEF Plus
<1>4. Steps(F, N, T)
  BY <1>2, <1>3 DEF Steps
<1>5. \A n \in 1..N : \A v \in T : F[<<n, v>>] = Plus(v, n)
  BY <1>2
<1>6. PICK g \in [0..N -> T] : g[0] = <<>> /\ \A n \in 1..N : g[n] = F[<<n, g[n - 1]>>]
  <2>1. <<>> \in T
    BY <1>1
  <2>2. \E h : Solves(h, N, T, <<>>, F)
    BY <1>4, <2>1, Recursion
  <2> QED
    BY <2>2 DEF Solves
<1>7. \A n \in 1..N : g[n] = Plus(g[n - 1], n)
  <2> SUFFICES ASSUME NEW n \in 1..N
               PROVE  g[n] = Plus(g[n - 1], n)
    OBVIOUS
  <2>1. g[n - 1] \in T
    BY <1>6
  <2> QED
    BY <1>5, <1>6, <2>1
<1> DEFINE Step(h) == [n \in 0..N |-> IF n = 0 THEN <<>> ELSE Plus(h[n - 1], n)]
           sent == CHOOSE h : h = Step(h)
<1>8. g = Step(g)
  <2>1. \A n \in 0..N : g[n] = IF n = 0 THEN <<>> ELSE Plus(g[n - 1], n)
    BY <1>6, <1>7
  <2> QED
    BY <1>6, <2>1
<1>9. sent = Step(sent)
  BY <1>8, Zenon
<1>10. Encoded(N) = sent[N]
  BY Zenon DEF Encoded, Plus
<1>11. PICK f : f = sent
  OBVIOUS
<1>12. f = [n \in 0..N |-> IF n = 0 THEN <<>> ELSE Plus(f[n - 1], n)]
  BY <1>9, <1>11, Zenon
<1>13. Encoded(N) = f[N]
  BY <1>10, <1>11, Zenon
<1> HIDE DEF Step, sent
<1>14. f[0] = <<>> /\ \A n \in 1..N : f[n] = Plus(f[n - 1], n)
  <2>1. \A n \in 0..N : f[n] = IF n = 0 THEN <<>> ELSE Plus(f[n - 1], n)
    BY <1>12, Zenon
  <2> QED
    BY <2>1
<1> QED
  BY <1>13, <1>14

\* The bytes of the first n frames.
First(q, n) ==
    /\ q \in Seq(Pair) /\ Len(q) = Width * n
    /\ \A i \in 1..n : \A r \in 1..Width : q[At(i, r)] = Bytes(i)[r]

\* Where the bytes of the first n frames are.
LEMMA AtBound ==
    ASSUME NEW n \in Nat, NEW i \in Nat \ {0}, NEW r \in 1..Width
    PROVE  /\ i <= n <=> At(i, r) <= Width * n
           /\ At(n + 1, r) = Width * n + r /\ Width * n \in Nat
           /\ Width * (n + 1) = Width * n + Width /\ Width * 0 = 0
<1>1. CASE Width = 3
  BY <1>1 DEF At
<1>2. CASE Width = 4
  BY <1>2 DEF At
<1> QED
  BY <1>1, <1>2, WidthIs

\* What is sent is the first frames.
LEMMA EncodedHolds ==
    ASSUME NEW N \in Nat
    PROVE  /\ Encoded(N) \in Seq(Pair) /\ Len(Encoded(N)) = Width * N /\ Holds(Encoded(N), 0)
<1>1. PICK f : /\ f[0] = <<>> /\ Encoded(N) = f[N]
               /\ \A n \in 1..N : f[n] = Plus(f[n - 1], n)
  BY EncodedIs
<1>2. Width \in Nat /\ 1 \in 1..Width
  BY WidthIs
<1> DEFINE G == {n \in 0..N : First(f[n], n)}
<1>3. 0 \in G
  <2>1. Width * 0 = 0
    BY <1>2
  <2>2. f[0] \in Seq(Pair) /\ Len(f[0]) = 0
    BY <1>1
  <2>3. First(f[0], 0)
    BY <2>1, <2>2 DEF First
  <2> QED
    BY <2>3
<1>4. ASSUME NEW n \in 1..N, n - 1 \in G
      PROVE  n \in G
  <2>1. PICK a \in Seq(Pair) : a = f[n - 1] /\ First(a, n - 1)
    BY <1>4 DEF First
  <2>2. PICK b \in Seq(Pair) : b = Bytes(n) /\ Len(b) = Width
    BY BytesAre
  <2>3. PICK q : q = a \o b
    OBVIOUS
  <2>4. f[n] = q
    BY <1>1, <2>1, <2>2, <2>3, Zenon DEF Plus
  <2>5. PICK p \in Nat : p = n - 1 /\ n = p + 1
    OBVIOUS
  <2>6. Width * p \in Nat /\ Width * n = Width * p + Width
    BY <1>2, <2>5, AtBound
  <2>7. Len(a) = Width * p
    BY <2>1, <2>5 DEF First
  <2>8. /\ q \in Seq(Pair) /\ Len(q) = Len(a) + Len(b)
        /\ \A j \in 1..Len(a) : q[j] = a[j]
        /\ \A j \in 1..Len(b) : q[Len(a) + j] = b[j]
    BY <2>3
  <2>9. Len(q) = Width * n
    BY <2>2, <2>6, <2>7, <2>8
  <2>10. ASSUME NEW i \in 1..n, NEW r \in 1..Width
         PROVE  q[At(i, r)] = Bytes(i)[r]
    <3>1. CASE i = n
      <4>1. At(i, r) = Len(a) + r
        BY <2>5, <2>7, <3>1, AtBound
      <4>2. r \in 1..Len(b)
        BY <2>2
      <4> QED
        BY <2>2, <2>8, <3>1, <4>1, <4>2
    <3>2. CASE i # n
      <4>1. i \in Nat \ {0} /\ i <= p /\ i \in 1..p /\ i > 0
        BY <2>5, <3>2
      <4>2. At(i, r) <= Len(a)
        BY <2>7, <4>1, AtBound
      <4>3. At(i, r) \in Nat /\ At(i, r) > 0
        BY <4>1, AtIs
      <4>4. At(i, r) \in 1..Len(a)
        BY <4>2, <4>3
      <4>5. q[At(i, r)] = a[At(i, r)]
        BY <2>8, <4>4
      <4>6. a[At(i, r)] = Bytes(i)[r]
        BY <2>1, <2>5, <4>1 DEF First
      <4> QED
        BY <4>5, <4>6
    <3> QED
      BY <3>1, <3>2
  <2>11. First(q, n)
    BY <2>8, <2>9, <2>10 DEF First
  <2>12. n \in 0..N
    OBVIOUS
  <2> QED
    BY <2>4, <2>11, <2>12
<1>5. N \in G
  <2> HIDE DEF G
  <2>1. \A n \in 0..N : n \in G
    BY <1>3, <1>4, UpTo
  <2> QED
    BY <2>1
<1>6. PICK q \in Seq(Pair) : q = Encoded(N) /\ First(q, N)
  BY <1>1, <1>5 DEF First
<1>7. Holds(q, 0)
  <2> SUFFICES ASSUME NEW i \in Nat \ {0}, NEW r \in 1..Width, At(i, r) <= Len(q)
               PROVE  q[At(i, r)] = Bytes(0 + i)[r]
    BY DEF Holds
  <2>1. Len(q) = Width * N
    BY <1>6 DEF First
  <2>2. i <= N
    BY <2>1, AtBound
  <2>3. i \in 1..N /\ 0 + i = i
    BY <2>2
  <2>4. q[At(i, r)] = Bytes(i)[r]
    BY <1>6, <2>3 DEF First
  <2> QED
    BY <2>3, <2>4
<1> QED
  BY <1>6, <1>7 DEF First

\* What a reader gives for a frame.
Note == [frame : 0..MaxFrames, kind : {"text", "error", "bad"}]

\* The kinds of the frames sent.
Kinded == frames \in Seq({"text", "error", "bad"}) /\ Len(frames) <= MaxFrames

\* A frame that arrives whole is the one that was sent.
LEMMA MeaningIs ==
    ASSUME Kinded, NEW i \in 1..Len(frames)
    PROVE  /\ Meaning(Bytes(i)) = Sent[i] /\ Sent[i] \in Note
           /\ Sent[i] = [frame |-> i, kind |-> frames[i]]
<1>1. i \in Nat /\ i > 0 /\ Len(frames) \in Nat /\ MaxFrames \in Nat
  BY WireAssumption DEF Kinded
<1>2. Bytes(i)[1] = <<i, 1>>
  BY <1>1, BytesAre
<1>3. Bytes(i)[1][1] = i
  BY <1>2
<1>4. Meaning(Bytes(i)) = [frame |-> Bytes(i)[1][1], kind |-> frames[Bytes(i)[1][1]]]
  BY Zenon DEF Meaning
<1>5. frames[i] \in {"text", "error", "bad"} /\ i \in DOMAIN frames
  BY DEF Kinded
<1>6. Sent[i] = [frame |-> i, kind |-> frames[i]]
  BY <1>5 DEF Sent
<1>7. i \in 0..MaxFrames
  BY <1>1 DEF Kinded
<1>8. Sent[i] \in Note
  BY <1>5, <1>6, <1>7 DEF Note
<1> QED
  BY <1>3, <1>4, <1>6, <1>8, Zenon

\* Whatever a line is, it is read as a note.
LEMMA MeaningTyped ==
    ASSUME Kinded, NEW line
    PROVE  Meaning(line) \in Note
<1>1. CASE \E i \in 1..Len(frames) : line = Bytes(i)
  BY <1>1, MeaningIs
<1>2. CASE ~ \E i \in 1..Len(frames) : line = Bytes(i)
  <2>1. Meaning(line) = [frame |-> 0, kind |-> "bad"]
    BY <1>2, Zenon DEF Meaning
  <2>2. 0 \in 0..MaxFrames
    BY WireAssumption
  <2> QED
    BY <2>1, <2>2 DEF Note
<1> QED
  BY <1>1, <1>2

\* What is read of lines, and of those that hold text.
LEMMA ReadTyped ==
    ASSUME Kinded, NEW lines \in Seq(Seq(Pair))
    PROVE  /\ Read(lines) \in Seq(Note) /\ Len(Read(lines)) = Len(lines)
           /\ \A k \in 1..Len(lines) : Read(lines)[k] = Meaning(lines[k])
           /\ TextOf(lines) \in Seq(Note)
<1>1. PICK r : r = Read(lines)
  OBVIOUS
<1>2. PICK n \in Nat : n = Len(lines)
  OBVIOUS
<1>3. r = [k \in 1..n |-> Meaning(lines[k])]
  BY <1>1, <1>2 DEF Read
<1>4. r \in Seq(Note) /\ Len(r) = n /\ \A k \in 1..n : r[k] = Meaning(lines[k])
  <2>1. \A k \in 1..n : Meaning(lines[k]) \in Note
    BY MeaningTyped
  <2> QED
    BY <1>3, <2>1
<1>5. PICK keep : keep = {k \in 1..n : Meaning(lines[k]).kind = "text"}
  OBVIOUS
<1>6. PICK f : f = Selected(r, keep)
  OBVIOUS
<1>7. keep \in SUBSET (1..Len(r))
  BY <1>4, <1>5
<1>8. f \in Seq({r[k] : k \in 1..Len(r)})
  <2>1. Chosen(r, keep, Len(r), Selected(r, keep))
    BY <1>4, <1>7, Selection
  <2> QED
    BY <1>6, <2>1 DEF Chosen
<1>9. {r[k] : k \in 1..Len(r)} \subseteq Note
  BY <1>4
<1>10. f \in Seq(Note)
  BY <1>8, <1>9
<1>11. TextOf(lines) = f
  BY <1>1, <1>2, <1>5, <1>6, Zenon DEF TextOf
<1> QED
  BY <1>1, <1>2, <1>4, <1>10, <1>11

\* The frames a reader that keeps bytes gives its caller, and what it gives.
DueAt ==
    IF reader = "bus" THEN {i \in DOMAIN frames : \A j \in 1..i : frames[j] # "bad"}
    ELSE {i \in DOMAIN frames : frames[i] = "text"}

Promised == IF reader = "bus" THEN BusReadable ELSE Readable

\* d[n] is what is due of the first n frames.
IsDue(d) ==
    /\ d[0] = <<>> /\ Promised = d[Len(frames)]
    /\ \A n \in 1..Len(frames) :
          d[n] = IF n \in DueAt THEN Append(d[n - 1], Sent[n]) ELSE d[n - 1]

LEMMA DueExists ==
    ASSUME Kinded
    PROVE  \E d : IsDue(d)
<1>1. PICK q : q = Sent
  OBVIOUS
<1>2. q \in Seq(Note) /\ Len(q) = Len(frames)
  <2>1. DOMAIN frames = 1..Len(frames) /\ Len(frames) \in Nat
    BY DEF Kinded
  <2>2. \A i \in 1..Len(frames) : q[i] \in Note
    BY <1>1, MeaningIs
  <2>3. q = [i \in 1..Len(frames) |-> [frame |-> i, kind |-> frames[i]]]
    BY <1>1, <2>1 DEF Sent
  <2>4. q = [i \in 1..Len(frames) |-> q[i]]
    BY <2>3
  <2> QED
    BY <2>1, <2>2, <2>4
<1>3. PICK keep : keep = DueAt
  OBVIOUS
<1>4. keep \in SUBSET (1..Len(q))
  <2>1. DOMAIN frames = 1..Len(frames)
    BY DEF Kinded
  <2> QED
    BY <1>2, <1>3, <2>1 DEF DueAt
<1>5. PICK d : /\ d[0] = <<>>
               /\ \A n \in 1..Len(q) :
                     d[n] = IF n \in keep THEN Append(d[n - 1], q[n]) ELSE d[n - 1]
               /\ Selected(q, keep) = d[Len(q)]
  BY <1>2, <1>4, SelectedIs
<1>6. Promised = Selected(q, keep)
  BY <1>1, <1>3, Zenon DEF Promised, DueAt, BusReadable, Readable
<1> QED
  BY <1>1, <1>2, <1>3, <1>5, <1>6, Zenon DEF IsDue

\* More is due of more frames, after what is due of the first.
LEMMA DueGrows ==
    ASSUME Kinded, NEW d, IsDue(d)
    PROVE  /\ \A n \in 0..Len(frames) : d[n] \in Seq(Note)
           /\ \A n \in 0..Len(frames) : \A m \in 0..n : IsPrefix(d[m], d[n])
<1>1. PICK N \in Nat : N = Len(frames)
  BY DEF Kinded
<1>2. PICK q, keep : q = Sent /\ keep = DueAt
  OBVIOUS
<1>3. /\ d[0] = <<>>
      /\ \A n \in 1..N : d[n] = IF n \in keep THEN Append(d[n - 1], q[n]) ELSE d[n - 1]
  BY <1>1, <1>2 DEF IsDue
<1>4. \A n \in 1..N : q[n] \in Note
  BY <1>1, <1>2, MeaningIs
<1> DEFINE G == {n \in 0..N : \A m \in 0..n : d[m] \in Seq(Note) /\ IsPrefix(d[m], d[n])}
<1>5. 0 \in G
  <2>1. d[0] \in Seq(Note)
    BY <1>3
  <2>2. \A m \in 0..0 : m = 0
    OBVIOUS
  <2>3. IsPrefix(d[0], d[0])
    BY <1>3 DEF IsPrefix
  <2> QED
    BY <2>1, <2>2, <2>3
<1>6. ASSUME NEW n \in 1..N, n - 1 \in G
      PROVE  n \in G
  <2>1. PICK a \in Seq(Note) : a = d[n - 1] /\ \A m \in 0..n - 1 : d[m] \in Seq(Note) /\ IsPrefix(d[m], a)
    BY <1>6
  <2>2. PICK v \in Note : v = q[n]
    BY <1>4
  <2>3. PICK b : b = d[n]
    OBVIOUS
  <2>4. b = IF n \in keep THEN Append(a, v) ELSE a
    BY <1>3, <2>1, <2>2, <2>3
  <2>5. b \in Seq(Note)
    BY <2>4
  <2>6. \A m \in 0..n : d[m] \in Seq(Note) /\ IsPrefix(d[m], b)
    <3> SUFFICES ASSUME NEW m \in 0..n
                 PROVE  d[m] \in Seq(Note) /\ IsPrefix(d[m], b)
      OBVIOUS
    <3>1. CASE m = n
      <4>1. d[m] = b
        BY <2>3, <3>1
      <4>2. IsPrefix(b, b)
        BY <2>5 DEF IsPrefix
      <4> QED
        BY <2>5, <4>1, <4>2
    <3>2. CASE m # n
      <4>1. m \in 0..n - 1
        BY <3>2
      <4>2. d[m] \in Seq(Note) /\ IsPrefix(d[m], a)
        BY <2>1, <4>1
      <4>3. PICK c : c = d[m]
        OBVIOUS
      <4>4. c \in Seq(Note)
        BY <4>2, <4>3
      <4>5. IsPrefix(c, a)
        BY <4>2, <4>3
      <4>6. IsPrefix(c, b)
        BY <2>4, <4>4, <4>5 DEF IsPrefix
      <4> QED
        BY <4>3, <4>4, <4>6
    <3> QED
      BY <3>1, <3>2
  <2> QED
    BY <2>3, <2>5, <2>6
<1>7. \A n \in 0..N : n \in G
  <2> HIDE DEF G
  <2> QED
    BY <1>5, <1>6, UpTo
<1> QED
  BY <1>1, <1>7

\* The lines are the frames from m + 1 on.
Lines(lines, m) ==
    /\ lines \in Seq(Seq(Pair)) /\ m + Len(lines) <= Len(frames)
    /\ \A j \in 1..Len(lines) : lines[j] = Bytes(m + j)

\* What the lines are read as.
LEMMA LinesRead ==
    ASSUME Kinded, NEW lines, NEW m \in Nat, Lines(lines, m)
    PROVE  \A j \in 1..Len(lines) :
              m + j \in 1..Len(frames) /\ Meaning(lines[j]) = Sent[m + j]
              /\ Meaning(lines[j]).kind = frames[m + j]
<1> SUFFICES ASSUME NEW j \in 1..Len(lines)
             PROVE  m + j \in 1..Len(frames) /\ Meaning(lines[j]) = Sent[m + j]
                    /\ Meaning(lines[j]).kind = frames[m + j]
  OBVIOUS
<1>1. PICK k \in Nat, N \in Nat : k = Len(lines) /\ N = Len(frames)
  BY DEF Lines, Kinded
<1>2. PICK i \in 1..N : i = m + j
  <2>1. m + k <= N
    BY <1>1 DEF Lines
  <2>2. m + j \in 1..N
    BY <1>1, <2>1
  <2> QED
    BY <2>2
<1>3. lines[j] = Bytes(i)
  BY <1>2 DEF Lines
<1>4. Meaning(Bytes(i)) = Sent[i] /\ Sent[i] = [frame |-> i, kind |-> frames[i]]
  BY <1>1, MeaningIs
<1>5. Sent[i].kind = frames[i]
  BY <1>4
<1> QED
  BY <1>1, <1>2, <1>3, <1>4, <1>5, Zenon

\* An element appended to the second part is appended to the whole.
LEMMA AppendAfter ==
    ASSUME NEW S, NEW D \in Seq(S), NEW a \in Seq(S), NEW v \in S
    PROVE  Append(a, v) \in Seq(S) /\ D \o Append(a, v) = Append(D \o a, v)
<1>1. PICK w, z : w = D \o a /\ z = Append(a, v)
  OBVIOUS
<1>2. PICK x, y : x = D \o z /\ y = Append(w, v)
  OBVIOUS
<1>3. /\ w \in Seq(S) /\ Len(w) = Len(D) + Len(a)
      /\ \A t \in 1..Len(D) : w[t] = D[t]
      /\ \A t \in 1..Len(a) : w[Len(D) + t] = a[t]
  BY <1>1
<1>4. /\ z \in Seq(S) /\ Len(z) = Len(a) + 1 /\ z[Len(a) + 1] = v
      /\ \A t \in 1..Len(a) : z[t] = a[t]
  BY <1>1
<1>5. /\ x \in Seq(S) /\ Len(x) = Len(D) + Len(z)
      /\ \A t \in 1..Len(D) : x[t] = D[t]
      /\ \A t \in 1..Len(z) : x[Len(D) + t] = z[t]
  <2>1. z \in Seq(S) /\ x = D \o z
    BY <1>2, <1>4
  <2> QED
    BY <2>1
<1>6. /\ y \in Seq(S) /\ Len(y) = Len(w) + 1 /\ y[Len(w) + 1] = v
      /\ \A t \in 1..Len(w) : y[t] = w[t]
  BY <1>2, <1>3
<1>7. PICK A \in Nat, B \in Nat : A = Len(D) /\ B = Len(a)
  OBVIOUS
<1>8. Len(x) = A + B + 1 /\ Len(y) = A + B + 1
  BY <1>3, <1>4, <1>5, <1>6, <1>7
<1>9. \A t \in 1..A + B + 1 : x[t] = y[t]
  <2> SUFFICES ASSUME NEW t \in 1..A + B + 1
               PROVE  x[t] = y[t]
    OBVIOUS
  <2>1. CASE t <= A
    <3>1. t \in 1..Len(D) /\ t \in 1..Len(w)
      BY <1>3, <1>7, <2>1
    <3> QED
      BY <1>3, <1>5, <1>6, <3>1
  <2>2. CASE t > A
    <3>1. PICK j \in 1..B + 1 : t = A + j
      <4>1. t - A \in 1..B + 1 /\ t = A + (t - A)
        BY <2>2
      <4> QED
        BY <4>1
    <3>2. x[t] = z[j]
      BY <1>4, <1>5, <1>7, <3>1
    <3>3. CASE j = B + 1
      <4>1. z[j] = v /\ t = Len(w) + 1
        BY <1>3, <1>4, <1>7, <3>1, <3>3
      <4> QED
        BY <1>6, <3>2, <4>1
    <3>4. CASE j # B + 1
      <4>1. j \in 1..Len(a) /\ t \in 1..Len(w)
        BY <1>3, <1>7, <3>1, <3>4
      <4>2. z[j] = a[j] /\ w[t] = a[j] /\ y[t] = w[t]
        BY <1>3, <1>4, <1>6, <1>7, <3>1, <4>1
      <4> QED
        BY <3>2, <4>2
    <3> QED
      BY <3>3, <3>4
  <2> QED
    BY <2>1, <2>2
<1>10. x = y
  BY <1>5, <1>6, <1>8, <1>9, SameSeq
<1> QED
  BY <1>1, <1>2, <1>4, <1>10

\* A backend adds what is due of the lines.
LEMMA TextAdds ==
    ASSUME Kinded, NEW d, IsDue(d), reader # "bus", NEW lines, NEW m \in Nat, Lines(lines, m)
    PROVE  d[m] \o TextOf(lines) = d[m + Len(lines)]
<1>1. PICK k \in Nat, N \in Nat : k = Len(lines) /\ N = Len(frames) /\ m + k <= N
  BY DEF Lines, Kinded
<1>2. PICK r \in Seq(Note) : r = Read(lines) /\ Len(r) = k /\ \A j \in 1..k : r[j] = Meaning(lines[j])
  BY <1>1, ReadTyped DEF Lines
<1>3. PICK keep : keep = {j \in 1..k : Meaning(lines[j]).kind = "text"}
  OBVIOUS
<1>4. keep \in SUBSET (1..Len(r))
  BY <1>2, <1>3
<1>5. PICK c : /\ c[0] = <<>>
               /\ \A n \in 1..k : c[n] = IF n \in keep THEN Append(c[n - 1], r[n]) ELSE c[n - 1]
               /\ Selected(r, keep) = c[k]
  <2>1. \E c : /\ c[0] = <<>>
               /\ \A n \in 1..Len(r) :
                     c[n] = IF n \in keep THEN Append(c[n - 1], r[n]) ELSE c[n - 1]
               /\ Selected(r, keep) = c[Len(r)]
    BY <1>4, SelectedIs, Zenon
  <2>2. Len(r) = k
    BY <1>2
  <2> QED
    BY <2>1, <2>2, Zenon
<1>6. TextOf(lines) = c[k]
  BY <1>1, <1>2, <1>3, <1>5, Zenon DEF TextOf
<1>7. ASSUME NEW j \in 1..k
      PROVE  /\ m + j \in 1..N /\ r[j] = Sent[m + j] /\ r[j] \in Note
             /\ j \in keep <=> m + j \in DueAt
  <2>1. m + j \in 1..Len(frames) /\ Meaning(lines[j]) = Sent[m + j]
        /\ Meaning(lines[j]).kind = frames[m + j]
    BY <1>1, LinesRead
  <2>2. DueAt = {i \in DOMAIN frames : frames[i] = "text"}
    BY DEF DueAt
  <2>3. DOMAIN frames = 1..Len(frames)
    BY DEF Kinded
  <2>4. r[j] \in Note
    BY <1>2
  <2> QED
    BY <1>1, <1>2, <1>3, <2>1, <2>2, <2>3, <2>4
<1>8. PICK D \in Seq(Note) : D = d[m]
  <2>1. m \in 0..Len(frames)
    BY <1>1
  <2> QED
    BY <2>1, DueGrows
<1> DEFINE G == {n \in 0..k : c[n] \in Seq(Note) /\ D \o c[n] = d[m + n]}
<1>9. 0 \in G
  <2>1. PICK e : e = <<>>
    OBVIOUS
  <2>2. e \in Seq(Note) /\ D \o e = D /\ c[0] = e
    BY <1>5, <2>1
  <2>3. m + 0 = m /\ 0 \in 0..k
    OBVIOUS
  <2>4. D \o c[0] = d[m + 0]
    BY <1>8, <2>2, <2>3, Zenon
  <2> QED
    BY <2>2, <2>3, <2>4, Zenon
<1>10. ASSUME NEW n \in 1..k, n - 1 \in G
       PROVE  n \in G
  <2>1. PICK a \in Seq(Note) : a = c[n - 1] /\ D \o a = d[m + (n - 1)]
    BY <1>10
  <2>2. PICK v \in Note : v = r[n]
    BY <1>7
  <2>3. PICK i \in 1..N : i = m + n /\ i - 1 = m + (n - 1)
    <3>1. m + n \in 1..N
      BY <1>7
    <3>2. (m + n) - 1 = m + (n - 1)
      OBVIOUS
    <3> QED
      BY <3>1, <3>2
  <2>4. d[i] = IF i \in DueAt THEN Append(d[i - 1], Sent[i]) ELSE d[i - 1]
    BY <1>1, <2>3 DEF IsDue
  <2>5. v = Sent[i] /\ (n \in keep <=> i \in DueAt)
    BY <1>7, <2>2, <2>3
  <2>6. d[i - 1] = D \o a
    BY <2>1, <2>3
  <2>7. CASE n \in keep
    <3>1. c[n] = Append(a, v)
      BY <1>5, <2>1, <2>2, <2>7
    <3>2. d[i] = Append(D \o a, v)
      BY <2>4, <2>5, <2>6, <2>7, Zenon
    <3>3. Append(a, v) \in Seq(Note) /\ D \o Append(a, v) = Append(D \o a, v)
      BY AppendAfter
    <3>4. c[n] \in Seq(Note) /\ D \o c[n] = d[m + n] /\ n \in 0..k
      <4>1. n \in 0..k
        OBVIOUS
      <4> QED
        BY <2>3, <3>1, <3>2, <3>3, <4>1, Zenon
    <3> QED
      BY <3>4, Zenon
  <2>8. CASE n \notin keep
    <3>1. c[n] = a
      BY <1>5, <2>1, <2>8
    <3>2. d[i] = D \o a
      BY <2>4, <2>5, <2>6, <2>8, Zenon
    <3>3. c[n] \in Seq(Note) /\ D \o c[n] = d[m + n] /\ n \in 0..k
      <4>1. n \in 0..k
        OBVIOUS
      <4> QED
        BY <2>1, <2>3, <3>1, <3>2, <4>1, Zenon
    <3> QED
      BY <3>3, Zenon
  <2> QED
    BY <2>7, <2>8
<1>11. k \in G
  <2> HIDE DEF G
  <2>1. \A n \in 0..k : n \in G
    BY <1>9, <1>10, UpTo
  <2> QED
    BY <2>1
<1> QED
  BY <1>1, <1>6, <1>8, <1>11

\* None of the first n frames is damaged; q has what they are.
Clean(n) == \A i \in 1..n : frames[i] # "bad"

AllSent(q, n) == q \in Seq(Note) /\ Len(q) = n /\ \A i \in 1..n : q[i] = Sent[i]

\* What is due of the bus is every frame, as long as none is damaged.
LEMMA BusDue ==
    ASSUME Kinded, NEW d, IsDue(d), reader = "bus",
           NEW n \in 0..Len(frames), Clean(n)
    PROVE  AllSent(d[n], n)
<1>0. \A i \in 1..n : frames[i] # "bad"
  BY DEF Clean
<1>1. PICK N \in Nat : N = Len(frames)
  BY DEF Kinded
<1>2. \A k \in 1..n : k \in DueAt /\ k \in 1..N
  <2>1. DOMAIN frames = 1..N
    BY <1>1 DEF Kinded
  <2>2. DueAt = {i \in DOMAIN frames : \A j \in 1..i : frames[j] # "bad"}
    BY DEF DueAt
  <2>3. \A k \in 1..n : k \in 1..N /\ \A j \in 1..k : j \in 1..n
    BY <1>1
  <2> QED
    BY <1>0, <2>1, <2>2, <2>3
<1>3. \A k \in 1..n : d[k] = Append(d[k - 1], Sent[k])
  BY <1>1, <1>2 DEF IsDue
<1>4. \A k \in 1..n : Sent[k] \in Note
  BY <1>1, <1>2, MeaningIs
<1> DEFINE G == {k \in 0..n : /\ d[k] \in Seq(Note) /\ Len(d[k]) = k
                              /\ \A i \in 1..k : d[k][i] = Sent[i]}
<1>5. 0 \in G
  <2>1. d[0] = <<>>
    BY DEF IsDue
  <2>2. d[0] \in Seq(Note) /\ Len(d[0]) = 0
    BY <2>1
  <2>3. 0 \in 0..n /\ \A i \in 1..0 : d[0][i] = Sent[i]
    BY <1>1
  <2> QED
    BY <2>2, <2>3, Zenon
<1>6. ASSUME NEW k \in 1..n, k - 1 \in G
      PROVE  k \in G
  <2>1. PICK a \in Seq(Note) : a = d[k - 1] /\ Len(a) = k - 1 /\ \A i \in 1..k - 1 : a[i] = Sent[i]
    BY <1>6
  <2>2. PICK v \in Note : v = Sent[k]
    BY <1>4
  <2>3. PICK b : b = Append(a, v)
    OBVIOUS
  <2>4. b \in Seq(Note) /\ Len(b) = k /\ b[k] = v /\ \A i \in 1..k - 1 : b[i] = a[i]
    BY <2>1, <2>3
  <2>5. \A i \in 1..k : i = k \/ i \in 1..k - 1
    OBVIOUS
  <2>6. d[k] = b
    BY <1>3, <2>1, <2>2, <2>3
  <2>7. \A i \in 1..k : b[i] = Sent[i]
    BY <2>1, <2>2, <2>4, <2>5
  <2> QED
    BY <2>4, <2>6, <2>7
<1>7. n \in G
  <2> HIDE DEF G
  <2>1. n \in Nat
    BY <1>1
  <2>2. \A k \in 0..n : k \in G
    BY <1>5, <1>6, <2>1, UpTo
  <2> QED
    BY <2>1, <2>2
<1> QED
  BY <1>7 DEF AllSent

\* The bus adds every line, as long as none is damaged.
LEMMA ReadAdds ==
    ASSUME Kinded, NEW d, IsDue(d), reader = "bus", NEW lines, NEW m \in Nat, Lines(lines, m),
           \A i \in 1..m + Len(lines) : frames[i] # "bad"
    PROVE  d[m] \o Read(lines) = d[m + Len(lines)]
<1>1. PICK k \in Nat, N \in Nat : k = Len(lines) /\ N = Len(frames) /\ m + k <= N
  BY DEF Lines, Kinded
<1>2. PICK r \in Seq(Note) : r = Read(lines) /\ Len(r) = k /\ \A j \in 1..k : r[j] = Meaning(lines[j])
  BY <1>1, ReadTyped DEF Lines
<1>3. \A j \in 1..k : r[j] = Sent[m + j]
  <2>1. \A j \in 1..Len(lines) : Meaning(lines[j]) = Sent[m + j]
    BY LinesRead
  <2> QED
    BY <1>1, <1>2, <2>1
<1>4. PICK a \in Seq(Note) : a = d[m] /\ Len(a) = m /\ \A i \in 1..m : a[i] = Sent[i]
  <2>1. Clean(m) /\ m \in 0..Len(frames)
    BY <1>1 DEF Clean
  <2>2. AllSent(d[m], m)
    BY <2>1, BusDue
  <2> QED
    BY <2>2 DEF AllSent
<1>5. PICK b \in Seq(Note) : b = d[m + k] /\ Len(b) = m + k /\ \A i \in 1..m + k : b[i] = Sent[i]
  <2>1. Clean(m + k) /\ m + k \in 0..Len(frames)
    BY <1>1 DEF Clean
  <2>2. AllSent(d[m + k], m + k)
    BY <2>1, BusDue
  <2> QED
    BY <2>2 DEF AllSent
<1>6. PICK c : c = a \o r
  OBVIOUS
<1>10. /\ c \in Seq(Note) /\ Len(c) = Len(a) + Len(r)
       /\ \A i \in 1..Len(a) : c[i] = a[i]
       /\ \A i \in 1..Len(r) : c[Len(a) + i] = r[i]
  BY <1>6
<1>11. Len(a) = m /\ Len(r) = k
  BY <1>2, <1>4
<1>7. c \in Seq(Note) /\ Len(c) = m + k
  BY <1>10, <1>11
<1>8. \A i \in 1..m + k : c[i] = b[i]
  <2> SUFFICES ASSUME NEW i \in 1..m + k
               PROVE  c[i] = b[i]
    OBVIOUS
  <2>1. CASE i <= m
    <3>1. i \in 1..m /\ c[i] = a[i]
      BY <1>10, <1>11, <2>1
    <3> QED
      BY <1>4, <1>5, <3>1
  <2>2. CASE i > m
    <3>1. PICK j \in 1..k : i = m + j
      <4>1. i - m \in 1..k /\ i = m + (i - m)
        BY <2>2
      <4> QED
        BY <4>1
    <3>2. c[m + j] = r[j]
      BY <1>10, <1>11
    <3> QED
      BY <1>3, <1>5, <3>1, <3>2
  <2> QED
    BY <2>1, <2>2
<1>9. c = b
  BY <1>5, <1>7, <1>8, SameSeq
<1> QED
  BY <1>1, <1>2, <1>4, <1>5, <1>6, <1>9

\* A stream and what a reader has of it: m frames given to the caller, the bytes b of the
\* next that came, and the bytes w that are still to come.
Owed(d, m, b, w, g) ==
    /\ m \in 0..Len(frames)
    /\ Holds(b \o w, m)
    /\ Len(b) < Width
    /\ Len(b) + Len(w) + Width * m = Width * Len(frames)
    /\ g = d[m]
    /\ reader = "bus" => \A i \in 1..m : frames[i] # "bad"

\* What is due, and how much of it the caller has been given.
WireState(d, b, w, g, s) ==
    /\ IsDue(d)
    /\ s = "open" => \E m : Owed(d, m, b, w, g)
    /\ s = "done" => g = d[Len(frames)]
    /\ s = "failed" => \E m \in 0..Len(frames) : g = d[m]

Keeping == {"openai", "opencode", "bus"}

\* The inductive invariant: a reader that keeps bytes has given its caller what is due of
\* some number of frames, and its buffer and the wire hold the bytes of all the others.
WireIInv ==
    /\ reader \in {"openai", "opencode", "ollama", "sse", "bus"}
    /\ reading \in {"open", "done", "failed"}
    /\ Kinded
    /\ buffer \in Seq(Pair) /\ wire \in Seq(Pair) /\ got \in Seq(Note)
    /\ reader \in Keeping => \E d : WireState(d, buffer, wire, got, reading)

\* What is cut from the buffer is frames, and what is left is the beginning of the next.
Advanced(c, t, m) ==
    /\ c \in Cut /\ Lines(c.lines, m)
    /\ Holds(c.left \o t, m + Len(c.lines))
    /\ Len(c.left) < Width
    /\ Len(c.left) + Len(t) + Width * (m + Len(c.lines)) = Width * Len(frames)

\* A piece goes from the wire to the buffer.
LEMMA PieceMoves ==
    ASSUME NEW b \in Seq(Pair), NEW w \in Seq(Pair), NEW n \in 1..Len(w)
    PROVE  \E q \in Seq(Pair), t \in Seq(Pair) :
              /\ q = b \o SubSeq(w, 1, n) /\ t = SubSeq(w, n + 1, Len(w))
              /\ Len(q) + Len(t) = Len(b) + Len(w) /\ q \o t = b \o w
<1>1. PICK p, t : p = SubSeq(w, 1, n) /\ t = SubSeq(w, n + 1, Len(w))
  OBVIOUS
<1>2. PICK B \in Nat, W \in Nat : B = Len(b) /\ W = Len(w) /\ n <= W
  OBVIOUS
<1>3. p \in Seq(Pair) /\ Len(p) = n /\ \A k \in 1..n : p[k] = w[k]
  BY <1>1, <1>2
<1>4. t \in Seq(Pair) /\ Len(t) = W - n /\ \A k \in 1..W - n : t[k] = w[k + n]
  BY <1>1, <1>2
<1>5. PICK q : q = b \o p
  OBVIOUS
<1>6. /\ q \in Seq(Pair) /\ Len(q) = B + n
      /\ \A k \in 1..B : q[k] = b[k]
      /\ \A k \in 1..n : q[B + k] = p[k]
  <2>1. /\ q \in Seq(Pair) /\ Len(q) = Len(b) + Len(p)
        /\ \A k \in 1..Len(b) : q[k] = b[k]
        /\ \A k \in 1..Len(p) : q[Len(b) + k] = p[k]
    <3>1. p \in Seq(Pair)
      BY <1>3
    <3> QED
      BY <1>5, <3>1
  <2> QED
    BY <1>2, <1>3, <2>1
<1>7. PICK x, y : x = q \o t /\ y = b \o w
  OBVIOUS
<1>8. /\ x \in Seq(Pair) /\ Len(x) = B + W
      /\ \A k \in 1..B + n : x[k] = q[k]
      /\ \A k \in 1..W - n : x[(B + n) + k] = t[k]
  <2>1. /\ x \in Seq(Pair) /\ Len(x) = Len(q) + Len(t)
        /\ \A k \in 1..Len(q) : x[k] = q[k]
        /\ \A k \in 1..Len(t) : x[Len(q) + k] = t[k]
    <3>1. q \in Seq(Pair) /\ t \in Seq(Pair)
      BY <1>4, <1>6
    <3> QED
      BY <1>7, <3>1
  <2>2. Len(q) = B + n /\ Len(t) = W - n
    BY <1>4, <1>6
  <2> QED
    BY <1>2, <2>1, <2>2
<1>9. /\ y \in Seq(Pair) /\ Len(y) = B + W
      /\ \A k \in 1..B : y[k] = b[k]
      /\ \A k \in 1..W : y[B + k] = w[k]
  <2>1. /\ y \in Seq(Pair) /\ Len(y) = Len(b) + Len(w)
        /\ \A k \in 1..Len(b) : y[k] = b[k]
        /\ \A k \in 1..Len(w) : y[Len(b) + k] = w[k]
    BY <1>7
  <2> QED
    BY <1>2, <2>1
<1>10. \A k \in 1..B + W : x[k] = y[k]
  <2> SUFFICES ASSUME NEW k \in 1..B + W
               PROVE  x[k] = y[k]
    OBVIOUS
  <2>1. CASE k <= B
    <3>1. k \in 1..B /\ k \in 1..B + n
      BY <2>1
    <3> QED
      BY <1>6, <1>8, <1>9, <3>1
  <2>2. CASE k > B /\ k <= B + n
    <3>1. PICK j \in 1..n : k = B + j
      <4>1. k - B \in 1..n /\ k = B + (k - B)
        BY <2>2
      <4> QED
        BY <4>1
    <3>2. j \in 1..W /\ k \in 1..B + n
      BY <1>2, <3>1
    <3>3. x[k] = q[k] /\ y[k] = w[j]
      BY <1>8, <1>9, <3>1, <3>2
    <3>4. q[k] = p[j] /\ p[j] = w[j]
      BY <1>3, <1>6, <3>1
    <3> QED
      BY <3>3, <3>4
  <2>3. CASE k > B + n
    <3>1. PICK j \in 1..W - n : k = (B + n) + j
      <4>1. k - (B + n) \in 1..W - n /\ k = (B + n) + (k - (B + n))
        BY <1>2, <2>3
      <4> QED
        BY <4>1
    <3>2. j + n \in 1..W /\ k = B + (j + n)
      BY <1>2, <3>1
    <3>3. y[k] = w[j + n]
      BY <1>9, <3>2
    <3> QED
      BY <1>4, <1>8, <3>1, <3>3
  <2> QED
    BY <2>1, <2>2, <2>3
<1>11. x = y
  BY <1>8, <1>9, <1>10, SameSeq
<1>12. Len(q) + Len(t) = Len(b) + Len(w)
  BY <1>2, <1>4, <1>6
<1> QED
  BY <1>1, <1>4, <1>5, <1>6, <1>7, <1>11, <1>12

\* The lines of a piece are the frames after those the caller has been given.
LEMMA PieceAdds ==
    ASSUME Kinded, NEW d, NEW m, NEW b \in Seq(Pair), NEW w \in Seq(Pair), NEW g,
           Owed(d, m, b, w, g), NEW n \in 1..Len(w)
    PROVE  /\ m \in Nat /\ SubSeq(w, n + 1, Len(w)) \in Seq(Pair)
           /\ Advanced(CutInFrames(b \o SubSeq(w, 1, n)), SubSeq(w, n + 1, Len(w)), m)
<1>1. PICK N \in Nat : N = Len(frames) /\ m \in 0..N
  <2>1. Len(frames) \in Nat /\ m \in 0..Len(frames)
    BY DEF Owed, Kinded
  <2> QED
    BY <2>1
<1>2. m \in Nat
  BY <1>1
<1>3. \E q \in Seq(Pair), t \in Seq(Pair) :
         /\ q = b \o SubSeq(w, 1, n) /\ t = SubSeq(w, n + 1, Len(w))
         /\ Len(q) + Len(t) = Len(b) + Len(w) /\ q \o t = b \o w
  BY PieceMoves
<1>4. PICK q \in Seq(Pair), t \in Seq(Pair) :
         /\ q = b \o SubSeq(w, 1, n) /\ t = SubSeq(w, n + 1, Len(w))
         /\ Len(q) + Len(t) = Len(b) + Len(w) /\ q \o t = b \o w
  BY <1>3, Zenon
<1>5. PICK size \in Nat : size = Len(q) + Len(t)
  OBVIOUS
<1>6. Holds(q \o t, m)
  BY <1>4, Zenon DEF Owed
<1>a. PICK c : c = CutInFrames(q)
  OBVIOUS
<1>b. /\ CutInFrames(q) \in Cut
      /\ \E k \in Nat : Parted(CutInFrames(q), t, m, k, size)
                        /\ Len(CutInFrames(q).left) < Width
  BY <1>2, <1>5, <1>6, LoopHolds
<1>7. PICK k \in Nat : c = CutInFrames(q) /\ c \in Cut
                       /\ Parted(c, t, m, k, size) /\ Len(c.left) < Width
  BY <1>a, <1>b, Zenon
<1>8. PICK L \in Nat, T \in Nat : L = Len(c.left) /\ T = Len(t)
  BY <1>7 DEF Cut
<1>9. PICK v \in {3, 4} : v = Width
  BY WidthIs
<1>10. L + T + v * k = size
  BY <1>7, <1>8, <1>9 DEF Parted
<1>11. size + v * m = v * N
  <2>1. Len(b) + Len(w) + Width * m = Width * Len(frames)
    BY DEF Owed
  <2> QED
    BY <1>1, <1>4, <1>5, <1>9, <2>1
<1>12. m + k <= N /\ L + T + v * (m + k) = v * N
  <2>1. CASE v = 3
    <3>1. L + T + 3 * k = size /\ size + 3 * m = 3 * N
      BY <1>10, <1>11, <2>1
    <3>2. m + k <= N /\ L + T + 3 * (m + k) = 3 * N
      <4>1. PICK M \in Nat : M = m
        BY <1>2
      <4>2. L + T + 3 * k = size /\ size + 3 * M = 3 * N
        BY <3>1, <4>1
      <4>3. M + k <= N /\ L + T + 3 * (M + k) = 3 * N
        BY <4>2
      <4> QED
        BY <4>1, <4>3
    <3> QED
      BY <2>1, <3>2
  <2>2. CASE v = 4
    <3>1. L + T + 4 * k = size /\ size + 4 * m = 4 * N
      BY <1>10, <1>11, <2>2
    <3>2. m + k <= N /\ L + T + 4 * (m + k) = 4 * N
      <4>1. PICK M \in Nat : M = m
        BY <1>2
      <4>2. L + T + 4 * k = size /\ size + 4 * M = 4 * N
        BY <3>1, <4>1
      <4>3. M + k <= N /\ L + T + 4 * (M + k) = 4 * N
        BY <4>2
      <4> QED
        BY <4>1, <4>3
    <3> QED
      BY <2>2, <3>2
  <2> QED
    BY <2>1, <2>2
<1>13. Len(c.lines) = k /\ \A j \in 1..k : c.lines[j] = Bytes(m + j)
  BY <1>7 DEF Parted
<1>14. Lines(c.lines, m)
  <2>1. c.lines \in Seq(Seq(Pair))
    BY <1>7 DEF Cut
  <2>2. m + Len(c.lines) <= Len(frames)
    BY <1>1, <1>12, <1>13
  <2> QED
    BY <1>13, <2>1, <2>2, Zenon DEF Lines
<1>15. Holds(c.left \o t, m + Len(c.lines))
  BY <1>7, <1>13, Zenon DEF Parted
<1>16. Len(c.left) + Len(t) + Width * (m + Len(c.lines)) = Width * Len(frames)
  BY <1>1, <1>8, <1>9, <1>12, <1>13
<1>17. Advanced(c, t, m)
  BY <1>7, <1>14, <1>15, <1>16, Zenon DEF Advanced
<1> QED
  BY <1>2, <1>4, <1>7, <1>17, Zenon

\* A backend gives what is due of the lines of a piece.
LEMMA BackendOwed ==
    ASSUME Kinded, NEW d, IsDue(d), reader # "bus", NEW m \in Nat, NEW c, NEW t \in Seq(Pair),
           Advanced(c, t, m)
    PROVE  Owed(d, m + Len(c.lines), c.left, t, d[m] \o TextOf(c.lines))
<1>1. Lines(c.lines, m)
  BY DEF Advanced
<1>2. d[m] \o TextOf(c.lines) = d[m + Len(c.lines)]
  BY <1>1, TextAdds
<1>3. m + Len(c.lines) \in 0..Len(frames)
  <2>1. PICK k \in Nat, N \in Nat : k = Len(c.lines) /\ N = Len(frames) /\ m + k <= N
    BY <1>1 DEF Lines, Kinded
  <2> QED
    BY <2>1
<1> QED
  BY <1>2, <1>3, Zenon DEF Owed, Advanced

\* So does the bus, when none of them is damaged.
LEMMA BusOwed ==
    ASSUME Kinded, NEW d, IsDue(d), reader = "bus", NEW m \in Nat, NEW c, NEW t \in Seq(Pair),
           Advanced(c, t, m), \A i \in 1..m : frames[i] # "bad",
           \A k \in DOMAIN c.lines : Meaning(c.lines[k]).kind # "bad"
    PROVE  Owed(d, m + Len(c.lines), c.left, t, d[m] \o Read(c.lines))
<1>1. Lines(c.lines, m)
  BY DEF Advanced
<1>2. PICK k \in Nat, N \in Nat : k = Len(c.lines) /\ N = Len(frames) /\ m + k <= N
  BY <1>1 DEF Lines, Kinded
<1>3. DOMAIN c.lines = 1..k
  BY <1>1, <1>2 DEF Lines
<1>4. \A i \in 1..m + k : frames[i] # "bad"
  <2> SUFFICES ASSUME NEW i \in 1..m + k, i > m
               PROVE  frames[i] # "bad"
    OBVIOUS
  <2>1. PICK j \in 1..k : i = m + j
    <3>1. i - m \in 1..k /\ i = m + (i - m)
      OBVIOUS
    <3> QED
      BY <3>1
  <2>2. Meaning(c.lines[j]).kind = frames[m + j]
    BY <1>1, <1>2, LinesRead
  <2> QED
    BY <1>3, <2>1, <2>2
<1>5. d[m] \o Read(c.lines) = d[m + Len(c.lines)]
  BY <1>1, <1>2, <1>4, ReadAdds
<1>6. m + Len(c.lines) \in 0..Len(frames)
  BY <1>2
<1>7. \A i \in 1..m + Len(c.lines) : frames[i] # "bad"
  BY <1>2, <1>4
<1> QED
  BY <1>5, <1>6, <1>7, Zenon DEF Owed, Advanced

\* The lines that are damaged, and those before the first of them.
Damaged(lines) == {k \in DOMAIN lines : Meaning(lines[k]).kind = "bad"}

UpToBad(lines) ==
    IF Damaged(lines) = {} THEN lines
    ELSE SubSeq(lines, 1, (CHOOSE k \in Damaged(lines) : \A j \in Damaged(lines) : k <= j) - 1)

\* And when one is, the bus gives those before it.
LEMMA BusStops ==
    ASSUME Kinded, NEW d, IsDue(d), reader = "bus", NEW m \in Nat, NEW lines, Lines(lines, m),
           \A i \in 1..m : frames[i] # "bad", Damaged(lines) # {}
    PROVE  /\ UpToBad(lines) \in Seq(Seq(Pair))
           /\ \E n \in 0..Len(frames) : d[m] \o Read(UpToBad(lines)) = d[n]
<1>a. PICK bad : bad = Damaged(lines)
  OBVIOUS
<1>b. PICK x : x = CHOOSE k \in bad : \A j \in bad : k <= j
  OBVIOUS
<1>c. DOMAIN lines = 1..Len(lines) /\ Len(lines) \in Nat
  BY DEF Lines
<1>d. bad \subseteq Nat /\ bad # {}
  BY <1>a, <1>c DEF Damaged
<1>e. x \in bad /\ \A j \in bad : x <= j
  <2>1. \E k \in bad : \A j \in bad : k <= j
    BY <1>d, Least
  <2> QED
    BY <1>b, <2>1
<1>f. x \in 1..Len(lines) /\ \A k \in 1..Len(lines) : Meaning(lines[k]).kind = "bad" => x <= k
  BY <1>a, <1>c, <1>e DEF Damaged
<1>g. UpToBad(lines) = SubSeq(lines, 1, x - 1)
  BY <1>a, <1>b, <1>d, Zenon DEF UpToBad
<1>1. PICK k \in Nat, N \in Nat : k = Len(lines) /\ N = Len(frames) /\ m + k <= N
  BY DEF Lines, Kinded
<1>2. PICK y \in 0..k : y = x - 1
  BY <1>1, <1>f
<1>3. PICK good : good = SubSeq(lines, 1, y)
  OBVIOUS
<1>4. good \in Seq(Seq(Pair)) /\ Len(good) = y /\ \A j \in 1..y : good[j] = lines[j]
  <2>1. lines \in Seq(Seq(Pair))
    BY DEF Lines
  <2> QED
    BY <1>1, <1>3, <2>1
<1>5. Lines(good, m)
  <2>1. m + y <= N
    BY <1>1
  <2>2. \A j \in 1..y : j \in 1..k
    BY <1>1
  <2>3. \A j \in 1..y : good[j] = Bytes(m + j)
    BY <1>1, <1>4, <2>2 DEF Lines
  <2> QED
    BY <1>1, <1>4, <2>1, <2>3 DEF Lines
<1>6. \A i \in 1..m + y : frames[i] # "bad"
  <2> SUFFICES ASSUME NEW i \in 1..m + y, i > m
               PROVE  frames[i] # "bad"
    OBVIOUS
  <2>1. PICK j \in 1..y : i = m + j
    <3>1. i - m \in 1..y /\ i = m + (i - m)
      OBVIOUS
    <3> QED
      BY <3>1
  <2>2. j \in 1..k /\ ~(x <= j)
    BY <1>1, <1>2, <1>f
  <2>3. Meaning(lines[j]).kind = frames[m + j]
    BY <1>1, <2>2, LinesRead
  <2>4. Meaning(lines[j]).kind # "bad"
    BY <1>1, <1>f, <2>2
  <2> QED
    BY <2>1, <2>3, <2>4
<1>7. d[m] \o Read(good) = d[m + y]
  BY <1>4, <1>5, <1>6, ReadAdds
<1>8. m + y \in 0..Len(frames)
  BY <1>1
<1> QED
  BY <1>2, <1>3, <1>g, <1>4, <1>7, <1>8, Zenon

\* What a step leaves alone.
LEMMA Unmoved ==
    ASSUME reader' = reader, frames' = frames
    PROVE  /\ Kinded' <=> Kinded
           /\ \A d, b, w, g, s : WireState(d, b, w, g, s)' <=> WireState(d, b, w, g, s)
<1>1. Separator' = Separator
  BY Zenon DEF Separator
<1>2. Width' = Width
  BY <1>1, Zenon DEF Width
<1>3. \A i : Bytes(i)' = Bytes(i)
  BY <1>1, Zenon DEF Bytes
<1>4. \A i, r : At(i, r)' = At(i, r)
  BY <1>2, Zenon DEF At
<1>5. \A q, m : Holds(q, m)' <=> Holds(q, m)
  BY <1>2, <1>3, <1>4, Zenon DEF Holds
<1>6. ASSUME NEW d, NEW m, NEW b, NEW w, NEW g
      PROVE  Owed(d, m, b, w, g)' <=> Owed(d, m, b, w, g)
  <2>1. Holds(b \o w, m)' <=> Holds(b \o w, m)
    BY <1>5, Zenon
  <2> QED
    BY <1>2, <2>1 DEF Owed
<1>7. Sent' = Sent
  BY Zenon DEF Sent
<1>8. DueAt' = DueAt /\ Promised' = Promised
  BY <1>7, Zenon DEF DueAt, Promised, BusReadable, Readable
<1>9. \A d : IsDue(d)' <=> IsDue(d)
  BY <1>7, <1>8, Zenon DEF IsDue
<1>10. ASSUME NEW d, NEW b, NEW w, NEW g, NEW s
       PROVE  WireState(d, b, w, g, s)' <=> WireState(d, b, w, g, s)
  <2>1. IsDue(d)' <=> IsDue(d)
    BY <1>9, Zenon
  <2>2. (\E m : Owed(d, m, b, w, g)') <=> (\E m : Owed(d, m, b, w, g))
    BY <1>6, Zenon
  <2> QED
    BY <2>1, <2>2 DEF WireState
<1>11. Kinded' <=> Kinded
  BY DEF Kinded
<1> QED
  BY <1>10, <1>11

\* Bytes decoded too early are bytes.
LEMMA LossyTyped ==
    ASSUME NEW q \in Seq(Pair)
    PROVE  Lossy(q) \in Seq(Pair)
<1>1. PICK n \in Nat : n = Len(q) /\ DOMAIN q = 1..n
  OBVIOUS
<1>2. Garbled \in Pair
  BY DEF Garbled, Pair
<1>3. PICK f : f = Lossy(q)
  OBVIOUS
<1>4. DOMAIN f = 1..n /\ \A k \in 1..n : f[k] = q[k] \/ f[k] = Garbled
  BY <1>1, <1>3 DEF Lossy
<1>5. f = [k \in 1..n |-> f[k]]
  BY <1>1, <1>3 DEF Lossy
<1>6. \A k \in 1..n : f[k] \in Pair
  BY <1>1, <1>2, <1>4
<1>7. f \in Seq(Pair)
  BY <1>5, <1>6
<1> QED
  BY <1>3, <1>7

\* The loop returns lines and bytes.
LEMMA CutIs ==
    ASSUME NEW q \in Seq(Pair)
    PROVE  /\ CutInFrames(q) \in Cut
           /\ CutInFrames(q).left \in Seq(Pair) /\ CutInFrames(q).lines \in Seq(Seq(Pair))
<1>1. PICK c : Loops(q, c)
  BY LoopIs
<1>2. Len(q) \in 0..Len(q)
  OBVIOUS
<1>3. CutInFrames(q) \in Cut
  BY <1>1, <1>2, Zenon DEF Loops
<1> QED
  BY <1>3 DEF Cut

\* A piece given to a reader that keeps bytes.
LEMMA DeliverKeeps ==
    ASSUME WireIInv, reader \in Keeping, NEW n, Deliver(n)
    PROVE  /\ buffer' \in Seq(Pair) /\ wire' \in Seq(Pair) /\ got' \in Seq(Note)
           /\ reading' \in {"open", "failed"}
           /\ \E d : WireState(d, buffer', wire', got', reading')
<1> USE DEF WireIInv
<1>1. Kinded /\ reading = "open" /\ n \in 1..Len(wire) /\ wire' = SubSeq(wire, n + 1, Len(wire))
  BY DEF Deliver
<1>2. PICK d : WireState(d, buffer, wire, got, reading)
  OBVIOUS
<1>3. IsDue(d)
  BY <1>2 DEF WireState
<1>4. PICK m : Owed(d, m, buffer, wire, got)
  BY <1>1, <1>2 DEF WireState
<1>5. /\ m \in Nat /\ SubSeq(wire, n + 1, Len(wire)) \in Seq(Pair)
      /\ Advanced(CutInFrames(buffer \o SubSeq(wire, 1, n)), SubSeq(wire, n + 1, Len(wire)), m)
  BY <1>1, <1>4, PieceAdds
<1>6. PICK p, c : p = SubSeq(wire, 1, n) /\ c = CutInFrames(buffer \o p)
  OBVIOUS
<1>7. PICK t \in Seq(Pair) : t = wire'
  BY <1>1, <1>5
<1>8. Advanced(c, t, m)
  BY <1>1, <1>5, <1>6, <1>7, Zenon
<1>9. c \in Cut /\ c.left \in Seq(Pair) /\ c.lines \in Seq(Seq(Pair)) /\ Lines(c.lines, m)
  BY <1>8 DEF Advanced, Cut
<1>10. got = d[m] /\ m \in 0..Len(frames) /\ (reader = "bus" => \A i \in 1..m : frames[i] # "bad")
  BY <1>4 DEF Owed
<1>11. /\ \A g \in Seq(Note) : \A r \in Seq(Note) : g \o r \in Seq(Note)
       /\ TextOf(c.lines) \in Seq(Note)
  BY <1>1, <1>9, ReadTyped
<1>12. PICK more \in Seq(Note) : more = got \o TextOf(c.lines)
  BY <1>11
<1> DEFINE Going == buffer' = c.left /\ got' = more /\ reading' = reading
<1>13. ASSUME reader # "bus", Going
       PROVE  /\ buffer' \in Seq(Pair) /\ wire' \in Seq(Pair) /\ got' \in Seq(Note)
              /\ reading' \in {"open", "failed"}
              /\ \E e : WireState(e, buffer', wire', got', reading')
  <2>1. Owed(d, m + Len(c.lines), c.left, t, d[m] \o TextOf(c.lines))
    BY <1>1, <1>3, <1>5, <1>8, <1>13, BackendOwed
  <2>2. Owed(d, m + Len(c.lines), buffer', wire', got')
    BY <1>7, <1>10, <1>12, <1>13, <2>1, Zenon
  <2>3. reading' = "open"
    BY <1>1, <1>13
  <2>4. WireState(d, buffer', wire', got', reading')
    BY <1>3, <2>2, <2>3, Zenon DEF WireState
  <2> QED
    BY <1>7, <1>9, <1>12, <1>13, <2>3, <2>4, Zenon
<1>14. CASE reader = "openai"
  <2>1. OpenAiReads(p)
    BY <1>6, <1>14 DEF Deliver
  <2>2. Going
    BY <1>6, <1>12, <2>1, Zenon DEF OpenAiReads, Kept
  <2> QED
    BY <1>13, <1>14, <2>2
<1>15. CASE reader = "opencode"
  <2>1. OpenCodeReads(p)
    BY <1>6, <1>15 DEF Deliver
  <2>2. CASE "error" \in Kinds(c.lines)
    <3>1. reading' = "failed" /\ buffer' = <<>> /\ got' = got
      BY <1>6, <2>1, <2>2, Zenon DEF OpenCodeReads
    <3>2. got' = d[m]
      BY <1>10, <3>1
    <3>3. WireState(d, buffer', wire', got', reading')
      BY <1>3, <1>10, <3>1, <3>2 DEF WireState
    <3>4. buffer' \in Seq(Pair)
      BY <3>1
    <3> QED
      BY <1>7, <3>1, <3>3, <3>4
  <2>3. CASE ~ ("error" \in Kinds(c.lines))
    <3>1. Going
      BY <1>6, <1>12, <2>1, <2>3, Zenon DEF OpenCodeReads, Kept
    <3> QED
      BY <1>13, <1>15, <3>1
  <2> QED
    BY <2>2, <2>3
<1>16. CASE reader = "bus"
  <2>1. BusReads(p)
    BY <1>6, <1>16 DEF Deliver
  <2>2. /\ got' = got \o Read(UpToBad(CutInFrames(buffer \o p).lines))
        /\ IF Damaged(CutInFrames(buffer \o p).lines) = {}
           THEN buffer' = CutInFrames(buffer \o p).left /\ UNCHANGED reading
           ELSE buffer' = <<>> /\ reading' = "failed"
    BY <2>1, Zenon DEF BusReads, Kept, Damaged, UpToBad
  <2>3. PICK lines : lines = c.lines
    OBVIOUS
  <2>4. /\ got' = got \o Read(UpToBad(lines))
        /\ IF Damaged(lines) = {} THEN buffer' = c.left /\ UNCHANGED reading
           ELSE buffer' = <<>> /\ reading' = "failed"
    BY <1>6, <2>2, <2>3, Zenon
  <2>5. DOMAIN c.lines = 1..Len(c.lines) /\ Len(c.lines) \in Nat
    BY <1>9
  <2>6. CASE Damaged(lines) = {}
    <3>1. buffer' = c.left /\ reading' = "open" /\ got' = got \o Read(c.lines)
      <4>1. UpToBad(lines) = c.lines
        BY <2>3, <2>6, Zenon DEF UpToBad
      <4> QED
        BY <1>1, <2>4, <2>6, <4>1
    <3>2. \A k \in DOMAIN c.lines : Meaning(c.lines[k]).kind # "bad"
      BY <2>3, <2>6 DEF Damaged
    <3>3. Owed(d, m + Len(c.lines), c.left, t, d[m] \o Read(c.lines))
      BY <1>1, <1>3, <1>5, <1>8, <1>10, <1>16, <3>2, BusOwed
    <3>4. Owed(d, m + Len(c.lines), buffer', wire', got')
      BY <1>7, <1>10, <3>1, <3>3, Zenon
    <3>5. WireState(d, buffer', wire', got', reading')
      BY <1>3, <3>1, <3>4 DEF WireState
    <3>6. Read(c.lines) \in Seq(Note)
      BY <1>1, <1>9, ReadTyped
    <3>7. got' \in Seq(Note)
      BY <1>11, <3>1, <3>6
    <3> QED
      BY <1>7, <1>9, <3>1, <3>5, <3>7
  <2>7. CASE Damaged(lines) # {}
    <3>1. PICK good : good = UpToBad(lines)
      OBVIOUS
    <3>2. Lines(lines, m) /\ \A i \in 1..m : frames[i] # "bad"
      BY <1>9, <1>10, <1>16, <2>3
    <3>3. /\ good \in Seq(Seq(Pair))
          /\ \E i \in 0..Len(frames) : d[m] \o Read(good) = d[i]
      BY <1>1, <1>3, <1>5, <1>16, <2>7, <3>1, <3>2, BusStops
    <3>4. buffer' = <<>> /\ reading' = "failed" /\ got' = got \o Read(good)
      BY <2>4, <2>7, <3>1
    <3>5. \E i \in 0..Len(frames) : got' = d[i]
      BY <1>10, <3>3, <3>4, Zenon
    <3>6. WireState(d, buffer', wire', got', reading')
      BY <1>3, <3>4, <3>5 DEF WireState
    <3>7. Read(good) \in Seq(Note)
      BY <1>1, <3>3, ReadTyped
    <3>8. got' \in Seq(Note) /\ buffer' \in Seq(Pair)
      BY <1>11, <3>4, <3>7
    <3> QED
      BY <1>7, <3>4, <3>6, <3>8
  <2> QED
    BY <2>6, <2>7
<1> QED
  BY <1>14, <1>15, <1>16 DEF Keeping

\* A piece given to one of the others.
LEMMA DeliverTyped ==
    ASSUME WireIInv, reader \in {"ollama", "sse"}, NEW n, Deliver(n)
    PROVE  /\ buffer' \in Seq(Pair) /\ wire' \in Seq(Pair) /\ got' \in Seq(Note)
           /\ reading' = "open"
<1> USE DEF WireIInv
<1>1. Kinded /\ reading = "open" /\ n \in 1..Len(wire) /\ wire' = SubSeq(wire, n + 1, Len(wire))
  BY DEF Deliver
<1>2. PICK p : p = SubSeq(wire, 1, n)
  OBVIOUS
<1>3. p \in Seq(Pair) /\ wire' \in Seq(Pair)
  <2>1. n <= Len(wire) /\ n \in Nat /\ Len(wire) \in Nat
    BY <1>1
  <2> QED
    BY <1>1, <1>2, <2>1
<1>4. PICK q \in Seq(Pair) : q = Lossy(p)
  BY <1>3, LossyTyped
<1>5. /\ \A g \in Seq(Note) : \A r \in Seq(Note) : g \o r \in Seq(Note)
      /\ \A x \in Seq(Pair) : \A y \in Seq(Pair) : x \o y \in Seq(Pair)
      /\ \A x \in Seq(Seq(Pair)) : \A y \in Seq(Seq(Pair)) : x \o y \in Seq(Seq(Pair))
  OBVIOUS
<1>6. \A lines \in Seq(Seq(Pair)) : got \o TextOf(lines) \in Seq(Note)
  BY <1>1, <1>5, ReadTyped
<1>7. CASE reader = "ollama"
  <2>1. OllamaReads(p)
    BY <1>2, <1>7 DEF Deliver
  <2>2. PICK c : c = CutInFrames(q)
    OBVIOUS
  <2>3. c.left \in Seq(Pair) /\ c.lines \in Seq(Seq(Pair))
    BY <2>2, CutIs
  <2>4. PICK last : last = IF c.left = <<>> THEN <<>> ELSE <<c.left \o Separator>>
    BY Zenon
  <2>5. last \in Seq(Seq(Pair))
    <3>1. Separator \in Seq(Pair)
      BY WidthIs
    <3>2. PICK x \in Seq(Pair) : x = c.left \o Separator
      BY <1>5, <2>3, <3>1
    <3> QED
      BY <2>4, <3>2
  <2>6. got' = got \o TextOf(c.lines \o last) /\ buffer' = buffer /\ reading' = reading
    BY <1>4, <2>1, <2>2, <2>4, Zenon DEF OllamaReads
  <2>7. c.lines \o last \in Seq(Seq(Pair))
    BY <1>5, <2>3, <2>5
  <2> QED
    BY <1>1, <1>3, <1>6, <2>6, <2>7
<1>8. CASE reader = "sse"
  <2>1. SseReads(p)
    BY <1>2, <1>8 DEF Deliver
  <2>2. PICK c : c = CutInFrames(buffer \o q)
    OBVIOUS
  <2>3. c.left \in Seq(Pair) /\ c.lines \in Seq(Seq(Pair))
    <3>1. buffer \o q \in Seq(Pair)
      BY <1>5
    <3> QED
      BY <2>2, <3>1, CutIs
  <2>4. got' = got \o TextOf(c.lines) /\ buffer' = c.left /\ reading' = reading
    BY <1>4, <2>1, <2>2, Zenon DEF SseReads, Kept
  <2> QED
    BY <1>1, <1>3, <1>6, <2>3, <2>4
<1> QED
  BY <1>7, <1>8

\* Every step keeps the invariant: a piece moves bytes from the wire through the buffer to
\* the caller, and the end of the stream leaves only half a frame behind.
THEOREM WireInductive ==
    /\ WireInit({"openai", "opencode", "ollama", "sse", "bus"}) => WireIInv
    /\ WireIInv /\ [WireNext]_wireVars => WireIInv'
<1>1. ASSUME WireInit({"openai", "opencode", "ollama", "sse", "bus"})
      PROVE  WireIInv
  <2>1. PICK z \in 0..MaxFrames : frames \in [1..z -> {"text", "error", "bad"}]
    BY <1>1 DEF WireInit
  <2>2. z \in Nat /\ z <= MaxFrames
    BY WireAssumption, <2>1
  <2>3. frames \in Seq({"text", "error", "bad"}) /\ Len(frames) = z
    BY <2>1, <2>2
  <2>4. Kinded
    BY <2>2, <2>3 DEF Kinded
  <2>5. /\ wire = Encoded(Len(frames)) /\ buffer = <<>> /\ got = <<>> /\ reading = "open"
        /\ reader \in {"openai", "opencode", "ollama", "sse", "bus"}
    BY <1>1 DEF WireInit
  <2>6. PICK q \in Seq(Pair) : q = wire /\ Len(q) = Width * z /\ Holds(q, 0)
    BY <2>2, <2>3, <2>5, EncodedHolds
  <2>7. buffer \in Seq(Pair) /\ got \in Seq(Note) /\ Len(buffer) = 0 /\ buffer \o q = q
    BY <2>5
  <2>8. PICK d : IsDue(d)
    BY <2>4, DueExists
  <2>9. Owed(d, 0, buffer, wire, got)
    <3>1. Holds(buffer \o wire, 0)
      BY <2>6, <2>7, Zenon
    <3>2. 0 \in 0..Len(frames) /\ Len(buffer) < Width
      BY <2>2, <2>3, <2>7, WidthIs
    <3>3. Len(buffer) + Len(wire) + Width * 0 = Width * Len(frames)
      <4>1. CASE Width = 3
        BY <2>2, <2>3, <2>6, <2>7, <4>1
      <4>2. CASE Width = 4
        BY <2>2, <2>3, <2>6, <2>7, <4>2
      <4> QED
        BY <4>1, <4>2, WidthIs
    <3>4. got = d[0]
      BY <2>5, <2>8 DEF IsDue
    <3>5. \A i \in 1..0 : frames[i] # "bad"
      OBVIOUS
    <3> QED
      BY <3>1, <3>2, <3>3, <3>4, <3>5, Zenon DEF Owed
  <2>10. WireState(d, buffer, wire, got, reading)
    BY <2>5, <2>8, <2>9 DEF WireState
  <2> QED
    BY <2>4, <2>5, <2>6, <2>7, <2>10, Zenon DEF WireIInv
<1>2. ASSUME WireIInv, [WireNext]_wireVars
      PROVE  WireIInv'
  <2> USE <1>2 DEF WireIInv
  <2>1. reader' = reader /\ frames' = frames
    BY DEF WireNext, wireVars, Deliver, StreamCloses, StreamBreaks
  <2>2. /\ Kinded' <=> Kinded
        /\ \A d, b, w, g, s : WireState(d, b, w, g, s)' <=> WireState(d, b, w, g, s)
    BY <2>1, Unmoved
  <2>3. CASE UNCHANGED wireVars
    <3>1. buffer' = buffer /\ wire' = wire /\ got' = got /\ reading' = reading
      BY <2>3 DEF wireVars
    <3> QED
      BY <2>1, <2>2, <3>1
  <2> DEFINE Typed == /\ buffer' \in Seq(Pair) /\ wire' \in Seq(Pair) /\ got' \in Seq(Note)
                      /\ reading' \in {"open", "done", "failed"}
             Followed == reader \in Keeping => \E d : WireState(d, buffer', wire', got', reading')
  <2>4. ASSUME Typed, Followed
        PROVE  WireIInv'
    <3>1. ASSUME reader \in Keeping
          PROVE  \E d : WireState(d, buffer, wire, got, reading)'
      <4>1. PICK d : WireState(d, buffer', wire', got', reading')
        BY <2>4, <3>1
      <4>2. PICK b, w, g, s : b = buffer' /\ w = wire' /\ g = got' /\ s = reading'
        OBVIOUS
      <4>3. WireState(d, b, w, g, s)
        BY <4>1, <4>2, Zenon
      <4>4. WireState(d, b, w, g, s)'
        BY <2>2, <4>3
      <4>5. WireState(d, buffer, wire, got, reading)'
        BY <4>2, <4>4, Zenon
      <4> QED
        BY <4>5
    <3>2. reader' \in Keeping => \E d : WireState(d, buffer, wire, got, reading)'
      BY <2>1, <3>1
    <3> QED
      BY <2>1, <2>2, <2>4, <3>2
  <2>5. ASSUME NEW n \in 1..Len(wire), Deliver(n)
        PROVE  Typed /\ Followed
    <3>1. CASE reader \in Keeping
      BY <2>5, <3>1, DeliverKeeps
    <3>2. CASE reader \in {"ollama", "sse"}
      <4>1. reader \notin Keeping
        BY <3>2 DEF Keeping
      <4> QED
        BY <2>5, <3>2, <4>1, DeliverTyped
    <3> QED
      BY <3>1, <3>2 DEF Keeping
  <2>6. ASSUME StreamCloses
        PROVE  Typed /\ Followed
    <3>1. /\ reading = "open" /\ wire = <<>> /\ reading' = "done"
          /\ wire' = wire /\ buffer' = buffer /\ got' = got
      BY <2>6 DEF StreamCloses
    <3>2. ASSUME reader \in Keeping
          PROVE  \E d : WireState(d, buffer', wire', got', reading')
      <4>1. PICK d : WireState(d, buffer, wire, got, reading)
        BY <3>2
      <4>2. IsDue(d)
        BY <4>1 DEF WireState
      <4>3. PICK m : Owed(d, m, buffer, wire, got)
        BY <3>1, <4>1 DEF WireState
      <4>4. PICK N \in Nat, B \in Nat : N = Len(frames) /\ B = Len(buffer)
        BY DEF Kinded
      <4>5. PICK M \in Nat : M = m /\ M <= N
        BY <4>3, <4>4 DEF Owed
      <4>6. B < Width /\ B + 0 + Width * M = Width * N
        BY <3>1, <4>3, <4>4, <4>5 DEF Owed
      <4>7. M = N
        <5>1. CASE Width = 3
          <6>1. B < 3 /\ B + 3 * M = 3 * N
            BY <4>6, <5>1
          <6> QED
            BY <6>1
        <5>2. CASE Width = 4
          <6>1. B < 4 /\ B + 4 * M = 4 * N
            BY <4>6, <5>2
          <6> QED
            BY <6>1
        <5> QED
          BY <5>1, <5>2, WidthIs
      <4>8. got = d[Len(frames)]
        BY <4>3, <4>4, <4>5, <4>7 DEF Owed
      <4>9. WireState(d, buffer', wire', got', reading')
        BY <3>1, <4>2, <4>8 DEF WireState
      <4> QED
        BY <4>9
    <3> QED
      BY <3>1, <3>2
  <2>7. ASSUME StreamBreaks
        PROVE  Typed /\ Followed
    <3>1. /\ reading = "open" /\ reading' = "failed"
          /\ wire' = wire /\ buffer' = buffer /\ got' = got
      BY <2>7 DEF StreamBreaks
    <3>2. ASSUME reader \in Keeping
          PROVE  \E d : WireState(d, buffer', wire', got', reading')
      <4>1. PICK d : WireState(d, buffer, wire, got, reading)
        BY <3>2
      <4>2. IsDue(d)
        BY <4>1 DEF WireState
      <4>3. PICK m : Owed(d, m, buffer, wire, got)
        BY <3>1, <4>1 DEF WireState
      <4>4. m \in 0..Len(frames) /\ got = d[m]
        BY <4>3 DEF Owed
      <4>5. WireState(d, buffer', wire', got', reading')
        BY <3>1, <4>2, <4>4 DEF WireState
      <4> QED
        BY <4>5
    <3> QED
      BY <3>1, <3>2
  <2> HIDE DEF Typed, Followed
  <2>8. CASE WireNext
    BY <2>4, <2>5, <2>6, <2>7, <2>8 DEF WireNext
  <2> QED
    BY <2>3, <2>8
<1> QED
  BY <1>1, <1>2

\* WireIInv gives CutsDoNotShow and the type invariant.
LEMMA WireIInvTells ==
    ASSUME WireIInv
    PROVE  CutsDoNotShow /\ WireTypeOK
<1> USE DEF WireIInv
<1>1. WireTypeOK
  <2>1. \A k \in DOMAIN got : got[k] \in Note
    OBVIOUS
  <2>2. \A v \in Note : v.frame \in 0..MaxFrames
    BY DEF Note
  <2> QED
    BY <2>1, <2>2 DEF WireTypeOK
<1>2. ASSUME reader \in {"openai", "opencode", "bus"}
      PROVE  IsPrefix(got, Promised) /\ (reading = "done" => got = Promised)
  <2>1. PICK d : WireState(d, buffer, wire, got, reading)
    BY <1>2 DEF Keeping
  <2>2. IsDue(d) /\ Promised = d[Len(frames)]
    BY <2>1 DEF WireState, IsDue
  <2>3. PICK N \in Nat : N = Len(frames)
    BY DEF Kinded
  <2>4. \E m \in 0..N : got = d[m]
    <3>1. CASE reading = "open"
      BY <2>1, <2>3, <3>1 DEF WireState, Owed
    <3>2. CASE reading = "done"
      <4>1. got = d[N] /\ N \in 0..N
        BY <2>1, <2>3, <3>2 DEF WireState
      <4> QED
        BY <4>1
    <3>3. CASE reading = "failed"
      BY <2>1, <2>3, <3>3 DEF WireState
    <3> QED
      BY <3>1, <3>2, <3>3
  <2>5. \A n \in 0..N : \A m \in 0..n : IsPrefix(d[m], d[n])
    BY <2>2, <2>3, DueGrows
  <2>6. IsPrefix(got, d[N])
    <3>1. N \in 0..N
      OBVIOUS
    <3> QED
      BY <2>4, <2>5, <3>1, Zenon
  <2>7. reading = "done" => got = d[N]
    BY <2>1, <2>3 DEF WireState
  <2> QED
    BY <2>2, <2>3, <2>6, <2>7, Zenon
<1>3. CutsDoNotShow
  BY <1>2, Zenon DEF CutsDoNotShow, Promised
<1> QED
  BY <1>1, <1>3

\* In every behaviour: what the readers that keep bytes give does not depend on the cuts.
THEOREM CutsNeverShow == WireSpec => []CutsDoNotShow
<1>1. WireIInv => CutsDoNotShow
  BY WireIInvTells
<1> QED
  BY <1>1, WireInductive, PTL DEF WireSpec

\* And the readers are well typed.
THEOREM WireTyped == WireSpec => []WireTypeOK
<1>1. WireIInv => WireTypeOK
  BY WireIInvTells
<1> QED
  BY <1>1, WireInductive, PTL DEF WireSpec

=============================================================================
