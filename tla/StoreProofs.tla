----------------------------- MODULE StoreProofs -----------------------------
(***************************************************************************)
(* Proofs about StorePersistence, for every number of sessions, chunks,    *)
(* stops and creations.                                                    *)
(***************************************************************************)
EXTENDS StorePersistence, SelectionProofs, FiniteSetTheorems, WellFoundedInduction, NaturalsInduction, TLAPS

-----------------------------------------------------------------------------
(* The elements of sequences. *)

\* The set of a sequence, in terms of its places.
LEMMA Elements ==
    ASSUME NEW S, NEW q \in Seq(S)
    PROVE  /\ DOMAIN q = 1..Len(q) /\ Len(q) \in Nat
           /\ ToSet(q) \subseteq S
           /\ \A e : e \in ToSet(q) <=> \E i \in 1..Len(q) : q[i] = e
BY DEF ToSet

\* What appending adds.
LEMMA Appending ==
    ASSUME NEW S, NEW q \in Seq(S), NEW e \in S
    PROVE  /\ Append(q, e) \in Seq(S)
           /\ ToSet(Append(q, e)) = ToSet(q) \cup {e}
<1> DEFINE r == Append(q, e)
<1>1. r \in Seq(S) /\ Len(r) = Len(q) + 1 /\ Len(q) \in Nat /\ r[Len(q) + 1] = e
  OBVIOUS
<1>2. \A i \in 1..Len(q) : r[i] = q[i]
  OBVIOUS
<1> HIDE DEF r
<1>3. ASSUME NEW x
      PROVE  (\E i \in 1..Len(r) : r[i] = x) <=> (\E i \in 1..Len(q) : q[i] = x) \/ x = e
  BY <1>1, <1>2
<1>a. \A x : x \in ToSet(q) <=> \E i \in 1..Len(q) : q[i] = x
  BY Elements
<1>b. \A x : x \in ToSet(r) <=> \E i \in 1..Len(r) : r[i] = x
  BY <1>1, Elements
<1>4. \A x : x \in ToSet(r) <=> x \in ToSet(q) \/ x = e
  BY <1>3, <1>a, <1>b
<1> QED
  BY <1>1, <1>4 DEF r

\* What taking the head leaves.
LEMMA Taking ==
    ASSUME NEW S, NEW q \in Seq(S), q # <<>>
    PROVE  /\ Tail(q) \in Seq(S) /\ Head(q) \in S
           /\ Len(Tail(q)) = Len(q) - 1 /\ Len(q) \in Nat \ {0} /\ Head(q) = q[1]
           /\ \A i \in 1..Len(q) - 1 : Tail(q)[i] = q[i + 1]
           /\ ToSet(q) = {Head(q)} \cup ToSet(Tail(q))
<1> DEFINE r == Tail(q)
<1>1. r \in Seq(S) /\ Len(r) = Len(q) - 1 /\ Len(q) \in Nat \ {0} /\ Head(q) = q[1] /\ q[1] \in S
  OBVIOUS
<1>2. \A i \in 1..Len(q) - 1 : r[i] = q[i + 1]
  OBVIOUS
<1> HIDE DEF r
<1>3. ASSUME NEW x
      PROVE  (\E i \in 1..Len(q) : q[i] = x) <=> (\E i \in 1..Len(r) : r[i] = x) \/ x = q[1]
  <2>1. ASSUME NEW i \in 1..Len(q), q[i] = x
        PROVE  (\E j \in 1..Len(r) : r[j] = x) \/ x = q[1]
    <3>1. i = 1 \/ (i - 1 \in 1..Len(r) /\ r[i - 1] = q[i])
      BY <1>1, <1>2
    <3> QED
      BY <3>1, <2>1
  <2>2. ASSUME NEW i \in 1..Len(r), r[i] = x
        PROVE  \E j \in 1..Len(q) : q[j] = x
    BY <1>1, <1>2, <2>2
  <2> QED
    BY <1>1, <2>1, <2>2
<1>a. \A x : x \in ToSet(q) <=> \E i \in 1..Len(q) : q[i] = x
  BY Elements
<1>b. \A x : x \in ToSet(r) <=> \E i \in 1..Len(r) : r[i] = x
  BY <1>1, Elements
<1>4. \A x : x \in ToSet(q) <=> x \in ToSet(r) \/ x = q[1]
  BY <1>3, <1>a, <1>b
<1> QED
  BY <1>1, <1>2, <1>4 DEF r

\* What a concatenation holds.
LEMMA Joining ==
    ASSUME NEW S, NEW p \in Seq(S), NEW q \in Seq(S)
    PROVE  /\ p \o q \in Seq(S) /\ Len(p \o q) = Len(p) + Len(q)
           /\ \A i \in 1..Len(p) : (p \o q)[i] = p[i]
           /\ \A i \in 1..Len(q) : (p \o q)[Len(p) + i] = q[i]
           /\ ToSet(p \o q) = ToSet(p) \cup ToSet(q)
<1> DEFINE r == p \o q
<1>1. r \in Seq(S) /\ Len(r) = Len(p) + Len(q) /\ Len(q) \in Nat /\ Len(p) \in Nat
  OBVIOUS
<1>2. \A i \in 1..Len(p) : r[i] = p[i]
  OBVIOUS
<1>3. \A i \in 1..Len(q) : r[Len(p) + i] = q[i]
  OBVIOUS
<1> HIDE DEF r
<1>4. ASSUME NEW x
      PROVE  (\E i \in 1..Len(r) : r[i] = x) <=>
                (\E i \in 1..Len(p) : p[i] = x) \/ (\E i \in 1..Len(q) : q[i] = x)
  <2>1. ASSUME NEW i \in 1..Len(r)
        PROVE  (i \in 1..Len(p) /\ r[i] = p[i])
               \/ (i - Len(p) \in 1..Len(q) /\ r[i] = q[i - Len(p)])
    <3>1. CASE i <= Len(p)
      BY <3>1, <1>1, <1>2
    <3>2. CASE ~(i <= Len(p))
      <4>1. i - Len(p) \in 1..Len(q) /\ Len(p) + (i - Len(p)) = i
        BY <3>2, <1>1
      <4>2. r[Len(p) + (i - Len(p))] = q[i - Len(p)]
        BY <4>1, <1>3
      <4> QED
        BY <4>1, <4>2
    <3> QED
      BY <3>1, <3>2
  <2>2. \A i \in 1..Len(p) : i \in 1..Len(r)
    BY <1>1
  <2>3. \A i \in 1..Len(q) : Len(p) + i \in 1..Len(r)
    BY <1>1
  <2> QED
    BY <2>1, <2>2, <2>3, <1>2, <1>3
<1>5. \A x : x \in ToSet(r) <=> x \in ToSet(p) \/ x \in ToSet(q)
  BY <1>1, <1>4, Elements, ZenonT(60)
<1> QED
  BY <1>1, <1>2, <1>3, <1>5 DEF r

\* What a removal at a place leaves.
LEMMA Removing ==
    ASSUME NEW S, NEW q \in Seq(S), NEW k \in DOMAIN q
    PROVE  /\ RemoveAt(q, k) \in Seq(S) /\ q[k] \in S
           /\ ToSet(q) = ToSet(RemoveAt(q, k)) \cup {q[k]}
<1> DEFINE a == SubSeq(q, 1, k - 1)
           b == SubSeq(q, k + 1, Len(q))
<1>1. Len(q) \in Nat /\ k \in 1..Len(q) /\ q[k] \in S
  OBVIOUS
<1>2. a \in Seq(S) /\ Len(a) = k - 1 /\ \A i \in 1..k - 1 : a[i] = q[i]
  BY <1>1
<1>3. b \in Seq(S) /\ Len(b) = Len(q) - k /\ \A i \in 1..Len(q) - k : b[i] = q[k + i]
  BY <1>1
<1> HIDE DEF a, b
<1>4. ASSUME NEW x
      PROVE  (\E i \in 1..Len(q) : q[i] = x) <=>
                (\E i \in 1..Len(a) : a[i] = x) \/ (\E i \in 1..Len(b) : b[i] = x) \/ x = q[k]
  <2>1. ASSUME NEW i \in 1..Len(q)
        PROVE  i = k \/ (i \in 1..Len(a) /\ a[i] = q[i])
               \/ (i - k \in 1..Len(b) /\ b[i - k] = q[i])
    <3>1. i < k => i \in 1..k - 1
      BY <1>1
    <3>2. i > k => i - k \in 1..Len(q) - k /\ k + (i - k) = i
      BY <1>1
    <3>3. i < k \/ i = k \/ i > k
      BY <1>1
    <3> QED
      BY <3>1, <3>2, <3>3, <1>2, <1>3
  <2>2. \A i \in 1..Len(a) : i \in 1..Len(q)
    BY <1>1, <1>2
  <2>3. \A i \in 1..Len(b) : k + i \in 1..Len(q)
    BY <1>1, <1>3
  <2> QED
    BY <2>1, <2>2, <2>3, <1>1, <1>2, <1>3, ZenonT(60)
<1>5. RemoveAt(q, k) = a \o b
  BY DEF RemoveAt, a, b
<1>6. a \o b \in Seq(S) /\ ToSet(a \o b) = ToSet(a) \cup ToSet(b)
  BY <1>2, <1>3, Joining
<1>c. \A x : x \in ToSet(q) <=> \E i \in 1..Len(q) : q[i] = x
  BY Elements
<1>d. \A x : x \in ToSet(a) <=> \E i \in 1..Len(a) : a[i] = x
  BY <1>2, Elements
<1>e. \A x : x \in ToSet(b) <=> \E i \in 1..Len(b) : b[i] = x
  BY <1>3, Elements
<1>7. \A x : x \in ToSet(q) <=> x \in ToSet(a) \/ x \in ToSet(b) \/ x = q[k]
  BY <1>4, <1>c, <1>d, <1>e
<1> QED
  BY <1>1, <1>5, <1>6, <1>7

\* The list of live sessions without one of them.
LEMMA WithoutKeeps ==
    ASSUME NEW S, NEW q \in Seq(S), NEW x
    PROVE  /\ Without(q, x) \in Seq(S)
           /\ ToSet(Without(q, x)) = ToSet(q) \ {x}
           /\ IsInjective(q) => IsInjective(Without(q, x))
<1> DEFINE keep == {n \in 1..Len(q) : q[n] # x}
           f == Without(q, x)
<1>1. f = Selected(q, keep)
  BY DEF Without
<1>2. keep \in SUBSET (1..Len(q)) /\ Len(q) \in Nat
  OBVIOUS
<1>3. Chosen(q, keep, Len(q), f)
  BY <1>1, <1>2, Selection
<1> HIDE DEF f
<1>4. f \in Seq({q[k] : k \in 1..Len(q)})
  BY <1>3 DEF Chosen
<1>5. f \in Seq(S)
  <2>1. {q[k] : k \in 1..Len(q)} \subseteq S
    OBVIOUS
  <2> QED
    BY <1>4, <2>1
<1>6. PICK at \in [1..Len(f) -> keep \cap 1..Len(q)] :
         /\ \A i \in 1..Len(f) : f[i] = q[at[i]]
         /\ \A i, j \in 1..Len(f) : i < j => at[i] < at[j]
         /\ \A k \in keep \cap 1..Len(q) : \E i \in 1..Len(f) : at[i] = k
  BY <1>3 DEF Chosen
<1>7. \A e : (\E i \in 1..Len(f) : f[i] = e) <=> (\E k \in keep : q[k] = e)
  BY <1>6, SMTT(60)
<1>a. \A e : e \in ToSet(f) <=> \E i \in 1..Len(f) : f[i] = e
  BY <1>5, Elements
<1>b. \A e : e \in ToSet(q) <=> \E i \in 1..Len(q) : q[i] = e
  BY Elements
<1>8. \A e : e \in ToSet(f) <=> e \in ToSet(q) /\ e # x
  BY <1>7, <1>a, <1>b
<1>9. ASSUME IsInjective(q)
      PROVE  IsInjective(f)
  <2> SUFFICES ASSUME NEW i \in 1..Len(f), NEW j \in 1..Len(f), f[i] = f[j] PROVE i = j
    BY <1>5 DEF IsInjective
  <2>1. at[i] \in 1..Len(q) /\ at[j] \in 1..Len(q) /\ q[at[i]] = q[at[j]]
    BY <1>6
  <2>2. at[i] = at[j]
    BY <2>1, <1>9 DEF IsInjective
  <2>3. i \in Nat /\ j \in Nat
    BY <1>5
  <2> QED
    BY <1>6, <2>1, <2>2, <2>3
<1> QED
  BY <1>5, <1>8, <1>9 DEF f

\* The forwarders that go on: those attached, and those with chunks to forward.
LEMMA UnfinishedKeeps ==
    ASSUME NEW fs \in Seq(Feed)
    PROVE  /\ Unfinished(fs) \in Seq(Feed)
           /\ ToSet(Unfinished(fs)) = {f \in ToSet(fs) : f.open \/ f.queue # <<>>}
<1> DEFINE keep == {k \in 1..Len(fs) : fs[k].open \/ fs[k].queue # <<>>}
           u == Unfinished(fs)
<1>1. u = Selected(fs, keep)
  BY DEF Unfinished
<1>2. keep \in SUBSET (1..Len(fs)) /\ Len(fs) \in Nat
  OBVIOUS
<1>3. Chosen(fs, keep, Len(fs), u)
  BY <1>1, <1>2, Selection
<1> HIDE DEF u
<1>4. u \in Seq({fs[k] : k \in 1..Len(fs)})
  BY <1>3 DEF Chosen
<1>5. u \in Seq(Feed)
  <2>1. {fs[k] : k \in 1..Len(fs)} \subseteq Feed
    OBVIOUS
  <2> QED
    BY <1>4, <2>1
<1>6. PICK at \in [1..Len(u) -> keep \cap 1..Len(fs)] :
         /\ \A i \in 1..Len(u) : u[i] = fs[at[i]]
         /\ \A k \in keep \cap 1..Len(fs) : \E i \in 1..Len(u) : at[i] = k
  BY <1>3 DEF Chosen
<1>7. \A e : (\E i \in 1..Len(u) : u[i] = e) <=> (\E k \in keep : fs[k] = e)
  BY <1>6, SMTT(60)
<1>a. \A e : e \in ToSet(u) <=> \E i \in 1..Len(u) : u[i] = e
  BY <1>5, Elements
<1>b. \A e : e \in ToSet(fs) <=> \E i \in 1..Len(fs) : fs[i] = e
  BY Elements
<1>8. \A e : e \in ToSet(u) <=> e \in ToSet(fs) /\ (e.open \/ e.queue # <<>>)
  BY <1>7, <1>a, <1>b
<1> QED
  BY <1>5, <1>8 DEF u

SnapshotStep(order, written, n) ==
    IF n = 0 THEN <<>> ELSE written[n - 1] \o Announce(order[n])

\* The recursive function behind a snapshot exists.
LEMMA SnapshotExists ==
    ASSUME NEW order \in Seq(Session)
    PROVE  \E g : g = [n \in 0..Len(order) |-> SnapshotStep(order, g, n)]
<1> DEFINE G == {m \in 0..Len(order) :
                   \E g : g = [n \in 0..m |-> SnapshotStep(order, g, n)]}
<1>1. 0 \in G
  <2> DEFINE g == [n \in 0..0 |-> <<>>]
  <2>1. g = [n \in 0..0 |-> SnapshotStep(order, g, n)]
    BY DEF SnapshotStep
  <2> QED
    BY <2>1
<1>2. ASSUME NEW m \in 1..Len(order), m - 1 \in G
      PROVE  m \in G
  <2>1. PICK g : g = [n \in 0..m - 1 |-> SnapshotStep(order, g, n)]
    BY <1>2
  <2> DEFINE h == [n \in 0..m |-> IF n = m THEN SnapshotStep(order, g, n) ELSE g[n]]
  <2>2. \A n \in 0..m : h[n] = SnapshotStep(order, h, n)
    <3> SUFFICES ASSUME NEW n \in 0..m PROVE h[n] = SnapshotStep(order, h, n)
      OBVIOUS
    <3>1. n # 0 => n - 1 \in 0..m - 1 /\ h[n - 1] = g[n - 1]
      OBVIOUS
    <3>2. SnapshotStep(order, h, n) = SnapshotStep(order, g, n)
      BY <3>1 DEF SnapshotStep
    <3>3. n # m => g[n] = SnapshotStep(order, g, n)
      BY <2>1
    <3> QED
      BY <3>2, <3>3
  <2>3. h = [n \in 0..m |-> SnapshotStep(order, h, n)]
    BY <2>2
  <2> HIDE DEF h
  <2>4. \E f : f = [n \in 0..m |-> SnapshotStep(order, f, n)]
    BY <2>3
  <2> QED
    BY <2>4
<1> HIDE DEF G
<1>3. Len(order) \in Nat
  OBVIOUS
<1>4. \A m \in 1..Len(order) : m - 1 \in G => m \in G
  BY <1>2
<1>5. \A m \in 0..Len(order) : m \in G
  BY <1>1, <1>3, <1>4, UpTo
<1>6. Len(order) \in G
  BY <1>3, <1>5
<1> QED
  BY <1>6 DEF G

\* What the bus writes for a session: its creation, and its chunks.
LEMMA AnnounceSays ==
    ASSUME TypeOK, NEW s \in Session
    PROVE  /\ Announce(s) \in Seq(Message)
           /\ \A m : m \in ToSet(Announce(s)) <=>
                 m = Created(s) \/ \E x \in ToSet(hist[s]) : m = Stored(s, x)
<1>1. hist[s] \in Seq(Id)
  BY DEF TypeOK
<1>2. DOMAIN hist[s] = 1..Len(hist[s]) /\ Len(hist[s]) \in Nat
  BY <1>1
<1>3. Replay(s) \in Seq(Message) /\ Len(Replay(s)) = Len(hist[s])
  BY <1>1, <1>2 DEF Replay, Message, Stored
<1>4. <<Created(s)>> \in Seq(Message) /\ ToSet(<<Created(s)>>) = {Created(s)}
  BY DEF Message, Created, ToSet
<1>5. \A m : m \in ToSet(Replay(s)) <=> \E x \in ToSet(hist[s]) : m = Stored(s, x)
  BY <1>2 DEF Replay, ToSet
<1>6. /\ Announce(s) \in Seq(Message)
      /\ ToSet(Announce(s)) = ToSet(<<Created(s)>>) \cup ToSet(Replay(s))
  <2>1. PICK p : p = <<Created(s)>>
    OBVIOUS
  <2>2. PICK q : q = Replay(s)
    OBVIOUS
  <2>3. p \o q \in Seq(Message) /\ ToSet(p \o q) = ToSet(p) \cup ToSet(q)
    <3>1. p \in Seq(Message) /\ q \in Seq(Message)
      BY <1>3, <1>4, <2>1, <2>2, Zenon
    <3> QED
      BY <3>1, Joining, SMTT(30)
  <2>4. Announce(s) = p \o q
    BY <2>1, <2>2, Zenon DEF Announce
  <2> QED
    BY <2>1, <2>2, <2>3, <2>4, Zenon
<1> QED
  BY <1>4, <1>5, <1>6

\* A snapshot announces the sessions of the registry with their chunks, and nothing else.
LEMMA SnapshotSays ==
    ASSUME TypeOK, NEW order \in Seq(Session)
    PROVE  /\ Snapshot(order) \in Seq(Message)
           /\ \A m : m \in ToSet(Snapshot(order)) <=>
                 \E k \in 1..Len(order) : m \in ToSet(Announce(order[k]))
<1> DEFINE written == CHOOSE g : g = [n \in 0..Len(order) |-> SnapshotStep(order, g, n)]
           Said(n) == /\ written[n] \in Seq(Message)
                      /\ \A m : m \in ToSet(written[n]) <=>
                            \E k \in 1..n : m \in ToSet(Announce(order[k]))
           G == {n \in 0..Len(order) : Said(n)}
<1>1. written = [n \in 0..Len(order) |-> SnapshotStep(order, written, n)]
  BY SnapshotExists
<1>2. Snapshot(order) = written[Len(order)]
  BY DEF Snapshot, SnapshotStep
<1> HIDE DEF written
<1>a. \A n \in 0..Len(order) : written[n] = SnapshotStep(order, written, n)
  BY <1>1, Zenon
<1>b. Len(order) \in Nat
  OBVIOUS
<1>3. written[0] = <<>>
  BY <1>a, <1>b DEF SnapshotStep
<1>4. ASSUME NEW n \in 1..Len(order)
      PROVE  written[n] = written[n - 1] \o Announce(order[n])
  <2>1. n \in 0..Len(order) /\ n # 0
    BY <1>b
  <2>2. written[n] = SnapshotStep(order, written, n)
    BY <1>a, <2>1
  <2> QED
    BY <2>1, <2>2 DEF SnapshotStep
<1>5. 0 \in G
  <2>1. <<>> \in Seq(Message) /\ ToSet(<<>>) = {} /\ 1..0 = {}
    BY DEF ToSet
  <2>2. Said(0)
    BY <1>3, <2>1
  <2> QED
    BY <1>b, <2>2
<1>6. ASSUME NEW n \in 1..Len(order), n - 1 \in G
      PROVE  n \in G
  <2>1. Said(n - 1)
    BY <1>6
  <2>2. order[n] \in Session
    OBVIOUS
  <2>3. Announce(order[n]) \in Seq(Message)
    BY <2>2, AnnounceSays
  <2> DEFINE w == written[n - 1]
             a == Announce(order[n])
  <2>4. w \o a \in Seq(Message) /\ ToSet(w \o a) = ToSet(w) \cup ToSet(a)
    BY <2>1, <2>3, Joining
  <2>5. \A k : k \in 1..n <=> k \in 1..n - 1 \/ k = n
    OBVIOUS
  <2>6. \A m : m \in ToSet(w \o a) <=> \E k \in 1..n : m \in ToSet(Announce(order[k]))
    BY <2>1, <2>4, <2>5
  <2>7. written[n] = w \o a
    BY <1>4
  <2>8. Said(n)
    BY <2>4, <2>6, <2>7
  <2> QED
    BY <2>8
<1> HIDE DEF G
<1>7. \A n \in 1..Len(order) : n - 1 \in G => n \in G
  BY <1>6
<1>8. \A n \in 0..Len(order) : n \in G
  BY <1>5, <1>b, <1>7, UpTo
<1>9. Len(order) \in G
  BY <1>b, <1>8
<1> QED
  BY <1>9, <1>2 DEF G

\* The sessions of the registry in some order: each of them is there.
LEMMA OrderCovers ==
    ASSUME NEW L, IsFiniteSet(L), NEW order \in SetToSeqs(L)
    PROVE  order \in Seq(L) /\ ToSet(order) = L
<1> DEFINE n == Cardinality(L)
<1>1. n \in Nat
  BY FS_CardinalityType
<1>2. order \in [1..n -> L] /\ \A i, j \in 1..n : i # j => order[i] # order[j]
  BY DEF SetToSeqs
<1>3. order \in Seq(L)
  BY <1>1, <1>2
<1>4. IsFiniteSet(1..n) /\ Cardinality(1..n) = n
  BY <1>1, FS_Interval
<1>5. order \in Injection(1..n, L)
  BY <1>2 DEF Injection, IsInjective
<1>6. order \in Surjection(1..n, L)
  BY <1>4, <1>5, FS_Injection
<1> QED
  BY <1>2, <1>3, <1>6 DEF Surjection, ToSet

-----------------------------------------------------------------------------
(* The inductive invariant. *)

\* Message m is in the queue of a forwarder.
Waiting(fs, m) == \E f \in ToSet(fs) : m \in ToSet(f.queue)

\* Session s is forwarded.
Forwarded(fs, s) == \E f \in ToSet(fs) : f.session = s /\ f.open

\* The deletion of s is not among the messages q.
NotGone(q, s) == Deleted(s) \notin ToSet(q)

\* Message m is in q, and no deletion of session s after it.
Lasts(q, m, s) ==
    \E j \in 1..Len(q) : q[j] = m /\ \A i \in 1..Len(q) : i > j => q[i] # Deleted(s)

\* Every deletion of s in q is followed by a creation.
Recreated(q, s) ==
    \A j \in 1..Len(q) : q[j] = Deleted(s) => \E i \in 1..Len(q) : i > j /\ q[i] = Created(s)

\* Chunk x of session s is somewhere between the bus, the store and its database.
Held(s, x) ==
    \/ x \in ToSet(hist[s]) \/ x \in ToSet(chunks[s])
    \/ Waiting(feeds, Stored(s, x))
    \/ Stored(s, x) \in ToSet(inbox)
    \/ <<s, x>> \in ToSet(sending)
    \/ current = s /\ x \in ToSet(replay)

\* A chunk that nobody copied or retired belongs to one session.
OneHome ==
    \A s \in Session, x \in Id : Held(s, x) =>
        /\ x \in published
        /\ x \notin altered => \A p \in Session : Held(p, x) => p = s

\* Which messages are where; only chunks that are retired have a delete message.
Channels ==
    /\ \A e \in ToSet(events) : e.kind \in {"created", "deleted"}
    /\ \A m \in Message : Waiting(feeds, m) =>
          /\ m.kind \in {"chunk", "delete"}
          /\ m.kind = "delete" => m.id \in altered
    /\ \A m \in ToSet(inbox) : m.kind = "delete" => m.id \in altered

\* The deletion of a session that is there again is followed by its creation.
DeletedThenCreated == \A s \in live : Recreated(events, s)

\* The row of session s is in the database to stay, or on its way.
RowArrives(s) == (s \in rows /\ NotGone(inbox, s)) \/ Lasts(inbox, Created(s), s)

\* The same for a chunk.
ChunkArrives(s, x) ==
    \/ x \in ToSet(chunks[s]) /\ NotGone(inbox, s)
    \/ Lasts(inbox, Stored(s, x), s)
    \/ Waiting(feeds, Stored(s, x))

\* All of a session arrives.
Arrives(s) ==
    /\ Forwarded(feeds, s)
    /\ RowArrives(s)
    /\ \A x \in ToSet(hist[s]) \ altered : ChunkArrives(s, x)

\* A session the listener will not announce again is followed.
Followed == linked => \A s \in live : Created(s) \notin ToSet(events) => Arrives(s)

\* What is owed is still to be restored, or on its way, or back.
Returning(s, x) ==
    \/ phase = "restore" /\ s \in todo \ live /\ x \in ToSet(chunks[s])
    \/ /\ s \in live
       /\ \/ x \in ToSet(hist[s]) \/ <<s, x>> \in ToSet(sending)
          \/ current = s /\ x \in ToSet(replay)

OwedReturns ==
    /\ owed # {} => busUp
    /\ \A s \in Session, x \in Id : <<s, x>> \in owed => Returning(s, x)

IInv ==
    /\ TypeOK /\ IsFiniteSet(live)
    /\ TablesAgree /\ OwedReturns
    /\ OneHome /\ Channels /\ DeletedThenCreated /\ Followed

-----------------------------------------------------------------------------
(* Messages and the queues they are in. *)

\* Messages differ by kind, session and chunk.
LEMMA Kinds ==
    ASSUME NEW s, NEW p, NEW x, NEW y
    PROVE  /\ Created(s) # Deleted(p) /\ Created(s) # Stored(p, x) /\ Created(s) # Retired(p, x)
           /\ Deleted(s) # Stored(p, x) /\ Deleted(s) # Retired(p, x)
           /\ Stored(s, x) # Retired(p, y)
           /\ Created(s) = Created(p) => s = p
           /\ Deleted(s) = Deleted(p) => s = p
           /\ Stored(s, x) = Stored(p, y) => s = p /\ x = y
           /\ Retired(s, x) = Retired(p, y) => s = p /\ x = y
<1>1. /\ Created(s).kind = "created" /\ Created(p).kind = "created"
      /\ Deleted(s).kind = "deleted" /\ Deleted(p).kind = "deleted"
      /\ Stored(s, x).kind = "chunk" /\ Stored(p, x).kind = "chunk"
      /\ Retired(p, x).kind = "delete" /\ Retired(p, y).kind = "delete"
  BY DEF Created, Deleted, Stored, Retired
<1>2. /\ Created(s).session = s /\ Created(p).session = p
      /\ Deleted(s).session = s /\ Deleted(p).session = p
      /\ Stored(s, x).session = s /\ Stored(p, y).session = p
      /\ Stored(s, x).id = x /\ Stored(p, y).id = y
      /\ Retired(s, x).session = s /\ Retired(p, y).session = p
      /\ Retired(s, x).id = x /\ Retired(p, y).id = y
  BY DEF Created, Deleted, Stored, Retired
<1>3. /\ Created(s) # Deleted(p) /\ Created(s) # Stored(p, x) /\ Created(s) # Retired(p, x)
      /\ Deleted(s) # Stored(p, x) /\ Deleted(s) # Retired(p, x)
      /\ Stored(s, x) # Retired(p, y)
  BY <1>1
<1> QED
  BY <1>2, <1>3

\* The messages of a subscription, taken apart.
LEMMA MessageTypes ==
    /\ \A s \in Session : Created(s) \in Message /\ Deleted(s) \in Message
    /\ \A s \in Session, x \in Id : Stored(s, x) \in Message /\ Retired(s, x) \in Message
    /\ \A m \in Message : /\ m.kind \in {"created", "deleted", "chunk", "delete"}
                          /\ m.session \in Session
                          /\ m.kind = "created" => m = Created(m.session)
                          /\ m.kind = "deleted" => m = Deleted(m.session)
                          /\ m.kind = "chunk" => m.id \in Id /\ m = Stored(m.session, m.id)
                          /\ m.kind = "delete" => m.id \in Id /\ m = Retired(m.session, m.id)
<1>1. \A s \in Session : Created(s) \in Message /\ Deleted(s) \in Message
  BY DEF Message, Created, Deleted
<1>2. \A s \in Session, x \in Id : Stored(s, x) \in Message /\ Retired(s, x) \in Message
  BY DEF Message, Stored, Retired
<1>3. ASSUME NEW m \in Message
      PROVE  /\ m.kind \in {"created", "deleted", "chunk", "delete"}
             /\ m.session \in Session
             /\ m.kind = "created" => m = Created(m.session)
             /\ m.kind = "deleted" => m = Deleted(m.session)
             /\ m.kind = "chunk" => m.id \in Id /\ m = Stored(m.session, m.id)
             /\ m.kind = "delete" => m.id \in Id /\ m = Retired(m.session, m.id)
  <2>1. CASE m \in [kind : {"created", "deleted"}, session : Session]
    BY <2>1 DEF Created, Deleted
  <2>2. CASE m \in [kind : {"chunk", "delete"}, session : Session, id : Id]
    BY <2>2 DEF Stored, Retired
  <2> QED
    BY <2>1, <2>2 DEF Message
<1> QED
  BY <1>1, <1>2, <1>3

\* One more message at the end of a queue.
LEMMA QueueGrows ==
    ASSUME NEW q \in Seq(Message), NEW e \in Message, NEW s
    PROVE  /\ NotGone(Append(q, e), s) <=> NotGone(q, s) /\ e # Deleted(s)
           /\ \A m : Lasts(q, m, s) /\ e # Deleted(s) => Lasts(Append(q, e), m, s)
           /\ Lasts(Append(q, e), e, s)
           /\ Recreated(q, s) /\ e # Deleted(s) => Recreated(Append(q, e), s)
           /\ e = Created(s) => Recreated(Append(q, e), s)
<1> DEFINE r == Append(q, e)
<1>1. /\ r \in Seq(Message) /\ Len(r) = Len(q) + 1 /\ Len(q) \in Nat
      /\ r[Len(q) + 1] = e /\ ToSet(r) = ToSet(q) \cup {e}
  BY Appending
<1>2. \A i \in 1..Len(q) : r[i] = q[i]
  OBVIOUS
<1> HIDE DEF r
<1>3. NotGone(r, s) <=> NotGone(q, s) /\ e # Deleted(s)
  BY <1>1 DEF NotGone
<1>4. ASSUME NEW m, Lasts(q, m, s), e # Deleted(s)
      PROVE  Lasts(r, m, s)
  <2>1. PICK j \in 1..Len(q) : q[j] = m /\ \A i \in 1..Len(q) : i > j => q[i] # Deleted(s)
    BY <1>4 DEF Lasts
  <2>2. j \in 1..Len(r) /\ r[j] = m
    BY <2>1, <1>1, <1>2
  <2>3. \A i \in 1..Len(r) : i > j => r[i] # Deleted(s)
    BY <2>1, <1>1, <1>2, <1>4
  <2> QED
    BY <2>2, <2>3 DEF Lasts
<1>5. Lasts(r, e, s)
  BY <1>1 DEF Lasts
<1>6. ASSUME (Recreated(q, s) /\ e # Deleted(s)) \/ e = Created(s)
      PROVE  Recreated(r, s)
  <2> SUFFICES ASSUME NEW j \in 1..Len(r), r[j] = Deleted(s)
               PROVE  \E i \in 1..Len(r) : i > j /\ r[i] = Created(s)
    BY DEF Recreated
  <2>1. e # Deleted(s)
    BY <1>6, Kinds
  <2>2. j \in 1..Len(q) /\ q[j] = Deleted(s)
    BY <2>1, <1>1, <1>2
  <2>3. CASE e = Created(s)
    BY <2>2, <2>3, <1>1
  <2>4. CASE Recreated(q, s)
    <3>1. PICK i \in 1..Len(q) : i > j /\ q[i] = Created(s)
      BY <2>2, <2>4 DEF Recreated
    <3> QED
      BY <3>1, <1>1, <1>2
  <2> QED
    BY <1>6, <2>3, <2>4
<1> QED
  BY <1>3, <1>4, <1>5, <1>6 DEF r

\* Messages written at once, none of them a deletion of s.
LEMMA QueueJoins ==
    ASSUME NEW q \in Seq(Message), NEW r \in Seq(Message), NEW s, NotGone(r, s)
    PROVE  /\ NotGone(q \o r, s) <=> NotGone(q, s)
           /\ \A m : Lasts(q, m, s) => Lasts(q \o r, m, s)
           /\ \A m \in ToSet(r) : Lasts(q \o r, m, s)
<1> DEFINE t == q \o r
<1>1. /\ t \in Seq(Message) /\ Len(t) = Len(q) + Len(r) /\ ToSet(t) = ToSet(q) \cup ToSet(r)
      /\ \A i \in 1..Len(q) : t[i] = q[i]
      /\ \A i \in 1..Len(r) : t[Len(q) + i] = r[i]
  BY Joining
<1>a. Len(q) \in Nat /\ Len(r) \in Nat
  OBVIOUS
<1> HIDE DEF t
<1>2. NotGone(t, s) <=> NotGone(q, s)
  BY <1>1 DEF NotGone
<1>3. ASSUME NEW i \in 1..Len(t), i > Len(q)
      PROVE  t[i] # Deleted(s)
  <2>1. i - Len(q) \in 1..Len(r) /\ Len(q) + (i - Len(q)) = i
    BY <1>1, <1>a, <1>3
  <2>2. t[i] = r[i - Len(q)]
    BY <2>1, <1>1
  <2> QED
    BY <2>1, <2>2, Elements DEF NotGone
<1>4. ASSUME NEW m, Lasts(q, m, s)
      PROVE  Lasts(t, m, s)
  <2>1. PICK j \in 1..Len(q) : q[j] = m /\ \A i \in 1..Len(q) : i > j => q[i] # Deleted(s)
    BY <1>4 DEF Lasts
  <2>2. j \in 1..Len(t) /\ t[j] = m
    BY <2>1, <1>1, <1>a
  <2>3. ASSUME NEW i \in 1..Len(t), i > j PROVE t[i] # Deleted(s)
    <3>1. CASE i > Len(q)
      BY <3>1, <1>3
    <3>2. CASE ~(i > Len(q))
      <4>1. i \in 1..Len(q)
        BY <3>2, <1>1, <1>a
      <4> QED
        BY <4>1, <2>1, <2>3, <1>1
    <3> QED
      BY <3>1, <3>2
  <2> QED
    BY <2>2, <2>3 DEF Lasts
<1>5. ASSUME NEW m \in ToSet(r)
      PROVE  Lasts(t, m, s)
  <2>1. PICK i \in 1..Len(r) : r[i] = m
    BY Elements
  <2>2. Len(q) + i \in 1..Len(t) /\ t[Len(q) + i] = m /\ Len(q) + i > Len(q)
    BY <2>1, <1>1, <1>a
  <2>3. \A k \in 1..Len(t) : k > Len(q) + i => t[k] # Deleted(s)
    BY <1>3, <2>2, <1>a
  <2> QED
    BY <2>2, <2>3 DEF Lasts
<1> QED
  BY <1>2, <1>4, <1>5 DEF t

\* The first message is taken.
LEMMA QueueShrinks ==
    ASSUME NEW q \in Seq(Message), q # <<>>, NEW s
    PROVE  /\ NotGone(q, s) <=> NotGone(Tail(q), s) /\ Head(q) # Deleted(s)
           /\ \A m : Lasts(q, m, s) =>
                 Lasts(Tail(q), m, s) \/ (m = Head(q) /\ NotGone(Tail(q), s))
           /\ Recreated(q, s) => Recreated(Tail(q), s)
           /\ Recreated(q, s) /\ Head(q) = Deleted(s) => Created(s) \in ToSet(Tail(q))
<1> DEFINE r == Tail(q)
<1>1. /\ r \in Seq(Message) /\ Len(r) = Len(q) - 1 /\ Len(q) \in Nat \ {0}
      /\ Head(q) = q[1] /\ ToSet(q) = {Head(q)} \cup ToSet(r)
      /\ \A i \in 1..Len(q) - 1 : r[i] = q[i + 1]
  BY Taking
<1> HIDE DEF r
<1>2. \A m : m \in ToSet(r) <=> \E i \in 1..Len(r) : r[i] = m
  BY <1>1, Elements
<1>3. NotGone(q, s) <=> NotGone(r, s) /\ Head(q) # Deleted(s)
  BY <1>1 DEF NotGone
<1>4. ASSUME NEW m, Lasts(q, m, s)
      PROVE  Lasts(r, m, s) \/ (m = Head(q) /\ NotGone(r, s))
  <2>1. PICK j \in 1..Len(q) : q[j] = m /\ \A i \in 1..Len(q) : i > j => q[i] # Deleted(s)
    BY <1>4 DEF Lasts
  <2>2. \A i \in 1..Len(r) : i + 1 > j => r[i] # Deleted(s)
    BY <2>1, <1>1
  <2>3. CASE j = 1
    BY <2>1, <2>2, <2>3, <1>1, <1>2 DEF NotGone
  <2>4. CASE j # 1
    <3>1. j - 1 \in 1..Len(r) /\ r[j - 1] = m
      BY <2>1, <2>4, <1>1
    <3>2. \A i \in 1..Len(r) : i > j - 1 => r[i] # Deleted(s)
      BY <2>2, <1>1
    <3> QED
      BY <3>1, <3>2 DEF Lasts
  <2> QED
    BY <2>3, <2>4
<1>5. ASSUME Recreated(q, s), NEW j \in 1..Len(q), q[j] = Deleted(s)
      PROVE  \E i \in 1..Len(r) : i > j - 1 /\ r[i] = Created(s)
  <2>1. PICK i \in 1..Len(q) : i > j /\ q[i] = Created(s)
    BY <1>5 DEF Recreated
  <2>2. i - 1 \in 1..Len(r) /\ r[i - 1] = q[i] /\ i - 1 > j - 1
    BY <2>1, <1>1
  <2> QED
    BY <2>1, <2>2
<1>6. ASSUME Recreated(q, s)
      PROVE  Recreated(r, s)
  <2> SUFFICES ASSUME NEW j \in 1..Len(r), r[j] = Deleted(s)
               PROVE  \E i \in 1..Len(r) : i > j /\ r[i] = Created(s)
    BY DEF Recreated
  <2>1. j + 1 \in 1..Len(q) /\ q[j + 1] = Deleted(s) /\ (j + 1) - 1 = j
    BY <1>1
  <2> QED
    BY <2>1, <1>5, <1>6
<1>7. ASSUME Recreated(q, s), Head(q) = Deleted(s)
      PROVE  Created(s) \in ToSet(r)
  <2>1. 1 \in 1..Len(q) /\ q[1] = Deleted(s)
    BY <1>1, <1>7
  <2> QED
    BY <2>1, <1>2, <1>5, <1>7
<1> QED
  BY <1>3, <1>4, <1>6, <1>7 DEF r

-----------------------------------------------------------------------------
(* The forwarders. *)

\* Only the queue or the state of a forwarder changes.
LEMMA FeedFields ==
    ASSUME NEW f \in Feed
    PROVE  /\ f.session \in Session /\ f.open \in BOOLEAN /\ f.queue \in Seq(Message)
           /\ \A q \in Seq(Message) :
                 LET g == [f EXCEPT !.queue = q]
                 IN  /\ g \in Feed /\ g.session = f.session /\ g.open = f.open /\ g.queue = q
           /\ LET g == [f EXCEPT !.open = FALSE]
              IN  /\ g \in Feed /\ g.session = f.session /\ g.open = FALSE /\ g.queue = f.queue
BY DEF Feed

\* Message m is broadcast on session s: it waits if the session is forwarded.
LEMMA Broadcasts ==
    ASSUME TypeOK, NEW s \in Session, NEW m \in Message
    PROVE  /\ Broadcast(s, m) \in Seq(Feed)
           /\ \A e : Waiting(Broadcast(s, m), e) <=>
                 Waiting(feeds, e) \/ (e = m /\ Forwarded(feeds, s))
           /\ \A p : Forwarded(Broadcast(s, m), p) <=> Forwarded(feeds, p)
           /\ feeds = <<>> => Broadcast(s, m) = <<>>
<1> DEFINE fs == Broadcast(s, m)
           Told(f) == IF f.session = s /\ f.open THEN [f EXCEPT !.queue = Append(@, m)] ELSE f
<1>1. feeds \in Seq(Feed) /\ DOMAIN feeds = 1..Len(feeds) /\ Len(feeds) \in Nat
  BY DEF TypeOK
<1>2. fs = [k \in 1..Len(feeds) |-> Told(feeds[k])]
  BY <1>1 DEF Broadcast
<1>3. ASSUME NEW f \in Feed
      PROVE  /\ Told(f) \in Feed /\ Told(f).session = f.session /\ Told(f).open = f.open
             /\ \A e : e \in ToSet(Told(f).queue) <=>
                   e \in ToSet(f.queue) \/ (e = m /\ f.session = s /\ f.open)
  <2> DEFINE q == Append(f.queue, m)
  <2>1. f.queue \in Seq(Message)
    BY FeedFields
  <2>2. q \in Seq(Message) /\ ToSet(q) = ToSet(f.queue) \cup {m}
    BY <2>1, Appending
  <2> HIDE DEF q
  <2>3. LET g == [f EXCEPT !.queue = q]
        IN  g \in Feed /\ g.session = f.session /\ g.open = f.open /\ g.queue = q
    BY <2>2, FeedFields
  <2>4. Told(f) = IF f.session = s /\ f.open THEN [f EXCEPT !.queue = q] ELSE f
    BY DEF q
  <2> HIDE DEF Told
  <2>5. CASE f.session = s /\ f.open
    <3>1. PICK g : g = [f EXCEPT !.queue = q]
      OBVIOUS
    <3>2. Told(f) = g
      BY <2>4, <2>5, <3>1, Zenon
    <3>3. g \in Feed /\ g.session = f.session /\ g.open = f.open /\ g.queue = q
      BY <2>3, <3>1, Zenon
    <3> QED
      BY <2>2, <2>5, <3>2, <3>3
  <2>6. CASE ~(f.session = s /\ f.open)
    <3>1. Told(f) = f
      BY <2>4, <2>6, Zenon
    <3> QED
      BY <2>6, <3>1
  <2> QED
    BY <2>5, <2>6
<1> HIDE DEF Told
<1>4. \A k \in 1..Len(feeds) : feeds[k] \in Feed /\ fs[k] = Told(feeds[k])
  BY <1>1, <1>2
<1>5. fs \in Seq(Feed) /\ Len(fs) = Len(feeds)
  BY <1>1, <1>2, <1>3
<1>6. ToSet(fs) = {Told(f) : f \in ToSet(feeds)}
  BY <1>1, <1>2 DEF ToSet
<1>7. ToSet(feeds) \subseteq Feed
  BY <1>1, Elements
<1> HIDE DEF fs
<1>8. ASSUME NEW e
      PROVE  Waiting(fs, e) <=> Waiting(feeds, e) \/ (e = m /\ Forwarded(feeds, s))
  <2>1. Waiting(fs, e) <=> \E f \in ToSet(feeds) : e \in ToSet(Told(f).queue)
    BY <1>6 DEF Waiting
  <2>2. \A f \in ToSet(feeds) : e \in ToSet(Told(f).queue) <=>
           e \in ToSet(f.queue) \/ (e = m /\ f.session = s /\ f.open)
    BY <1>3, <1>7
  <2>3. Waiting(fs, e) <=> \E f \in ToSet(feeds) :
           e \in ToSet(f.queue) \/ (e = m /\ f.session = s /\ f.open)
    BY <2>1, <2>2
  <2> QED
    BY <2>3 DEF Waiting, Forwarded
<1>9. \A p : Forwarded(fs, p) <=> Forwarded(feeds, p)
  BY <1>3, <1>6, <1>7 DEF Forwarded
<1>10. feeds = <<>> => fs = <<>>
  BY DEF fs, Broadcast
<1> QED
  BY <1>5, <1>8, <1>9, <1>10 DEF fs

\* The forwarders once a session's channel is closed.
Detached(s) ==
    Unfinished([k \in DOMAIN feeds |->
        IF feeds[k].session = s THEN [feeds[k] EXCEPT !.open = FALSE] ELSE feeds[k]])

\* A deleted session leaves its forwarders to what is in their queues.
LEMMA Closes ==
    ASSUME TypeOK, NEW s,
           NEW fs, fs = Detached(s)
    PROVE  /\ fs \in Seq(Feed)
           /\ \A e : Waiting(fs, e) <=> Waiting(feeds, e)
           /\ \A p : Forwarded(fs, p) <=> Forwarded(feeds, p) /\ p # s
           /\ feeds = <<>> => fs = <<>>
<1> DEFINE Shut(f) == IF f.session = s THEN [f EXCEPT !.open = FALSE] ELSE f
           g == [k \in DOMAIN feeds |-> Shut(feeds[k])]
<1>1. feeds \in Seq(Feed) /\ DOMAIN feeds = 1..Len(feeds) /\ Len(feeds) \in Nat
  BY DEF TypeOK
<1>2. fs = Unfinished(g)
  BY DEF Detached
<1>3. ASSUME NEW f \in Feed
      PROVE  /\ Shut(f) \in Feed /\ Shut(f).session = f.session /\ Shut(f).queue = f.queue
             /\ Shut(f).open <=> f.open /\ f.session # s
  BY FeedFields
<1> HIDE DEF Shut
<1>4. g \in Seq(Feed)
  BY <1>1, <1>3
<1>5. ToSet(g) = {Shut(f) : f \in ToSet(feeds)}
  BY <1>1 DEF ToSet
<1> HIDE DEF g
<1>6. /\ fs \in Seq(Feed)
      /\ ToSet(fs) = {f \in ToSet(g) : f.open \/ f.queue # <<>>}
  BY <1>2, <1>4, UnfinishedKeeps
<1>7. ToSet(feeds) \subseteq Feed
  BY <1>1, Elements
<1>8. ToSet(<<>>) = {}
  BY DEF ToSet
<1>9. ASSUME NEW e
      PROVE  Waiting(fs, e) <=> Waiting(feeds, e)
  <2>1. Waiting(fs, e) => Waiting(feeds, e)
    BY <1>3, <1>5, <1>6, <1>7 DEF Waiting
  <2>2. ASSUME NEW f \in ToSet(feeds), e \in ToSet(f.queue)
        PROVE  Waiting(fs, e)
    <3>1. Shut(f) \in ToSet(g) /\ Shut(f).queue = f.queue /\ f.queue # <<>>
      BY <1>3, <1>5, <1>7, <1>8, <2>2
    <3> QED
      BY <3>1, <1>6, <2>2 DEF Waiting
  <2> QED
    BY <2>1, <2>2 DEF Waiting
<1>10. ASSUME NEW p
       PROVE  Forwarded(fs, p) <=> Forwarded(feeds, p) /\ p # s
  <2>1. Forwarded(fs, p) <=> \E f \in ToSet(feeds) : Shut(f).session = p /\ Shut(f).open
    BY <1>5, <1>6 DEF Forwarded
  <2>2. \A f \in ToSet(feeds) : Shut(f).session = p /\ Shut(f).open <=>
           f.session = p /\ f.open /\ p # s
    BY <1>3, <1>7
  <2>3. Forwarded(fs, p) <=> \E f \in ToSet(feeds) : f.session = p /\ f.open /\ p # s
    BY <2>1, <2>2
  <2> QED
    BY <2>3 DEF Forwarded
<1>11. ASSUME feeds = <<>>
       PROVE  fs = <<>>
  <2>1. ToSet(fs) = {}
    BY <1>5, <1>6, <1>8, <1>11
  <2>2. Len(fs) \in Nat /\ \A k \in 1..Len(fs) : fs[k] \in ToSet(fs)
    BY <1>6, Elements
  <2>3. Len(fs) = 0
    BY <2>1, <2>2
  <2> QED
    BY <1>6, <2>3
<1> QED
  BY <1>6, <1>9, <1>10, <1>11

\* A created session gets a forwarder with nothing to forward yet.
LEMMA Attaches ==
    ASSUME TypeOK, NEW s \in Session
    PROVE  /\ Append(feeds, Attached(s)) \in Seq(Feed)
           /\ \A e : Waiting(Append(feeds, Attached(s)), e) <=> Waiting(feeds, e)
           /\ \A p : Forwarded(Append(feeds, Attached(s)), p) <=> Forwarded(feeds, p) \/ p = s
<1> DEFINE a == Attached(s)
           fs == Append(feeds, a)
<1>1. a \in Feed /\ a.session = s /\ a.open = TRUE /\ a.queue = <<>>
  BY DEF Attached, Feed
<1> HIDE DEF a
<1>2. feeds \in Seq(Feed)
  BY DEF TypeOK
<1>3. fs \in Seq(Feed) /\ ToSet(fs) = ToSet(feeds) \cup {a}
  BY <1>1, <1>2, Appending
<1> HIDE DEF fs
<1>4. ToSet(<<>>) = {}
  BY DEF ToSet
<1>5. \A e : Waiting(fs, e) <=> Waiting(feeds, e)
  BY <1>1, <1>3, <1>4 DEF Waiting
<1>6. \A p : Forwarded(fs, p) <=> Forwarded(feeds, p) \/ p = s
  BY <1>1, <1>3 DEF Forwarded
<1> QED
  BY <1>3, <1>5, <1>6 DEF fs, a

\* A snapshot attaches a forwarder to each session.
LEMMA AttachesAll ==
    ASSUME NEW order \in Seq(Session),
           NEW fs, fs = [k \in DOMAIN order |-> Attached(order[k])]
    PROVE  /\ fs \in Seq(Feed)
           /\ \A e : ~Waiting(fs, e)
           /\ \A p : Forwarded(fs, p) <=> p \in ToSet(order)
<1>1. DOMAIN order = 1..Len(order) /\ Len(order) \in Nat /\ \A k \in 1..Len(order) : order[k] \in Session
  OBVIOUS
<1>2. ASSUME NEW p \in Session
      PROVE  /\ Attached(p) \in Feed /\ Attached(p).session = p
             /\ Attached(p).open = TRUE /\ Attached(p).queue = <<>>
  BY DEF Attached, Feed
<1>a. fs = [k \in 1..Len(order) |-> Attached(order[k])]
  BY <1>1
<1>b. \A k \in 1..Len(order) : Attached(order[k]) \in Feed
  BY <1>1, <1>2
<1>3. fs \in Seq(Feed)
  BY <1>1, <1>a, <1>b
<1>4. ToSet(fs) = {Attached(p) : p \in ToSet(order)}
  BY <1>1 DEF ToSet
<1>5. ToSet(order) \subseteq Session
  BY Elements
<1>6. ToSet(<<>>) = {}
  BY DEF ToSet
<1>7. \A e : ~Waiting(fs, e)
  BY <1>2, <1>4, <1>5, <1>6, ZenonT(60) DEF Waiting
<1>8. \A p : Forwarded(fs, p) <=> p \in ToSet(order)
  BY <1>2, <1>4, <1>5 DEF Forwarded
<1> QED
  BY <1>3, <1>7, <1>8

\* A forwarder gives its next chunk to the socket and keeps the others.
LEMMA Forwards ==
    ASSUME TypeOK, NEW k \in DOMAIN feeds, feeds[k].queue # <<>>,
           NEW fs, fs = Unfinished([feeds EXCEPT ![k].queue = Tail(@)])
    PROVE  /\ fs \in Seq(Feed)
           /\ Head(feeds[k].queue) \in Message
           /\ \A e : Waiting(fs, e) => Waiting(feeds, e)
           /\ \A e : Waiting(feeds, e) => Waiting(fs, e) \/ e = Head(feeds[k].queue)
           /\ Waiting(feeds, Head(feeds[k].queue))
           /\ \A p : Forwarded(fs, p) <=> Forwarded(feeds, p)
<1> DEFINE f == feeds[k]
           h == [f EXCEPT !.queue = Tail(f.queue)]
           g == [feeds EXCEPT ![k] = h]
<1>1. /\ feeds \in Seq(Feed) /\ DOMAIN feeds = 1..Len(feeds) /\ Len(feeds) \in Nat
      /\ f \in Feed /\ f.queue \in Seq(Message) /\ k \in 1..Len(feeds)
  <2>1. feeds \in Seq(Feed) /\ DOMAIN feeds = 1..Len(feeds) /\ Len(feeds) \in Nat
    BY DEF TypeOK
  <2>2. f \in Feed /\ k \in 1..Len(feeds)
    BY <2>1
  <2> QED
    BY <2>1, <2>2, FeedFields
<1>2. fs = Unfinished(g)
  OBVIOUS
<1>3. Tail(f.queue) \in Seq(Message) /\ Head(f.queue) \in Message
      /\ ToSet(f.queue) = {Head(f.queue)} \cup ToSet(Tail(f.queue))
  BY <1>1, Taking
<1>4. h \in Feed /\ h.session = f.session /\ h.open = f.open /\ h.queue = Tail(f.queue)
  BY <1>1, <1>3, FeedFields
<1> HIDE DEF h
<1>5. g \in Seq(Feed) /\ \A e : e \in ToSet(g) <=>
         e = h \/ \E i \in 1..Len(feeds) : i # k /\ e = feeds[i]
  BY <1>1, <1>4 DEF ToSet
<1>6. \A e : e \in ToSet(feeds) <=> e = f \/ \E i \in 1..Len(feeds) : i # k /\ e = feeds[i]
  BY <1>1 DEF ToSet
<1> HIDE DEF f, g
<1>7. /\ fs \in Seq(Feed)
      /\ ToSet(fs) = {e \in ToSet(g) : e.open \/ e.queue # <<>>}
  BY <1>2, <1>5, UnfinishedKeeps
<1>8. ToSet(<<>>) = {}
  BY DEF ToSet
<1>9. \A e : Waiting(fs, e) => Waiting(feeds, e)
  BY <1>3, <1>4, <1>5, <1>6, <1>7 DEF Waiting
<1>10. \A e : Waiting(feeds, e) => Waiting(fs, e) \/ e = Head(f.queue)
  <2> SUFFICES ASSUME NEW e, NEW d \in ToSet(feeds), e \in ToSet(d.queue), e # Head(f.queue)
               PROVE  Waiting(fs, e)
    BY DEF Waiting
  <2>1. CASE d = f
    <3>1. e \in ToSet(h.queue) /\ h.queue # <<>> /\ h \in ToSet(g)
      BY <2>1, <1>3, <1>4, <1>5, <1>8
    <3> QED
      BY <3>1, <1>7 DEF Waiting
  <2>2. CASE d # f
    <3>1. d \in ToSet(g) /\ d.queue # <<>>
      BY <2>2, <1>5, <1>6, <1>8
    <3> QED
      BY <3>1, <1>7 DEF Waiting
  <2> QED
    BY <2>1, <2>2
<1>11. Waiting(feeds, Head(f.queue))
  BY <1>3, <1>6 DEF Waiting
<1>12. \A p : Forwarded(fs, p) <=> Forwarded(feeds, p)
  <2>1. ASSUME NEW p, Forwarded(fs, p)
        PROVE  Forwarded(feeds, p)
    BY <2>1, <1>4, <1>5, <1>6, <1>7 DEF Forwarded
  <2>2. ASSUME NEW p, NEW d \in ToSet(feeds), d.session = p, d.open
        PROVE  Forwarded(fs, p)
    <3>1. CASE d = f
      BY <2>2, <3>1, <1>4, <1>5, <1>7 DEF Forwarded
    <3>2. CASE d # f
      BY <2>2, <3>2, <1>5, <1>6, <1>7 DEF Forwarded
    <3> QED
      BY <3>1, <3>2
  <2> QED
    BY <2>1, <2>2 DEF Forwarded
<1> QED
  BY <1>3, <1>7, <1>9, <1>10, <1>11, <1>12 DEF f

-----------------------------------------------------------------------------
(* Types. *)

\* At the start every variable has its type.
LEMMA InitType == Init => TypeOK /\ IsFiniteSet(live)
<1> SUFFICES ASSUME Init PROVE TypeOK /\ IsFiniteSet(live)
  OBVIOUS
<1>1. TypeOK
  <2>1. hist \in [Session -> Seq(Id)] /\ chunks \in [Session -> Seq(Id)]
    BY DEF Init
  <2>2. events \in Seq(Message) /\ inbox \in Seq(Message) /\ feeds \in Seq(Feed)
    BY DEF Init
  <2>3. replay \in Seq(Id) /\ sending \in Seq(Session \X Id)
    BY DEF Init
  <2> QED
    BY <2>1, <2>2, <2>3 DEF Init, TypeOK, Phase, count
<1>2. IsFiniteSet({})
  BY FS_EmptySet
<1> QED
  BY <1>1, <1>2 DEF Init

\* The registry stays finite: steps create one session at a time.
LEMMA NextFinite ==
    ASSUME IsFiniteSet(live), [Next]_vars
    PROVE  IsFiniteSet(live')
<1>1. \A s : IsFiniteSet(live \cup {s}) /\ IsFiniteSet(live \ {s})
  BY FS_AddElement, FS_RemoveElement
<1>2. IsFiniteSet({})
  BY FS_EmptySet
<1>3. live' = live \/ live' = {} \/ \E s : live' = live \cup {s} \/ live' = live \ {s}
  BY DEF Next, vars, ClientStep, CreateSession, ForkSession, DeleteSession, Publish, Retire,
     BusStops, BusStarts, BusStep, Listen, Forward, Accept, StoreStep, Connect, ListSessions,
     ListFails, RestoreSession, RestoreFails, ReplayOne, ReplayEnds, RestoreEnds, Handle,
     SubscriptionEnds, StoreRestarts, bus
<1> QED
  BY <1>1, <1>2, <1>3

\* Messages the registry emits.
LEMMA Emits ==
    ASSUME TypeOK, NEW m \in Message
    PROVE  Emit(m) \in Seq(Message) /\ (~linked => Emit(m) = <<>>)
BY DEF Emit, TypeOK

\* Every step keeps the types.
LEMMA NextType ==
    ASSUME TypeOK, IsFiniteSet(live), [Next]_vars
    PROVE  TypeOK'
<1> USE DEF count, bus, feed, db, restore
<1>a. \A s \in Session : /\ hist[s] \in Seq(Id) /\ chunks[s] \in Seq(Id)
                         /\ Created(s) \in Message /\ Deleted(s) \in Message
                         /\ \A x \in Id : Stored(s, x) \in Message /\ Retired(s, x) \in Message
  BY MessageTypes DEF TypeOK
<1>1. ASSUME NEW s \in Session, CreateSession(s)
      PROVE  TypeOK'
  <2>1. events' \in Seq(Message) /\ (~linked => events' = <<>>)
    BY <1>1, <1>a, Emits DEF CreateSession
  <2>2. hist' \in [Session -> Seq(Id)]
    BY <1>1 DEF CreateSession, TypeOK
  <2>3. owed' \subseteq Session \X Id
    BY <1>1 DEF CreateSession, TypeOK
  <2> QED
    BY <1>1, <2>1, <2>2, <2>3, SMTT(60) DEF CreateSession, TypeOK
<1>2. ASSUME NEW p \in Session, NEW s \in Session, ForkSession(p, s)
      PROVE  TypeOK'
  <2>1. events' \in Seq(Message) /\ (~linked => events' = <<>>)
    BY <1>2, <1>a, Emits DEF ForkSession
  <2>2. hist' \in [Session -> Seq(Id)]
    BY <1>2, <1>a DEF ForkSession, TypeOK
  <2>3. owed' \subseteq Session \X Id
    BY <1>2 DEF ForkSession, TypeOK
  <2>4. altered' \subseteq Id
    BY <1>2, <1>a DEF ForkSession, TypeOK
  <2> QED
    BY <1>2, <2>1, <2>2, <2>3, <2>4, SMTT(60) DEF ForkSession, TypeOK
<1>3. ASSUME NEW s \in Session, DeleteSession(s)
      PROVE  TypeOK'
  <2>1. events' \in Seq(Message) /\ (~linked => events' = <<>>)
    BY <1>3, <1>a, Emits DEF DeleteSession
  <2>2. hist' \in [Session -> Seq(Id)]
    BY <1>3 DEF DeleteSession, TypeOK
  <2>3. owed' \subseteq Session \X Id
    BY <1>3 DEF DeleteSession, TypeOK
  <2>4. feeds' \in Seq(Feed) /\ (feeds = <<>> => feeds' = <<>>)
    <3>1. PICK fs : fs = feeds'
      OBVIOUS
    <3>2. fs = Detached(s)
      BY <1>3, <3>1, Zenon DEF DeleteSession, Detached
    <3>3. fs \in Seq(Feed) /\ (feeds = <<>> => fs = <<>>)
      BY <3>2, Closes, Zenon
    <3> QED
      BY <3>1, <3>3, Zenon
  <2> QED
    BY <1>3, <2>1, <2>2, <2>3, <2>4 DEF DeleteSession, TypeOK
<1>4. ASSUME NEW s \in Session, NEW x \in Id, Publish(s, x)
      PROVE  TypeOK'
  <2>1. hist' \in [Session -> Seq(Id)]
    BY <1>4, <1>a DEF Publish, TypeOK
  <2>2. feeds' \in Seq(Feed) /\ (feeds = <<>> => feeds' = <<>>)
    BY <1>4, <1>a, Broadcasts DEF Publish
  <2> QED
    BY <1>4, <2>1, <2>2 DEF Publish, TypeOK
<1>5. ASSUME NEW s \in Session, NEW x \in Id, Retire(s, x)
      PROVE  TypeOK'
  <2>1. hist' \in [Session -> Seq(Id)]
    BY <1>5, <1>a, WithoutKeeps DEF Retire, TypeOK
  <2>2. feeds' \in Seq(Feed) /\ (feeds = <<>> => feeds' = <<>>)
    BY <1>5, <1>a, Broadcasts DEF Retire
  <2>3. owed' \subseteq Session \X Id /\ altered' \subseteq Id
    BY <1>5 DEF Retire, TypeOK
  <2> QED
    BY <1>5, <2>1, <2>2, <2>3 DEF Retire, TypeOK
<1>6. ASSUME BusStops
      PROVE  TypeOK'
  <2>1. hist' \in [Session -> Seq(Id)]
    BY <1>6 DEF BusStops
  <2>2. /\ events' \in Seq(Message) /\ feeds' \in Seq(Feed)
        /\ sending' \in Seq(Session \X Id)
    BY <1>6 DEF BusStops
  <2>3. ~linked' => events' = <<>> /\ feeds' = <<>>
    BY <1>6 DEF BusStops
  <2>4. /\ count' \in Nat \X Nat
        /\ UNCHANGED <<published, inbox, phase, rows, chunks, todo, current, replay, altered>>
        /\ busUp' = FALSE /\ live' = {} /\ linked' = FALSE /\ owed' = {}
    BY <1>6 DEF BusStops, TypeOK
  <2> QED
    BY <2>1, <2>2, <2>3, <2>4 DEF TypeOK
<1>7. ASSUME BusStarts
      PROVE  TypeOK'
  BY <1>7 DEF BusStarts, TypeOK
<1>8. ASSUME Listen
      PROVE  TypeOK'
  <2>1. events \in Seq(Message) /\ events # <<>>
    BY <1>8 DEF Listen, TypeOK
  <2>2. Head(events) \in Message /\ events' \in Seq(Message)
    BY <1>8, <2>1, Taking DEF Listen
  <2>3. Head(events).session \in Session
    BY <2>2, MessageTypes
  <2>4. inbox' \in Seq(Message)
    <3>1. inbox \in Seq(Message) /\ Announce(Head(events).session) \in Seq(Message)
      BY <2>3, AnnounceSays DEF TypeOK
    <3>2. /\ inbox \o Announce(Head(events).session) \in Seq(Message)
          /\ Append(inbox, Head(events)) \in Seq(Message)
      BY <2>2, <3>1
    <3> QED
      BY <1>8, <3>1, <3>2 DEF Listen
  <2>5. feeds' \in Seq(Feed)
    BY <1>8, <2>3, Attaches DEF Listen, TypeOK
  <2> QED
    BY <1>8, <2>2, <2>4, <2>5 DEF Listen, TypeOK
<1>9. ASSUME NEW k \in DOMAIN feeds, Forward(k)
      PROVE  TypeOK'
  <2>1. feeds' \in Seq(Feed) /\ Head(feeds[k].queue) \in Message
    BY <1>9, Forwards DEF Forward
  <2>2. inbox' \in Seq(Message)
    BY <1>9, <2>1 DEF Forward, TypeOK
  <2>3. linked
    <3>1. DOMAIN <<>> = {}
      OBVIOUS
    <3> QED
      BY <3>1 DEF TypeOK
  <2> QED
    BY <1>9, <2>1, <2>2, <2>3 DEF Forward, TypeOK
<1>10. ASSUME NEW k \in DOMAIN sending, Accept(k)
       PROVE  TypeOK'
  <2> DEFINE s == sending[k][1]
             x == sending[k][2]
  <2>1. sending \in Seq(Session \X Id)
    BY DEF TypeOK
  <2>2. sending' \in Seq(Session \X Id) /\ sending[k] \in Session \X Id
    BY <1>10, <2>1, Removing DEF Accept
  <2>3. s \in Session /\ x \in Id
    BY <2>2
  <2> HIDE DEF s, x
  <2>4. \/ hist' = [hist EXCEPT ![s] = Append(@, x)] /\ feeds' = Broadcast(s, Stored(s, x))
        \/ UNCHANGED <<hist, feeds>>
    BY <1>10 DEF Accept, s, x
  <2>5. hist' \in [Session -> Seq(Id)]
    <3>1. hist[s] \in Seq(Id) /\ hist \in [Session -> Seq(Id)]
      BY <2>3 DEF TypeOK
    <3>2. Append(hist[s], x) \in Seq(Id)
      BY <2>3, <3>1
    <3> QED
      BY <2>3, <2>4, <3>1, <3>2
  <2>6. feeds' \in Seq(Feed) /\ (feeds = <<>> => feeds' = <<>>)
    <3>1. Broadcast(s, Stored(s, x)) \in Seq(Feed)
      BY <2>3, <1>a, Broadcasts
    <3>2. feeds = <<>> => Broadcast(s, Stored(s, x)) = <<>>
      BY DEF Broadcast
    <3> QED
      BY <2>4, <3>1, <3>2 DEF TypeOK
  <2> QED
    BY <1>10, <2>2, <2>5, <2>6 DEF Accept, TypeOK
<1>11. ASSUME Connect
       PROVE  TypeOK'
  <2>1. PICK order \in SetToSeqs(live) :
           inbox' = Snapshot(order) /\ feeds' = [k \in DOMAIN order |-> Attached(order[k])]
    BY <1>11 DEF Connect
  <2>2. order \in Seq(Session)
    <3>1. order \in Seq(live) /\ live \subseteq Session
      BY OrderCovers DEF TypeOK
    <3> QED
      BY <3>1
  <2>3. inbox' \in Seq(Message) /\ feeds' \in Seq(Feed)
    BY <2>1, <2>2, SnapshotSays, AttachesAll
  <2>4. events' \in Seq(Message)
    BY <1>11 DEF Connect
  <2> QED
    BY <1>11, <2>3, <2>4 DEF Connect, TypeOK, Phase
<1>12. ASSUME ListSessions
       PROVE  TypeOK'
  BY <1>12 DEF ListSessions, TypeOK, Phase, Absent
<1>13. ASSUME ListFails \/ RestoreEnds \/ SubscriptionEnds
       PROVE  TypeOK'
  BY <1>13 DEF ListFails, RestoreEnds, SubscriptionEnds, TypeOK, Phase
<1>14. ASSUME NEW s \in Session, RestoreSession(s)
       PROVE  TypeOK'
  <2>1. events' \in Seq(Message) /\ (~linked => events' = <<>>)
    BY <1>14, <1>a, Emits DEF RestoreSession
  <2>2. hist' \in [Session -> Seq(Id)] /\ replay' \in Seq(Id)
    BY <1>14, <1>a DEF RestoreSession, TypeOK, LoadHistory
  <2> QED
    BY <1>14, <2>1, <2>2 DEF RestoreSession, TypeOK
<1>15. ASSUME NEW s \in Session, RestoreFails(s)
       PROVE  TypeOK'
  BY <1>15 DEF RestoreFails, TypeOK
<1>16. ASSUME ReplayOne
       PROVE  TypeOK'
  <2>1. replay \in Seq(Id) /\ replay # <<>> /\ current \in Session
    BY <1>16 DEF ReplayOne, TypeOK
  <2>2. replay' \in Seq(Id) /\ Head(replay) \in Id
    BY <1>16, <2>1, Taking DEF ReplayOne
  <2>3. sending' \in Seq(Session \X Id)
    BY <1>16, <2>1, <2>2 DEF ReplayOne, TypeOK
  <2> QED
    BY <1>16, <2>2, <2>3 DEF ReplayOne, TypeOK
<1>17. ASSUME ReplayEnds
       PROVE  TypeOK'
  <2>1. replay' \in Seq(Id)
    BY <1>17 DEF ReplayEnds
  <2>2. phase = "restore"
    BY <1>17 DEF ReplayEnds, TypeOK
  <2> QED
    BY <1>17, <2>1, <2>2 DEF ReplayEnds, TypeOK
<1>18. ASSUME Handle
       PROVE  TypeOK'
  <2> DEFINE m == Head(inbox)
  <2>1. inbox \in Seq(Message) /\ inbox # <<>>
    BY <1>18 DEF Handle, TypeOK
  <2>2. m \in Message /\ inbox' \in Seq(Message)
    BY <1>18, <2>1, Taking DEF Handle
  <2>3. m.session \in Session /\ (m.kind \in {"chunk", "delete"} => m.id \in Id)
    BY <2>2, MessageTypes
  <2> HIDE DEF m
  <2>4. rows' \subseteq Session /\ chunks' \in [Session -> Seq(Id)]
    <3>1. CASE m.kind = "created" /\ rows' = Ensured(m.session) /\ UNCHANGED chunks
      BY <3>1, <2>3 DEF Ensured, TypeOK
    <3>2. CASE m.kind = "deleted" /\ RowDeleted(m.session)
      BY <3>2, <2>3 DEF RowDeleted, TypeOK
    <3>3. CASE m.kind = "delete" /\ ChunkDeleted(m.session, m.id) /\ UNCHANGED rows
      BY <3>3, <2>3, <1>a, WithoutKeeps DEF ChunkDeleted, TypeOK
    <3>4. CASE m.kind = "chunk" /\ rows' = Ensured(m.session)
               /\ chunks' = Inserted(m.session, m.id)
      BY <3>4, <2>3, <1>a DEF Ensured, Inserted, TypeOK
    <3> QED
      BY <1>18, <3>1, <3>2, <3>3, <3>4 DEF Handle, m
  <2> QED
    BY <1>18, <2>2, <2>4 DEF Handle, TypeOK
<1>19. ASSUME StoreRestarts
       PROVE  TypeOK'
  <2>1. /\ events' \in Seq(Message) /\ feeds' \in Seq(Feed) /\ inbox' \in Seq(Message)
        /\ replay' \in Seq(Id)
    BY <1>19 DEF StoreRestarts
  <2>2. ~linked' => events' = <<>> /\ feeds' = <<>>
    BY <1>19 DEF StoreRestarts
  <2>3. /\ count' \in Nat \X Nat
        /\ UNCHANGED <<busUp, live, hist, published, rows, chunks, sending, altered>>
        /\ phase' \in Phase /\ linked' = FALSE /\ owed' = {} /\ todo' = {} /\ current' = None
    BY <1>19 DEF StoreRestarts, TypeOK, Phase
  <2> QED
    BY <2>1, <2>2, <2>3 DEF TypeOK
<1>20. ASSUME UNCHANGED vars
       PROVE  TypeOK'
  BY <1>20 DEF vars, TypeOK
<1> QED
  BY <1>1, <1>2, <1>3, <1>4, <1>5, <1>6, <1>7, <1>8, <1>9, <1>10, <1>11, <1>12, <1>13, <1>14,
     <1>15, <1>16, <1>17, <1>18, <1>19, <1>20 DEF Next, ClientStep, BusStep, StoreStep

-----------------------------------------------------------------------------
(* The tables, and what a restore owes. *)

\* Only the handling of an event writes the tables.
LEMMA SameTables == [Next]_vars => Handle \/ UNCHANGED <<rows, chunks>>
BY DEF Next, vars, ClientStep, CreateSession, ForkSession, DeleteSession, Publish, Retire,
   BusStops, BusStarts, BusStep, Listen, Forward, Accept, StoreStep, Connect, ListSessions,
   ListFails, RestoreSession, RestoreFails, ReplayOne, ReplayEnds, RestoreEnds,
   SubscriptionEnds, StoreRestarts, db

\* The message the store handles, and what it does to the tables.
LEMMA Handled ==
    ASSUME TypeOK, Handle
    PROVE  /\ Head(inbox) \in Message /\ inbox # <<>> /\ inbox' = Tail(inbox)
           /\ inbox \in Seq(Message)
           /\ UNCHANGED <<live, hist, events, feeds, linked, published, altered, sending, owed,
                          current, replay, todo, phase, busUp>>
           /\ \/ \E s \in Session : /\ Head(inbox) = Created(s)
                                    /\ rows' = rows \cup {s} /\ chunks' = chunks
              \/ \E s \in Session : /\ Head(inbox) = Deleted(s) /\ rows' = rows \ {s}
                                    /\ chunks' = [chunks EXCEPT ![s] = <<>>]
              \/ \E s \in Session, x \in Id :
                    /\ Head(inbox) = Retired(s, x) /\ rows' = rows
                    /\ chunks' = [chunks EXCEPT ![s] = Without(@, x)]
              \/ \E s \in Session, x \in Id :
                    /\ Head(inbox) = Stored(s, x) /\ rows' = rows \cup {s}
                    /\ \/ Known(x) /\ chunks' = chunks
                       \/ ~Known(x) /\ chunks' = [chunks EXCEPT ![s] = Append(@, x)]
<1> DEFINE m == Head(inbox)
<1>1. inbox \in Seq(Message) /\ inbox # <<>> /\ inbox' = Tail(inbox)
  BY DEF Handle, TypeOK
<1>2. m \in Message
  BY <1>1, Taking
<1>3. /\ m.session \in Session
      /\ m.kind = "created" => m = Created(m.session)
      /\ m.kind = "deleted" => m = Deleted(m.session)
      /\ m.kind = "chunk" => m.id \in Id /\ m = Stored(m.session, m.id)
      /\ m.kind = "delete" => m.id \in Id /\ m = Retired(m.session, m.id)
  BY <1>2, MessageTypes
<1>4. UNCHANGED <<live, hist, events, feeds, linked, published, altered, sending, owed, current,
                  replay, todo, phase, busUp>>
  BY DEF Handle, bus, feed, restore
<1>5. \/ m.kind = "created" /\ rows' = rows \cup {m.session} /\ chunks' = chunks
      \/ /\ m.kind = "deleted" /\ rows' = rows \ {m.session}
         /\ chunks' = [chunks EXCEPT ![m.session] = <<>>]
      \/ /\ m.kind = "delete" /\ rows' = rows
         /\ chunks' = [chunks EXCEPT ![m.session] = Without(@, m.id)]
      \/ /\ m.kind = "chunk" /\ rows' = rows \cup {m.session}
         /\ \/ Known(m.id) /\ chunks' = chunks
            \/ ~Known(m.id) /\ chunks' = [chunks EXCEPT ![m.session] = Append(@, m.id)]
  BY DEF Handle, Ensured, RowDeleted, ChunkDeleted, Inserted
<1> HIDE DEF m
<1>6. \/ \E s \in Session : m = Created(s) /\ rows' = rows \cup {s} /\ chunks' = chunks
      \/ \E s \in Session : /\ m = Deleted(s) /\ rows' = rows \ {s}
                            /\ chunks' = [chunks EXCEPT ![s] = <<>>]
      \/ \E s \in Session, x \in Id : /\ m = Retired(s, x) /\ rows' = rows
                                      /\ chunks' = [chunks EXCEPT ![s] = Without(@, x)]
      \/ \E s \in Session, x \in Id :
            /\ m = Stored(s, x) /\ rows' = rows \cup {s}
            /\ \/ Known(x) /\ chunks' = chunks
               \/ ~Known(x) /\ chunks' = [chunks EXCEPT ![s] = Append(@, x)]
  BY <1>3, <1>5, Zenon
<1> QED
  BY <1>1, <1>2, <1>4, <1>6 DEF m

\* What Handle leaves in the table of chunks.
LEMMA Rewritten ==
    ASSUME TypeOK, NEW s \in Session, NEW q \in Seq(Id), chunks' = [chunks EXCEPT ![s] = q]
    PROVE  chunks'[s] = q /\ \A p \in Session : p # s => chunks'[p] = chunks[p]
BY DEF TypeOK

\* Every step keeps the keys of the tables.
LEMMA NextTables ==
    ASSUME TypeOK, TablesAgree, [Next]_vars
    PROVE  TablesAgree'
<1>1. CASE UNCHANGED <<rows, chunks>>
  BY <1>1 DEF TablesAgree
<1>2. CASE Handle
  <2>0. \A s \in Session : chunks[s] \in Seq(Id)
    BY DEF TypeOK
  <2>a. /\ \A s \in Session : (chunks[s] # <<>> => s \in rows) /\ IsInjective(chunks[s])
        /\ \A s, p \in Session : s # p => ToSet(chunks[s]) \cap ToSet(chunks[p]) = {}
    BY DEF TablesAgree
  <2>1. ASSUME NEW s \in Session, rows' = rows \cup {s}, chunks' = chunks
        PROVE  TablesAgree'
    BY <2>1 DEF TablesAgree
  <2>2. ASSUME NEW s \in Session, rows' = rows \ {s}, chunks' = [chunks EXCEPT ![s] = <<>>]
        PROVE  TablesAgree'
    <3>0. <<>> \in Seq(Id)
      OBVIOUS
    <3>1. chunks'[s] = <<>> /\ \A p \in Session : p # s => chunks'[p] = chunks[p]
      BY <2>2, <3>0, Rewritten
    <3>2. IsInjective(<<>>) /\ ToSet(<<>>) = {}
      BY DEF IsInjective, ToSet
    <3>3. \A p \in Session : (chunks'[p] # <<>> => p \in rows') /\ IsInjective(chunks'[p])
      BY <2>2, <2>a, <3>1, <3>2
    <3>4. \A p, r \in Session : p # r => ToSet(chunks'[p]) \cap ToSet(chunks'[r]) = {}
      BY <2>a, <3>1, <3>2
    <3> QED
      BY <3>3, <3>4 DEF TablesAgree
  <2>3. ASSUME NEW s \in Session, NEW x \in Id, rows' = rows,
               chunks' = [chunks EXCEPT ![s] = Without(@, x)]
        PROVE  TablesAgree'
    <3>0. /\ Without(chunks[s], x) \in Seq(Id)
          /\ ToSet(Without(chunks[s], x)) \subseteq ToSet(chunks[s])
          /\ IsInjective(Without(chunks[s], x))
      BY <2>0, <2>a, WithoutKeeps
    <3>1. /\ chunks'[s] = Without(chunks[s], x)
          /\ \A p \in Session : p # s => chunks'[p] = chunks[p]
      BY <2>3, <3>0, Rewritten
    <3>2. chunks'[s] # <<>> => chunks[s] # <<>>
      <4>1. ToSet(<<>>) = {}
        BY DEF ToSet
      <4>2. chunks'[s] # <<>> => ToSet(chunks'[s]) # {}
        BY <3>0, <3>1, Taking
      <4> QED
        BY <4>1, <4>2, <3>0, <3>1
    <3>3. \A p \in Session : (chunks'[p] # <<>> => p \in rows') /\ IsInjective(chunks'[p])
      BY <2>3, <2>a, <3>0, <3>1, <3>2
    <3>4. \A p \in Session : ToSet(chunks'[p]) \subseteq ToSet(chunks[p])
      BY <3>0, <3>1
    <3>5. \A p, r \in Session : p # r => ToSet(chunks'[p]) \cap ToSet(chunks'[r]) = {}
      BY <2>a, <3>4
    <3> QED
      BY <3>3, <3>5 DEF TablesAgree
  <2>4. ASSUME NEW s \in Session, NEW x \in Id, rows' = rows \cup {s}, ~Known(x),
               chunks' = [chunks EXCEPT ![s] = Append(@, x)]
        PROVE  TablesAgree'
    <3> DEFINE q == chunks[s]
    <3>0. /\ q \in Seq(Id) /\ Append(q, x) \in Seq(Id) /\ Len(q) \in Nat
          /\ ToSet(Append(q, x)) = ToSet(q) \cup {x}
      BY <2>0, Appending
    <3>1. /\ chunks'[s] = Append(q, x)
          /\ \A p \in Session : p # s => chunks'[p] = chunks[p]
      BY <2>4, <3>0, Rewritten
    <3>2. \A p \in Session : x \notin ToSet(chunks[p])
      BY <2>4 DEF Known
    <3>3. IsInjective(Append(q, x))
      <4>1. \A i \in 1..Len(q) : q[i] # x
        BY <3>0, <3>2, Elements
      <4>2. \A i, j \in 1..Len(q) : q[i] = q[j] => i = j
        BY <2>a, <3>0 DEF IsInjective
      <4> HIDE DEF q
      <4>3. /\ \A i \in 1..Len(q) : Append(q, x)[i] = q[i]
            /\ Append(q, x)[Len(q) + 1] = x /\ DOMAIN Append(q, x) = 1..(Len(q) + 1)
        BY <3>0
      <4>4. \A i : i \in DOMAIN Append(q, x) <=> i \in 1..Len(q) \/ i = Len(q) + 1
        BY <3>0, <4>3
      <4> QED
        BY <4>1, <4>2, <4>3, <4>4 DEF IsInjective
    <3> HIDE DEF q
    <3>4. \A p \in Session : (chunks'[p] # <<>> => p \in rows') /\ IsInjective(chunks'[p])
      BY <2>4, <2>a, <3>1, <3>3
    <3>5. \A p, r \in Session : p # r => ToSet(chunks'[p]) \cap ToSet(chunks'[r]) = {}
      <4>1. ToSet(chunks'[s]) = ToSet(chunks[s]) \cup {x}
        BY <3>0, <3>1 DEF q
      <4>2. \A p \in Session : /\ ToSet(chunks'[p]) \subseteq ToSet(chunks[p]) \cup {x}
                               /\ x \in ToSet(chunks'[p]) => p = s
        BY <3>1, <3>2, <4>1
      <4> QED
        BY <2>a, <4>2
    <3> QED
      BY <3>4, <3>5 DEF TablesAgree
  <2> QED
    BY <1>2, Handled, <2>1, <2>2, <2>3, <2>4, <1>1
<1> QED
  BY <1>1, <1>2, SameTables

\* What a restore still owes is on its way, after every step.
LEMMA NextOwed ==
    ASSUME TypeOK, OwedReturns, [Next]_vars
    PROVE  OwedReturns'
<1> USE DEF count, bus, feed, db, restore
<1>a. /\ owed # {} => busUp
      /\ \A s \in Session, x \in Id : <<s, x>> \in owed => Returning(s, x)
  BY DEF OwedReturns
<1>b. \A s \in Session : hist[s] \in Seq(Id) /\ chunks[s] \in Seq(Id)
  BY DEF TypeOK
<1>c. owed \subseteq Session \X Id
  BY DEF TypeOK
<1>d. \A s \in Session : s # None
  BY NoneAssumption
\* A session that is created or deleted is owed no more; nothing changes for the others.
<1>1. ASSUME NEW s \in Session, owed' = {o \in owed : o[1] # s}, UNCHANGED busUp,
             live' \cup {s} = live \cup {s}, UNCHANGED <<phase, todo, chunks, sending, restore>>,
             \A p \in Session : p # s => hist'[p] = hist[p]
      PROVE  OwedReturns'
  <2>1. ASSUME NEW p \in Session, NEW x \in Id, <<p, x>> \in owed'
        PROVE  Returning(p, x)'
    <3>1. p # s /\ Returning(p, x)
      BY <1>a, <1>1, <2>1
    <3> QED
      BY <1>1, <3>1 DEF Returning
  <2> QED
    BY <1>a, <1>1, <2>1 DEF OwedReturns
<1>2. ASSUME NEW s \in Session, CreateSession(s) \/ DeleteSession(s)
                                   \/ \E p \in Session : ForkSession(p, s)
      PROVE  OwedReturns'
  <2>1. \A p \in Session : p # s => hist'[p] = hist[p]
    BY <1>2 DEF CreateSession, DeleteSession, ForkSession, TypeOK
  <2>2. owed' = {o \in owed : o[1] # s}
    BY <1>2 DEF CreateSession, DeleteSession, ForkSession
  <2>3. live' \cup {s} = live \cup {s} /\ UNCHANGED <<busUp, phase, todo, chunks, sending, restore>>
    BY <1>2 DEF CreateSession, DeleteSession, ForkSession
  <2> QED
    BY <1>1, <2>1, <2>2, <2>3
\* The histories keep what they have.
<1>3. ASSUME owed' \subseteq owed, UNCHANGED <<busUp, live, phase, todo, chunks, restore>>,
             \A p \in Session, y \in Id : <<p, y>> \in owed' =>
                /\ y \in ToSet(hist[p]) => y \in ToSet(hist'[p])
                /\ <<p, y>> \in ToSet(sending) /\ p \in live =>
                      <<p, y>> \in ToSet(sending') \/ y \in ToSet(hist'[p])
      PROVE  OwedReturns'
  <2>1. ASSUME NEW p \in Session, NEW y \in Id, <<p, y>> \in owed'
        PROVE  Returning(p, y)'
    <3>1. Returning(p, y)
      BY <1>a, <1>3, <2>1
    <3> QED
      BY <1>3, <2>1, <3>1 DEF Returning
  <2> QED
    BY <1>a, <1>3, <2>1 DEF OwedReturns
<1>4. ASSUME NEW s \in Session, NEW x \in Id, Publish(s, x)
      PROVE  OwedReturns'
  <2>1. \A p \in Session : hist'[p] = IF p = s THEN Append(hist[s], x) ELSE hist[p]
    BY <1>4 DEF Publish, TypeOK
  <2>2. ToSet(Append(hist[s], x)) = ToSet(hist[s]) \cup {x}
    BY <1>b, Appending
  <2>3. \A p \in Session : ToSet(hist[p]) \subseteq ToSet(hist'[p])
    BY <2>1, <2>2
  <2> QED
    BY <1>3, <1>4, <2>3 DEF Publish
<1>5. ASSUME NEW s \in Session, NEW x \in Id, Retire(s, x)
      PROVE  OwedReturns'
  <2>1. \A p \in Session : hist'[p] = IF p = s THEN Without(hist[s], x) ELSE hist[p]
    BY <1>5 DEF Retire, TypeOK
  <2>2. ToSet(Without(hist[s], x)) = ToSet(hist[s]) \ {x}
    BY <1>b, WithoutKeeps
  <2>3. owed' = owed \ {<<s, x>>}
    BY <1>5 DEF Retire
  <2>4. \A p \in Session, y \in Id : <<p, y>> \in owed' /\ y \in ToSet(hist[p]) => y \in ToSet(hist'[p])
    BY <2>1, <2>2, <2>3
  <2> QED
    BY <1>3, <1>5, <2>3, <2>4 DEF Retire
<1>6. ASSUME NEW k \in DOMAIN sending, Accept(k)
      PROVE  OwedReturns'
  <2> DEFINE s == sending[k][1]
             x == sending[k][2]
  <2>1. sending \in Seq(Session \X Id)
    BY DEF TypeOK
  <2>2. sending[k] \in Session \X Id /\ ToSet(sending) = ToSet(sending') \cup {sending[k]}
    BY <1>6, <2>1, Removing DEF Accept
  <2>3. s \in Session /\ x \in Id /\ sending[k] = <<s, x>>
    BY <2>2
  <2> HIDE DEF s, x
  <2>4. \/ s \in live /\ hist' = [hist EXCEPT ![s] = Append(@, x)]
        \/ s \notin live /\ hist' = hist
    BY <1>6 DEF Accept, s, x
  <2>5. ToSet(Append(hist[s], x)) = ToSet(hist[s]) \cup {x}
    BY <1>b, <2>3, Appending
  <2>6. CASE s \in live
    <3>1. \A p \in Session : hist'[p] = IF p = s THEN Append(hist[s], x) ELSE hist[p]
      BY <2>4, <2>6 DEF TypeOK
    <3>2. \A p \in Session : ToSet(hist[p]) \subseteq ToSet(hist'[p])
      BY <3>1, <2>5
    <3>3. x \in ToSet(hist'[s])
      BY <2>3, <2>5, <3>1
    <3>4. \A p \in Session, y \in Id : <<p, y>> \in ToSet(sending) =>
             <<p, y>> \in ToSet(sending') \/ y \in ToSet(hist'[p])
      BY <2>2, <2>3, <3>3
    <3> QED
      BY <1>3, <1>6, <3>2, <3>4 DEF Accept
  <2>7. CASE s \notin live
    <3>1. \A p \in Session, y \in Id : <<p, y>> \in ToSet(sending) /\ p \in live =>
             <<p, y>> \in ToSet(sending')
      BY <2>2, <2>3, <2>7
    <3>2. hist' = hist
      BY <2>4, <2>7
    <3> QED
      BY <1>3, <1>6, <3>1, <3>2 DEF Accept
  <2> QED
    BY <2>6, <2>7
<1>7. ASSUME BusStops \/ StoreRestarts
      PROVE  OwedReturns'
  BY <1>7 DEF BusStops, StoreRestarts, OwedReturns
<1>8. ASSUME BusStarts
      PROVE  OwedReturns'
  <2>1. owed' = {}
    BY <1>8, <1>a DEF BusStarts
  <2> QED
    BY <2>1 DEF OwedReturns
<1>9. ASSUME UNCHANGED <<owed, busUp, live, hist, sending, current, replay>>,
             UNCHANGED <<phase, todo, chunks>> \/ phase # "restore" \/ todo = {}
      PROVE  OwedReturns'
  <2>1. ASSUME NEW p \in Session, NEW y \in Id, <<p, y>> \in owed'
        PROVE  Returning(p, y)'
    <3>1. Returning(p, y)
      BY <1>a, <1>9, <2>1
    <3> QED
      BY <1>9, <3>1 DEF Returning
  <2> QED
    BY <1>a, <1>9, <2>1 DEF OwedReturns
<1>10. ASSUME \/ Listen \/ (\E k \in DOMAIN feeds : Forward(k)) \/ Connect
              \/ ListFails \/ RestoreEnds \/ SubscriptionEnds \/ Handle \/ UNCHANGED vars
       PROVE  OwedReturns'
  <2>1. UNCHANGED <<owed, busUp, live, hist, sending, current, replay>>
    BY <1>10 DEF Listen, Forward, Connect, ListFails, RestoreEnds, SubscriptionEnds, Handle, vars
  <2>2. UNCHANGED <<phase, todo, chunks>> \/ phase # "restore" \/ todo = {}
    BY <1>10 DEF Listen, Forward, Connect, ListFails, RestoreEnds, SubscriptionEnds, Handle, vars
  <2> QED
    BY <1>9, <2>1, <2>2
<1>11. ASSUME ListSessions
       PROVE  OwedReturns'
  <2>1. ASSUME NEW p \in Session, NEW y \in Id, <<p, y>> \in owed'
        PROVE  Returning(p, y)'
    BY <1>11, <2>1 DEF ListSessions, Returning, Absent
  <2> QED
    BY <1>11, <2>1 DEF ListSessions, OwedReturns
<1>12. ASSUME NEW s \in Session, RestoreSession(s)
       PROVE  OwedReturns'
  <2>1. ASSUME NEW p \in Session, NEW y \in Id, <<p, y>> \in owed'
        PROVE  Returning(p, y)'
    <3>1. Returning(p, y) /\ current = None /\ s \notin live
      BY <1>a, <1>12, <2>1 DEF RestoreSession
    <3>2. p # s => hist'[p] = hist[p]
      BY <1>12 DEF RestoreSession, TypeOK
    <3> QED
      BY <1>12, <1>d, <3>1, <3>2 DEF RestoreSession, LoadHistory, Returning
  <2> QED
    BY <1>12, <2>1 DEF RestoreSession, OwedReturns
<1>13. ASSUME NEW s \in Session, RestoreFails(s)
       PROVE  OwedReturns'
  <2>1. ASSUME NEW p \in Session, NEW y \in Id, <<p, y>> \in owed'
        PROVE  Returning(p, y)'
    <3>1. Returning(p, y) /\ (s \in live)
      BY <1>a, <1>13, <2>1 DEF RestoreFails
    <3> QED
      BY <1>13, <3>1 DEF RestoreFails, Returning
  <2> QED
    BY <1>a, <1>13, <2>1 DEF RestoreFails, OwedReturns
<1>14. ASSUME ReplayOne
       PROVE  OwedReturns'
  <2>1. replay \in Seq(Id) /\ replay # <<>> /\ current \in Session
        /\ sending \in Seq(Session \X Id)
    BY <1>14 DEF ReplayOne, TypeOK
  <2>2. ToSet(replay) = {Head(replay)} \cup ToSet(replay') /\ Head(replay) \in Id
    BY <1>14, <2>1, Taking DEF ReplayOne
  <2>3. ToSet(sending') = ToSet(sending) \cup {<<current, Head(replay)>>}
    <3>1. <<current, Head(replay)>> \in Session \X Id
      BY <2>1, <2>2
    <3>2. ToSet(Append(sending, <<current, Head(replay)>>))
             = ToSet(sending) \cup {<<current, Head(replay)>>}
      BY <2>1, <3>1, Appending
    <3> QED
      BY <1>14, <3>2 DEF ReplayOne
  <2>4. ASSUME NEW p \in Session, NEW y \in Id, <<p, y>> \in owed'
        PROVE  Returning(p, y)'
    <3>1. Returning(p, y)
      BY <1>a, <1>14, <2>4 DEF ReplayOne
    <3> QED
      BY <1>14, <2>2, <2>3, <3>1 DEF ReplayOne, Returning
  <2> QED
    BY <1>a, <1>14, <2>4 DEF ReplayOne, OwedReturns
<1>15. ASSUME ReplayEnds
       PROVE  OwedReturns'
  <2>1. ASSUME NEW p \in Session, NEW y \in Id, <<p, y>> \in owed'
        PROVE  Returning(p, y)'
    <3>1. Returning(p, y) /\ replay = <<>>
      BY <1>a, <1>15, <2>1 DEF ReplayEnds
    <3>2. ToSet(<<>>) = {}
      BY DEF ToSet
    <3> QED
      BY <1>15, <3>1, <3>2 DEF ReplayEnds, Returning
  <2> QED
    BY <1>a, <1>15, <2>1 DEF ReplayEnds, OwedReturns
<1> QED
  BY <1>2, <1>4, <1>5, <1>6, <1>7, <1>8, <1>10, <1>11, <1>12, <1>13, <1>14, <1>15
  DEF Next, ClientStep, BusStep, StoreStep

-----------------------------------------------------------------------------
(* Where the chunks are. *)

\* Empty queues hold nothing.
LEMMA Nothing ==
    /\ ToSet(<<>>) = {}
    /\ \A m : ~Waiting(<<>>, m)
    /\ \A s : ~Forwarded(<<>>, s)
BY DEF Waiting, Forwarded, ToSet

\* A registry event is the creation or the deletion of a session.
LEMMA Events ==
    ASSUME TypeOK, Channels, NEW e \in ToSet(events)
    PROVE  /\ e \in Message /\ e.session \in Session
           /\ e.kind = "created" => e = Created(e.session)
           /\ e.kind = "deleted" => e = Deleted(e.session)
           /\ e.kind \in {"created", "deleted"}
<1>1. e \in Message
  BY Elements DEF TypeOK
<1> QED
  BY <1>1, MessageTypes DEF Channels

\* What the listener does with the first event.
LEMMA Listens ==
    ASSUME TypeOK, Channels, Listen
    PROVE  \E s \in Session :
             /\ linked /\ events # <<>> /\ events' = Tail(events) /\ events \in Seq(Message)
             /\ ToSet(events) = {Head(events)} \cup ToSet(Tail(events))
             /\ UNCHANGED <<live, hist, linked, rows, chunks, published, altered, sending,
                            current, replay>>
             /\ \/ /\ Head(events) = Created(s) /\ s \in live
                   /\ inbox' = inbox \o Announce(s) /\ feeds' = Append(feeds, Attached(s))
                \/ /\ Head(events) = Created(s) /\ s \notin live
                   /\ inbox' = inbox /\ feeds' = feeds
                \/ /\ Head(events) = Deleted(s)
                   /\ inbox' = Append(inbox, Deleted(s)) /\ feeds' = feeds
<1> DEFINE e == Head(events)
<1>1. events # <<>> /\ events' = Tail(events) /\ events \in Seq(Message) /\ linked
  BY DEF Listen, TypeOK
<1>2. ToSet(events) = {e} \cup ToSet(Tail(events))
  BY <1>1, Taking
<1>3. /\ e.session \in Session
      /\ e.kind = "created" => e = Created(e.session)
      /\ e.kind = "deleted" => e = Deleted(e.session)
  BY <1>2, Events
<1>4. UNCHANGED <<live, hist, linked, rows, chunks, published, altered, sending, current, replay>>
  BY DEF Listen, bus, db, restore
<1>5. \/ /\ e.kind = "created" /\ e.session \in live
         /\ inbox' = inbox \o Announce(e.session) /\ feeds' = Append(feeds, Attached(e.session))
      \/ /\ e.kind = "created" /\ e.session \notin live /\ inbox' = inbox /\ feeds' = feeds
      \/ /\ e.kind = "deleted" /\ inbox' = Append(inbox, e) /\ feeds' = feeds
  BY DEF Listen
<1> HIDE DEF e
<1>6. \/ /\ e = Created(e.session) /\ e.session \in live
         /\ inbox' = inbox \o Announce(e.session) /\ feeds' = Append(feeds, Attached(e.session))
      \/ /\ e = Created(e.session) /\ e.session \notin live /\ inbox' = inbox /\ feeds' = feeds
      \/ /\ e = Deleted(e.session) /\ inbox' = Append(inbox, Deleted(e.session)) /\ feeds' = feeds
  BY <1>3, <1>5
<1> QED
  BY <1>1, <1>2, <1>3, <1>4, <1>6 DEF e

\* What the bus does with a chunk that a restore publishes.
LEMMA Accepts ==
    ASSUME TypeOK, NEW k \in DOMAIN sending, Accept(k)
    PROVE  \E s \in Session, x \in Id :
             /\ ToSet(sending) = ToSet(sending') \cup {<<s, x>>}
             /\ UNCHANGED <<live, linked, events, rows, chunks, inbox, published, altered, current,
                            replay>>
             /\ \/ s \in live /\ hist' = [hist EXCEPT ![s] = Append(@, x)]
                             /\ feeds' = Broadcast(s, Stored(s, x))
                \/ s \notin live /\ hist' = hist /\ feeds' = feeds
<1> DEFINE s == sending[k][1]
           x == sending[k][2]
<1>1. sending \in Seq(Session \X Id)
  BY DEF TypeOK
<1>2. sending[k] \in Session \X Id /\ ToSet(sending) = ToSet(sending') \cup {sending[k]}
  BY <1>1, Removing DEF Accept
<1>3. s \in Session /\ x \in Id /\ sending[k] = <<s, x>>
  BY <1>2
<1>4. \/ s \in live /\ hist' = [hist EXCEPT ![s] = Append(@, x)] /\ feeds' = Broadcast(s, Stored(s, x))
      \/ s \notin live /\ hist' = hist /\ feeds' = feeds
  BY DEF Accept
<1>5. UNCHANGED <<live, linked, events, rows, chunks, inbox, published, altered, current, replay>>
  BY DEF Accept, db, restore
<1> HIDE DEF s, x
<1> QED
  BY <1>2, <1>3, <1>4, <1>5

\* The history of one session changes.
LEMMA OneHistory ==
    ASSUME TypeOK, NEW s \in Session, NEW q, hist' = [hist EXCEPT ![s] = q]
    PROVE  hist'[s] = q /\ \A p \in Session : p # s => hist'[p] = hist[p]
BY DEF TypeOK

\* The chunks that are written with the announcement of a session are in its history.
LEMMA Announced ==
    ASSUME TypeOK, NEW s \in Session, NEW p
    PROVE  /\ NotGone(Announce(s), p)
           /\ \A y : Stored(p, y) \in ToSet(Announce(s)) => p = s /\ y \in ToSet(hist[s])
           /\ \A m \in ToSet(Announce(s)) : m.kind \in {"created", "chunk"}
<1>1. ASSUME NEW m \in ToSet(Announce(s))
      PROVE  m = Created(s) \/ \E x \in ToSet(hist[s]) : m = Stored(s, x)
  BY AnnounceSays
<1>2. NotGone(Announce(s), p)
  BY <1>1, Kinds DEF NotGone
<1>3. ASSUME NEW y, Stored(p, y) \in ToSet(Announce(s))
      PROVE  p = s /\ y \in ToSet(hist[s])
  <2>1. Stored(p, y) = Created(s) \/ \E x \in ToSet(hist[s]) : Stored(p, y) = Stored(s, x)
    BY <1>1, <1>3
  <2>2. PICK x \in ToSet(hist[s]) : Stored(p, y) = Stored(s, x)
    BY <2>1, Kinds
  <2>3. p = s /\ y = x
    BY <2>2, Kinds
  <2> QED
    BY <2>3
<1>4. ASSUME NEW m \in ToSet(Announce(s))
      PROVE  m.kind \in {"created", "chunk"}
  BY <1>1 DEF Created, Stored
<1> QED
  BY <1>2, <1>3, <1>4

\* Apart from a new chunk and a fork, a chunk only moves from one place to the next.
LEMMA HeldStays ==
    ASSUME TypeOK, Channels, IsFiniteSet(live), [Next]_vars, NEW p \in Session, NEW y \in Id,
           Held(p, y)'
    PROVE  \/ Held(p, y)
           \/ \E s \in Session, x \in Id : Publish(s, x) /\ p = s /\ y = x
           \/ \E parent \in Session, s \in Session :
                 ForkSession(parent, s) /\ p = s /\ y \in ToSet(hist[parent])
<1> USE DEF count, bus, feed, db, restore
<1>a. \A s \in Session : hist[s] \in Seq(Id) /\ chunks[s] \in Seq(Id)
  BY DEF TypeOK
<1>b. p # None /\ Stored(p, y) \in Message
  BY NoneAssumption, MessageTypes
<1>c. feeds \in Seq(Feed) /\ inbox \in Seq(Message)
  BY DEF TypeOK
<1>1. ASSUME y \in ToSet(hist'[p]) => y \in ToSet(hist[p]) \/ Held(p, y),
             UNCHANGED <<chunks, inbox, sending, current, replay>>,
             Waiting(feeds', Stored(p, y)) => Waiting(feeds, Stored(p, y)) \/ Held(p, y)
      PROVE  Held(p, y)
  BY <1>1 DEF Held
<1>2. ASSUME NEW s \in Session, CreateSession(s)
      PROVE  Held(p, y)
  <2>1. y \in ToSet(hist'[p]) => y \in ToSet(hist[p])
    BY <1>2, OneHistory, Nothing DEF CreateSession
  <2> QED
    BY <1>1, <1>2, <2>1 DEF CreateSession
<1>3. ASSUME NEW s \in Session, DeleteSession(s)
      PROVE  Held(p, y)
  <2>1. y \in ToSet(hist'[p]) => y \in ToSet(hist[p])
    BY <1>3, OneHistory, Nothing DEF DeleteSession
  <2>2. Waiting(feeds', Stored(p, y)) => Waiting(feeds, Stored(p, y))
    BY <1>3, Closes DEF DeleteSession, Detached
  <2> QED
    BY <1>1, <1>3, <2>1, <2>2 DEF DeleteSession
<1>4. ASSUME NEW parent \in Session, NEW s \in Session, ForkSession(parent, s)
      PROVE  Held(p, y) \/ (p = s /\ y \in ToSet(hist[parent]))
  <2>1. y \in ToSet(hist'[p]) => y \in ToSet(hist[p]) \/ (p = s /\ y \in ToSet(hist[parent]))
    BY <1>4, OneHistory DEF ForkSession
  <2> QED
    BY <1>1, <1>4, <2>1 DEF ForkSession
<1>5. ASSUME NEW s \in Session, NEW x \in Id, Publish(s, x)
      PROVE  Held(p, y) \/ (p = s /\ y = x)
  <2>1. y \in ToSet(hist'[p]) => y \in ToSet(hist[p]) \/ (p = s /\ y = x)
    BY <1>5, <1>a, OneHistory, Appending DEF Publish
  <2>2. Waiting(feeds', Stored(p, y)) => Waiting(feeds, Stored(p, y)) \/ (p = s /\ y = x)
    BY <1>5, Broadcasts, MessageTypes, Kinds DEF Publish
  <2> QED
    BY <1>1, <1>5, <2>1, <2>2 DEF Publish
<1>6. ASSUME NEW s \in Session, NEW x \in Id, Retire(s, x)
      PROVE  Held(p, y)
  <2>1. y \in ToSet(hist'[p]) => y \in ToSet(hist[p])
    BY <1>6, <1>a, OneHistory, WithoutKeeps DEF Retire
  <2>2. Waiting(feeds', Stored(p, y)) => Waiting(feeds, Stored(p, y))
    BY <1>6, Broadcasts, MessageTypes, Kinds DEF Retire
  <2> QED
    BY <1>1, <1>6, <2>1, <2>2 DEF Retire
<1>7. ASSUME BusStops
      PROVE  Held(p, y)
  BY <1>7, Nothing DEF BusStops, Held
<1>8. ASSUME \/ BusStarts \/ ListSessions \/ ListFails \/ (\E s \in Session : RestoreFails(s))
             \/ RestoreEnds \/ SubscriptionEnds \/ UNCHANGED vars
      PROVE  Held(p, y)
  <2>1. UNCHANGED <<hist, chunks, feeds, inbox, sending, current, replay>>
    BY <1>8 DEF BusStarts, ListSessions, ListFails, RestoreFails, RestoreEnds, SubscriptionEnds, vars
  <2> QED
    BY <2>1 DEF Held
<1>9. ASSUME Connect
      PROVE  Held(p, y)
  <2>1. PICK order \in SetToSeqs(live) :
           inbox' = Snapshot(order) /\ feeds' = [k \in DOMAIN order |-> Attached(order[k])]
    BY <1>9 DEF Connect
  <2>2. order \in Seq(Session)
    <3>1. order \in Seq(live) /\ live \subseteq Session
      BY OrderCovers DEF TypeOK
    <3> QED
      BY <3>1
  <2>3. ~Waiting(feeds', Stored(p, y))
    BY <2>1, <2>2, AttachesAll
  <2>4. ASSUME Stored(p, y) \in ToSet(inbox')
        PROVE  y \in ToSet(hist[p])
    <3>1. PICK k \in 1..Len(order) : Stored(p, y) \in ToSet(Announce(order[k]))
      BY <2>1, <2>2, <2>4, SnapshotSays
    <3>2. order[k] \in Session
      BY <2>2
    <3> QED
      BY <3>1, <3>2, Announced
  <2> QED
    BY <1>9, <2>3, <2>4 DEF Connect, Held
<1>10. ASSUME Listen
       PROVE  Held(p, y)
  <2>1. PICK s \in Session :
             /\ UNCHANGED <<hist, chunks, sending, current, replay>>
             /\ \/ /\ inbox' = inbox \o Announce(s) /\ feeds' = Append(feeds, Attached(s))
                \/ inbox' = inbox /\ feeds' = feeds
                \/ inbox' = Append(inbox, Deleted(s)) /\ feeds' = feeds
    BY <1>10, Listens
  <2>2. Waiting(feeds', Stored(p, y)) => Waiting(feeds, Stored(p, y))
    <3>1. Waiting(Append(feeds, Attached(s)), Stored(p, y)) => Waiting(feeds, Stored(p, y))
      BY Attaches
    <3> QED
      BY <2>1, <3>1
  <2>3. Stored(p, y) \in ToSet(inbox') => Stored(p, y) \in ToSet(inbox) \/ y \in ToSet(hist[p])
    <3>1. CASE inbox' = inbox \o Announce(s)
      <4>1. Announce(s) \in Seq(Message)
        BY AnnounceSays
      <4>2. ToSet(inbox') = ToSet(inbox) \cup ToSet(Announce(s))
        BY <3>1, <4>1, <1>c, Joining
      <4> QED
        BY <4>2, Announced
    <3>2. CASE inbox' = Append(inbox, Deleted(s))
      <4>1. ToSet(inbox') = ToSet(inbox) \cup {Deleted(s)}
        BY <3>2, <1>c, Appending, MessageTypes
      <4> QED
        BY <4>1, Kinds
    <3> QED
      BY <2>1, <3>1, <3>2
  <2> QED
    BY <2>1, <2>2, <2>3 DEF Held
<1>11. ASSUME NEW k \in DOMAIN feeds, Forward(k)
       PROVE  Held(p, y)
  <2> DEFINE m == Head(feeds[k].queue)
  <2>1. /\ Waiting(feeds', Stored(p, y)) => Waiting(feeds, Stored(p, y))
        /\ Waiting(feeds, m) /\ m \in Message
    BY <1>11, Forwards DEF Forward
  <2>2. inbox' = Append(inbox, m)
    BY <1>11 DEF Forward
  <2> HIDE DEF m
  <2>3. ToSet(inbox') = ToSet(inbox) \cup {m}
    BY <2>1, <2>2, <1>c, Appending
  <2>4. UNCHANGED <<hist, chunks, sending, current, replay>>
    BY <1>11 DEF Forward
  <2> QED
    BY <2>1, <2>3, <2>4 DEF Held
<1>12. ASSUME NEW k \in DOMAIN sending, Accept(k)
       PROVE  Held(p, y)
  <2>1. PICK s \in Session, x \in Id :
             /\ ToSet(sending) = ToSet(sending') \cup {<<s, x>>}
             /\ UNCHANGED <<chunks, inbox, current, replay>>
             /\ \/ s \in live /\ hist' = [hist EXCEPT ![s] = Append(@, x)]
                             /\ feeds' = Broadcast(s, Stored(s, x))
                \/ s \notin live /\ hist' = hist /\ feeds' = feeds
    BY <1>12, Accepts
  <2>2. y \in ToSet(hist'[p]) => y \in ToSet(hist[p]) \/ (p = s /\ y = x)
    <3>1. CASE hist' = [hist EXCEPT ![s] = Append(@, x)]
      BY <3>1, <1>a, OneHistory, Appending
    <3> QED
      BY <2>1, <3>1
  <2>3. Waiting(feeds', Stored(p, y)) => Waiting(feeds, Stored(p, y)) \/ (p = s /\ y = x)
    <3>1. /\ Stored(s, x) \in Message
          /\ Stored(p, y) = Stored(s, x) => p = s /\ y = x
      BY MessageTypes, Kinds
    <3>2. Waiting(Broadcast(s, Stored(s, x)), Stored(p, y)) =>
             Waiting(feeds, Stored(p, y)) \/ (p = s /\ y = x)
      BY <3>1, Broadcasts
    <3> QED
      BY <2>1, <3>2
  <2> QED
    BY <2>1, <2>2, <2>3 DEF Held
<1>13. ASSUME NEW s \in Session, RestoreSession(s)
       PROVE  Held(p, y)
  <2>1. y \in ToSet(hist'[p]) => y \in ToSet(hist[p])
    BY <1>13, OneHistory, Nothing DEF RestoreSession
  <2> QED
    BY <1>13, <2>1 DEF RestoreSession, LoadHistory, Held
<1>14. ASSUME ReplayOne
       PROVE  Held(p, y)
  <2>1. replay \in Seq(Id) /\ replay # <<>> /\ current \in Session
        /\ sending \in Seq(Session \X Id)
    BY <1>14 DEF ReplayOne, TypeOK
  <2>2. ToSet(replay) = {Head(replay)} \cup ToSet(replay') /\ Head(replay) \in Id
    BY <1>14, <2>1, Taking DEF ReplayOne
  <2>3. ToSet(sending') = ToSet(sending) \cup {<<current, Head(replay)>>}
    <3>1. <<current, Head(replay)>> \in Session \X Id
      BY <2>1, <2>2
    <3>2. ToSet(Append(sending, <<current, Head(replay)>>))
             = ToSet(sending) \cup {<<current, Head(replay)>>}
      BY <2>1, <3>1, Appending
    <3> QED
      BY <1>14, <3>2 DEF ReplayOne
  <2> QED
    BY <1>14, <2>2, <2>3 DEF ReplayOne, Held
<1>15. ASSUME ReplayEnds
       PROVE  Held(p, y)
  BY <1>15, Nothing DEF ReplayEnds, Held
<1>16. ASSUME Handle
       PROVE  Held(p, y)
  <2>1. ToSet(inbox) = {Head(inbox)} \cup ToSet(inbox')
    BY <1>16, Handled, Taking
  <2>2. UNCHANGED <<hist, feeds, sending, current, replay>>
    BY <1>16 DEF Handle
  <2>3. y \in ToSet(chunks'[p]) => y \in ToSet(chunks[p]) \/ Stored(p, y) = Head(inbox)
    <3>1. ASSUME NEW s \in Session, chunks' = [chunks EXCEPT ![s] = <<>>],
                 y \in ToSet(chunks'[p])
          PROVE  y \in ToSet(chunks[p])
      <4>1. <<>> \in Seq(Id)
        OBVIOUS
      <4> QED
        BY <3>1, <4>1, Rewritten, Nothing
    <3>2. ASSUME NEW s \in Session, NEW x \in Id, y \in ToSet(chunks'[p]),
                 chunks' = [chunks EXCEPT ![s] = Without(@, x)]
          PROVE  y \in ToSet(chunks[p])
      BY <3>2, <1>a, Rewritten, WithoutKeeps
    <3>3. ASSUME NEW s \in Session, NEW x \in Id, y \in ToSet(chunks'[p]),
                 chunks' = [chunks EXCEPT ![s] = Append(@, x)]
          PROVE  y \in ToSet(chunks[p]) \/ (s = p /\ x = y)
      BY <3>3, <1>a, Rewritten, Appending
    <3> QED
      BY <1>16, Handled, <3>1, <3>2, <3>3
  <2> QED
    BY <2>1, <2>2, <2>3 DEF Held
<1>17. ASSUME StoreRestarts
       PROVE  Held(p, y)
  BY <1>17, <1>b, Nothing DEF StoreRestarts, Held
<1> QED
  BY <1>2, <1>3, <1>4, <1>5, <1>6, <1>7, <1>8, <1>9, <1>10, <1>11, <1>12, <1>13, <1>14, <1>15,
     <1>16, <1>17 DEF Next, ClientStep, BusStep, StoreStep

\* What was published or altered stays so.
LEMMA SetsGrow ==
    ASSUME [Next]_vars
    PROVE  published \subseteq published' /\ altered \subseteq altered'
BY DEF Next, vars, ClientStep, CreateSession, ForkSession, DeleteSession, Publish, Retire,
   BusStops, BusStarts, BusStep, Listen, Forward, Accept, StoreStep, Connect, ListSessions,
   ListFails, RestoreSession, RestoreFails, ReplayOne, ReplayEnds, RestoreEnds, Handle,
   SubscriptionEnds, StoreRestarts

\* Every step keeps each chunk in one place on its way to the tables.
LEMMA NextOneHome ==
    ASSUME TypeOK, Channels, IsFiniteSet(live), OneHome, [Next]_vars
    PROVE  OneHome'
<1>1. ASSUME NEW p \in Session, NEW y \in Id, Held(p, y)'
      PROVE  \/ Held(p, y)
             \/ Publish(p, y)
             \/ y \in altered' /\ y \in published
  <2>1. ASSUME NEW parent \in Session, NEW s \in Session, ForkSession(parent, s),
               y \in ToSet(hist[parent])
        PROVE  y \in altered' /\ y \in published
    <3>1. y \in altered'
      BY <2>1 DEF ForkSession, ToSet
    <3>2. Held(parent, y)
      BY <2>1 DEF Held
    <3> QED
      BY <3>1, <3>2 DEF OneHome
  <2> QED
    BY <1>1, <2>1, HeldStays
<1>2. ASSUME NEW y, NEW p \in Session, Publish(p, y)
      PROVE  /\ y \in published' /\ y \notin published
             /\ \A s \in Session : Publish(s, y) => s = p
  <2>1. y \in published' /\ y \notin published
    BY <1>2 DEF Publish
  <2>2. ASSUME NEW s \in Session, Publish(s, y), s # p
        PROVE  FALSE
    <3>1. hist'[p] = Append(hist[p], y)
      BY <1>2, OneHistory DEF Publish
    <3>2. hist'[p] = hist[p]
      BY <2>2, OneHistory DEF Publish
    <3>3. Len(Append(hist[p], y)) = Len(hist[p]) + 1 /\ Len(hist[p]) \in Nat
      BY DEF TypeOK
    <3> QED
      BY <3>1, <3>2, <3>3
  <2> QED
    BY <2>1, <2>2
<1>3. ASSUME NEW p \in Session, NEW y \in Id, Held(p, y)'
      PROVE  y \in published'
  <2>1. Held(p, y) => y \in published
    BY DEF OneHome
  <2> QED
    BY <1>1, <1>2, <1>3, <2>1, SetsGrow
<1>4. ASSUME NEW p \in Session, NEW y \in Id, Held(p, y)', y \notin altered',
             NEW r \in Session, Held(r, y)'
      PROVE  r = p
  <2>1. /\ Held(p, y) \/ Publish(p, y)
        /\ Held(r, y) \/ Publish(r, y)
    BY <1>1, <1>4
  <2>2. /\ Held(p, y) => y \in published
        /\ Held(r, y) => y \in published
        /\ Held(p, y) /\ Held(r, y) => r = p
    BY <1>4, SetsGrow DEF OneHome
  <2> QED
    BY <1>2, <2>1, <2>2
<1> QED
  BY <1>3, <1>4 DEF OneHome

\* The events after a step: one more, the first one less, or none.
LEMMA NextEvents ==
    ASSUME TypeOK, Channels, [Next]_vars
    PROVE  \/ events' = events /\ live' \subseteq live
           \/ events' = <<>>
           \/ Listen
           \/ \E s \in Session : /\ linked /\ events' = Append(events, Created(s))
                                 /\ live' = live \cup {s}
           \/ \E s \in Session : /\ linked /\ events' = Append(events, Deleted(s))
                                 /\ live' = live \ {s}
<1>1. ~linked => events = <<>>
  BY DEF TypeOK
<1> QED
  BY <1>1 DEF Next, vars, ClientStep, CreateSession, ForkSession, DeleteSession, Publish, Retire,
   BusStops, BusStarts, BusStep, Forward, Accept, StoreStep, Connect, ListSessions,
   ListFails, RestoreSession, RestoreFails, ReplayOne, ReplayEnds, RestoreEnds, Handle,
   SubscriptionEnds, StoreRestarts, Emit, bus, feed

\* Every step keeps deletion before creation in the event channel.
LEMMA NextRecreated ==
    ASSUME TypeOK, Channels, DeletedThenCreated, [Next]_vars
    PROVE  DeletedThenCreated'
<1> SUFFICES ASSUME NEW p \in live' PROVE Recreated(events', p)
  BY DEF DeletedThenCreated
<1>0. events \in Seq(Message) /\ \A s \in Session : Created(s) \in Message /\ Deleted(s) \in Message
  BY MessageTypes DEF TypeOK
<1>a. p \in live => Recreated(events, p)
  BY DEF DeletedThenCreated
<1>1. CASE events' = events /\ live' \subseteq live
  BY <1>1, <1>a
<1>2. CASE events' = <<>>
  BY <1>2 DEF Recreated
<1>3. CASE Listen
  <2>1. live' = live /\ events # <<>> /\ events' = Tail(events)
    BY <1>3 DEF Listen, bus
  <2> QED
    BY <1>0, <1>a, <2>1, QueueShrinks
<1>4. ASSUME NEW s \in Session, events' = Append(events, Created(s)), live' = live \cup {s}
      PROVE  Recreated(events', p)
  <2>1. Created(s) # Deleted(p)
    BY Kinds
  <2> QED
    BY <1>0, <1>4, <1>a, <2>1, QueueGrows
<1>5. ASSUME NEW s \in Session, events' = Append(events, Deleted(s)), live' = live \ {s}
      PROVE  Recreated(events', p)
  <2>1. Deleted(s) # Deleted(p)
    BY <1>5, Kinds
  <2> QED
    BY <1>0, <1>5, <1>a, <2>1, QueueGrows
<1> QED
  BY <1>1, <1>2, <1>3, <1>4, <1>5, NextEvents

\* What may be new in the queues of the forwarders and in the inbox.
LEMMA NextChannels ==
    ASSUME TypeOK, Channels, IsFiniteSet(live), [Next]_vars
    PROVE  Channels'
<1> USE DEF count, bus, feed, db, restore
<1>0. /\ events \in Seq(Message) /\ feeds \in Seq(Feed) /\ inbox \in Seq(Message)
      /\ \A s \in Session : Created(s) \in Message /\ Deleted(s) \in Message
      /\ \A s \in Session, x \in Id : Stored(s, x) \in Message /\ Retired(s, x) \in Message
  BY MessageTypes DEF TypeOK
<1>a. altered \subseteq altered'
  BY SetsGrow
<1>b. /\ \A s : Created(s).kind = "created" /\ Deleted(s).kind = "deleted"
      /\ \A s, x : Stored(s, x).kind = "chunk" /\ Retired(s, x).kind = "delete" /\ Retired(s, x).id = x
  BY DEF Created, Deleted, Stored, Retired
<1>c. /\ \A e \in ToSet(events) : e.kind \in {"created", "deleted"}
      /\ \A m \in Message : Waiting(feeds, m) =>
            m.kind \in {"chunk", "delete"} /\ (m.kind = "delete" => m.id \in altered)
      /\ \A m \in ToSet(inbox) : m.kind = "delete" => m.id \in altered
  BY DEF Channels
<1>1. \A e \in ToSet(events') : e.kind \in {"created", "deleted"}
  <2>1. CASE events' = events
    BY <2>1, <1>c
  <2>2. CASE events' = <<>>
    BY <2>2, Nothing
  <2>3. CASE Listen
    BY <2>3, <1>c, Listens
  <2>4. ASSUME NEW s \in Session, events' = Append(events, Created(s))
        PROVE  \A e \in ToSet(events') : e.kind \in {"created", "deleted"}
    BY <2>4, <1>0, <1>b, <1>c, Appending
  <2>5. ASSUME NEW s \in Session, events' = Append(events, Deleted(s))
        PROVE  \A e \in ToSet(events') : e.kind \in {"created", "deleted"}
    BY <2>5, <1>0, <1>b, <1>c, Appending
  <2> QED
    BY <2>1, <2>2, <2>3, <2>4, <2>5, NextEvents
<1>2. ASSUME NEW m \in Message, Waiting(feeds', m)
      PROVE  m.kind \in {"chunk", "delete"} /\ (m.kind = "delete" => m.id \in altered')
  <2>0. Waiting(feeds, m) => m.kind \in {"chunk", "delete"} /\ (m.kind = "delete" => m.id \in altered')
    BY <1>a, <1>c
  <2>1. ASSUME NEW s \in Session, NEW x \in Id, feeds' = Broadcast(s, Stored(s, x))
        PROVE  Waiting(feeds, m) \/ m.kind = "chunk"
    BY <2>1, <1>0, <1>2, <1>b, Broadcasts
  <2>2. ASSUME NEW s \in Session, NEW x \in Id, Retire(s, x)
        PROVE  Waiting(feeds, m) \/ (m.kind = "delete" /\ m.id \in altered')
    <3>1. feeds' = Broadcast(s, Retired(s, x)) /\ x \in altered'
      BY <2>2 DEF Retire
    <3> QED
      BY <3>1, <1>0, <1>2, <1>b, Broadcasts
  <2>3. ASSUME NEW s \in Session, DeleteSession(s)
        PROVE  Waiting(feeds, m)
    BY <2>3, <1>2, Closes DEF DeleteSession, Detached
  <2>4. ASSUME feeds' = <<>>
        PROVE  FALSE
    BY <2>4, <1>2, Nothing
  <2>5. ASSUME Connect
        PROVE  FALSE
    <3>1. PICK order \in SetToSeqs(live) : feeds' = [k \in DOMAIN order |-> Attached(order[k])]
      BY <2>5 DEF Connect
    <3>2. order \in Seq(Session)
      <4>1. order \in Seq(live) /\ live \subseteq Session
        BY OrderCovers DEF TypeOK
      <4> QED
        BY <4>1
    <3> QED
      BY <1>2, <3>1, <3>2, AttachesAll
  <2>6. ASSUME NEW s \in Session, feeds' = Append(feeds, Attached(s))
        PROVE  Waiting(feeds, m)
    BY <2>6, <1>2, Attaches
  <2>7. ASSUME NEW k \in DOMAIN feeds, Forward(k)
        PROVE  Waiting(feeds, m)
    BY <2>7, <1>2, Forwards DEF Forward
  <2>8. ASSUME NEW k \in DOMAIN sending, Accept(k)
        PROVE  Waiting(feeds, m) \/ m.kind = "chunk"
    BY <2>8, <1>2, <2>1, Accepts
  <2>9. ASSUME Listen
        PROVE  Waiting(feeds, m)
    BY <2>9, <1>2, <2>6, Listens
  <2>10. ASSUME NEW s \in Session, NEW x \in Id, Publish(s, x)
         PROVE  Waiting(feeds, m) \/ m.kind = "chunk"
    BY <2>1, <2>10 DEF Publish
  <2>11. \/ feeds' = feeds \/ feeds' = <<>> \/ Connect \/ Listen
         \/ (\E s \in Session : DeleteSession(s))
         \/ (\E s \in Session, x \in Id : Retire(s, x) \/ Publish(s, x))
         \/ (\E k \in DOMAIN feeds : Forward(k)) \/ (\E k \in DOMAIN sending : Accept(k))
    BY DEF Next, vars, ClientStep, CreateSession, ForkSession,
       BusStops, BusStarts, BusStep, StoreStep, ListSessions,
       ListFails, RestoreSession, RestoreFails, ReplayOne, ReplayEnds, RestoreEnds, Handle,
       SubscriptionEnds, StoreRestarts
  <2> QED
    BY <1>2, <2>0, <2>2, <2>3, <2>4, <2>5, <2>7, <2>8, <2>9, <2>10, <2>11
<1>3. ASSUME NEW m \in ToSet(inbox'), m.kind = "delete"
      PROVE  m.id \in altered'
  <2>0. m \in ToSet(inbox) => m.id \in altered'
    BY <1>a, <1>c, <1>3
  <2>1. ASSUME Connect
        PROVE  FALSE
    <3>1. PICK order \in SetToSeqs(live) : inbox' = Snapshot(order)
      BY <2>1 DEF Connect
    <3>2. order \in Seq(Session)
      <4>1. order \in Seq(live) /\ live \subseteq Session
        BY OrderCovers DEF TypeOK
      <4> QED
        BY <4>1
    <3>3. PICK k \in 1..Len(order) : m \in ToSet(Announce(order[k]))
      BY <1>3, <3>1, <3>2, SnapshotSays
    <3>4. order[k] \in Session
      BY <3>2
    <3> QED
      BY <1>3, <3>3, <3>4, Announced
  <2>2. ASSUME NEW s \in Session, inbox' = inbox \o Announce(s)
        PROVE  m \in ToSet(inbox)
    <3>1. Announce(s) \in Seq(Message)
      BY AnnounceSays
    <3>2. ToSet(inbox') = ToSet(inbox) \cup ToSet(Announce(s))
      BY <2>2, <3>1, <1>0, Joining
    <3> QED
      BY <3>2, <1>3, Announced
  <2>3. ASSUME NEW s \in Session, inbox' = Append(inbox, Deleted(s))
        PROVE  m \in ToSet(inbox)
    BY <2>3, <1>0, <1>3, <1>b, Appending
  <2>4. ASSUME Listen
        PROVE  m \in ToSet(inbox)
    BY <2>2, <2>3, <2>4, <1>3, Listens
  <2>5. ASSUME NEW k \in DOMAIN feeds, Forward(k)
        PROVE  m.id \in altered'
    <3> DEFINE h == Head(feeds[k].queue)
    <3>1. Waiting(feeds, h) /\ h \in Message
      BY <2>5, Forwards DEF Forward
    <3>2. inbox' = Append(inbox, h)
      BY <2>5 DEF Forward
    <3> HIDE DEF h
    <3>3. m \in ToSet(inbox) \/ m = h
      BY <3>1, <3>2, <1>0, <1>3, Appending
    <3> QED
      BY <2>0, <3>1, <3>3, <1>3, <1>a, <1>c
  <2>6. ASSUME Handle
        PROVE  m \in ToSet(inbox)
    BY <2>6, <1>3, Handled, Taking
  <2>7. ASSUME inbox' = <<>>
        PROVE  FALSE
    BY <2>7, <1>3, Nothing
  <2>8. \/ inbox' = inbox \/ inbox' = <<>> \/ Connect \/ Listen \/ Handle
        \/ (\E k \in DOMAIN feeds : Forward(k))
    BY DEF Next, vars, ClientStep, CreateSession, ForkSession, DeleteSession, Publish, Retire,
       BusStops, BusStarts, BusStep, Accept, StoreStep, ListSessions,
       ListFails, RestoreSession, RestoreFails, ReplayOne, ReplayEnds, RestoreEnds,
       SubscriptionEnds, StoreRestarts
  <2> QED
    BY <1>3, <2>0, <2>1, <2>4, <2>5, <2>6, <2>7, <2>8
<1> QED
  BY <1>1, <1>2, <1>3 DEF Channels

-----------------------------------------------------------------------------
(* A session that is followed arrives. *)

\* In a queue that never tells the end of a session, all that is said of it lasts.
LEMMA AllLast ==
    ASSUME NEW q \in Seq(Message), NEW s, NotGone(q, s), NEW m \in ToSet(q)
    PROVE  Lasts(q, m, s)
<1>1. \A e : e \in ToSet(q) <=> \E i \in 1..Len(q) : q[i] = e
  BY Elements
<1> QED
  BY <1>1 DEF NotGone, Lasts

\* What a session that arrives needs of a step.
LEMMA KeepsArriving ==
    ASSUME NEW p \in Session, Arrives(p), altered \subseteq altered',
           Forwarded(feeds, p) => Forwarded(feeds', p),
           RowArrives(p) => RowArrives(p)',
           \A y \in ToSet(hist[p]) \ altered' : ChunkArrives(p, y) => ChunkArrives(p, y)',
           \A y \in ToSet(hist'[p]) \ altered' : y \in ToSet(hist[p]) \/ ChunkArrives(p, y)'
    PROVE  Arrives(p)'
BY DEF Arrives

\* A broadcast keeps what waits, and a chunk that it brings waits.
LEMMA BroadcastArrives ==
    ASSUME TypeOK, NEW p \in Session, Arrives(p), altered \subseteq altered',
           NEW s \in Session, NEW m \in Message, feeds' = Broadcast(s, m),
           UNCHANGED <<inbox, rows, chunks>>,
           \A y \in ToSet(hist'[p]) : y \in ToSet(hist[p]) \/ (p = s /\ m = Stored(s, y))
    PROVE  Arrives(p)'
<1>1. /\ \A e : Waiting(feeds', e) <=> Waiting(feeds, e) \/ (e = m /\ Forwarded(feeds, s))
      /\ Forwarded(feeds', p) <=> Forwarded(feeds, p)
  BY Broadcasts
<1>2. RowArrives(p) => RowArrives(p)'
  BY DEF RowArrives
<1>3. \A y \in ToSet(hist[p]) \ altered' : ChunkArrives(p, y) => ChunkArrives(p, y)'
  BY <1>1 DEF ChunkArrives
<1>4. \A y \in ToSet(hist'[p]) \ altered' : y \in ToSet(hist[p]) \/ ChunkArrives(p, y)'
  BY <1>1 DEF ChunkArrives, Arrives
<1> QED
  BY <1>1, <1>2, <1>3, <1>4, KeepsArriving

\* The store handles a message.
LEMMA HandleArrives ==
    ASSUME TypeOK, OneHome, Channels, Handle, NEW p \in Session, Arrives(p)
    PROVE  Arrives(p)'
<1> DEFINE m == Head(inbox)
<1>0. /\ m \in Message /\ inbox # <<>> /\ inbox' = Tail(inbox) /\ inbox \in Seq(Message)
      /\ m \in ToSet(inbox)
      /\ UNCHANGED <<live, hist, events, feeds, linked, published, altered, sending>>
  BY Handled, Taking
<1>a. \A s \in Session : chunks[s] \in Seq(Id)
  BY DEF TypeOK
<1>1. /\ NotGone(inbox, p) <=> NotGone(inbox', p) /\ m # Deleted(p)
      /\ \A e : Lasts(inbox, e, p) => Lasts(inbox', e, p) \/ (e = m /\ NotGone(inbox', p))
  BY <1>0, QueueShrinks
<1>2. \/ \E s \in Session : m = Created(s) /\ rows' = rows \cup {s} /\ chunks' = chunks
      \/ \E s \in Session : /\ m = Deleted(s) /\ rows' = rows \ {s}
                            /\ chunks' = [chunks EXCEPT ![s] = <<>>]
      \/ \E s \in Session, x \in Id : /\ m = Retired(s, x) /\ rows' = rows
                                      /\ chunks' = [chunks EXCEPT ![s] = Without(@, x)]
      \/ \E s \in Session, x \in Id :
            /\ m = Stored(s, x) /\ rows' = rows \cup {s}
            /\ \/ Known(x) /\ chunks' = chunks
               \/ ~Known(x) /\ chunks' = [chunks EXCEPT ![s] = Append(@, x)]
  BY Handled, Zenon
<1> HIDE DEF m
<1>3. ASSUME RowArrives(p)
      PROVE  RowArrives(p)'
  <2>1. CASE p \in rows /\ NotGone(inbox, p)
    <3>1. m # Deleted(p)
      BY <1>1, <2>1
    <3>2. p \in rows'
      BY <1>2, <2>1, <3>1
    <3> QED
      BY <1>1, <2>1, <3>2 DEF RowArrives
  <2>2. CASE m = Created(p) /\ NotGone(inbox', p)
    <3>1. p \in rows'
      BY <1>2, <2>2, Kinds
    <3> QED
      BY <2>2, <3>1 DEF RowArrives
  <2>3. CASE Lasts(inbox', Created(p), p)
    BY <2>3 DEF RowArrives
  <2> QED
    BY <1>1, <1>3, <2>1, <2>2, <2>3 DEF RowArrives
<1>4. ASSUME NEW y \in ToSet(hist[p]) \ altered, ChunkArrives(p, y)
      PROVE  ChunkArrives(p, y)'
  <2>0. y \in Id
    BY Elements DEF TypeOK
  <2>1. CASE y \in ToSet(chunks[p]) /\ m # Deleted(p) /\ NotGone(inbox', p)
    <3>1. ASSUME NEW s \in Session, m = Deleted(s), chunks' = [chunks EXCEPT ![s] = <<>>]
          PROVE  y \in ToSet(chunks'[p])
      <4>1. <<>> \in Seq(Id) /\ s # p
        BY <2>1, <3>1
      <4> QED
        BY <2>1, <3>1, <4>1, Rewritten
    <3>2. ASSUME NEW s \in Session, NEW x \in Id, m = Retired(s, x),
                 chunks' = [chunks EXCEPT ![s] = Without(@, x)]
          PROVE  y \in ToSet(chunks'[p])
      <4>1. x \in altered
        BY <1>0, <3>2 DEF Channels, Retired
      <4> QED
        BY <1>a, <2>1, <3>2, <4>1, Rewritten, WithoutKeeps
    <3>3. ASSUME NEW s \in Session, NEW x \in Id, chunks' = [chunks EXCEPT ![s] = Append(@, x)]
          PROVE  y \in ToSet(chunks'[p])
      BY <1>a, <2>1, <3>3, Rewritten, Appending
    <3>4. y \in ToSet(chunks'[p])
      BY <1>2, <2>1, <3>1, <3>2, <3>3
    <3> QED
      BY <2>1, <3>4 DEF ChunkArrives
  <2>2. CASE m = Stored(p, y) /\ NotGone(inbox', p)
    <3>1. \/ Known(y) /\ chunks' = chunks
          \/ chunks' = [chunks EXCEPT ![p] = Append(@, y)]
      <4>1. /\ \A s : m # Created(s) /\ m # Deleted(s)
            /\ \A s, x : m # Retired(s, x) /\ (m = Stored(s, x) => s = p /\ x = y)
        BY <2>2, Kinds
      <4> QED
        BY <1>2, <4>1
    <3>2. ASSUME NEW s \in Session, y \in ToSet(chunks[s])
          PROVE  s = p
      <4>1. Held(s, y) /\ Held(p, y)
        BY <1>0, <2>2, <3>2 DEF Held
      <4> QED
        BY <2>0, <4>1 DEF OneHome
    <3>3. y \in ToSet(chunks'[p])
      <4>1. CASE Known(y) /\ chunks' = chunks
        BY <4>1, <3>2 DEF Known
      <4>2. CASE chunks' = [chunks EXCEPT ![p] = Append(@, y)]
        <5>1. /\ Append(chunks[p], y) \in Seq(Id)
              /\ ToSet(Append(chunks[p], y)) = ToSet(chunks[p]) \cup {y}
          BY <1>a, <2>0, Appending
        <5> QED
          BY <4>2, <5>1, Rewritten
      <4> QED
        BY <3>1, <4>1, <4>2
    <3> QED
      BY <2>2, <3>3 DEF ChunkArrives
  <2>3. CASE Lasts(inbox', Stored(p, y), p) \/ Waiting(feeds, Stored(p, y))
    BY <1>0, <2>3 DEF ChunkArrives
  <2> QED
    BY <1>1, <1>4, <2>1, <2>2, <2>3 DEF ChunkArrives
<1> QED
  BY <1>0, <1>3, <1>4, KeepsArriving DEF Arrives

\* Every step keeps what a live session is owed arriving.
LEMMA NextFollowed ==
    ASSUME TypeOK, IsFiniteSet(live), OneHome, Channels, DeletedThenCreated, Followed,
           [Next]_vars
    PROVE  Followed'
<1> USE DEF count, bus, feed, db, restore
<1> SUFFICES ASSUME linked', NEW p \in live', Created(p) \notin ToSet(events')
             PROVE  Arrives(p)'
  BY DEF Followed
<1>0. /\ events \in Seq(Message) /\ feeds \in Seq(Feed) /\ inbox \in Seq(Message)
      /\ \A s \in Session : hist[s] \in Seq(Id)
      /\ \A s \in Session : Created(s) \in Message /\ Deleted(s) \in Message
      /\ \A s \in Session, x \in Id : Stored(s, x) \in Message /\ Retired(s, x) \in Message
      /\ live \subseteq Session
      /\ linked => busUp
  BY MessageTypes DEF TypeOK
<1>a. altered \subseteq altered'
  BY SetsGrow
<1>b. ASSUME linked, p \in live, Created(p) \notin ToSet(events)
      PROVE  Arrives(p) /\ p \in Session
  BY <1>0, <1>b DEF Followed
\* A step that leaves what is on its way as it is.
<1>1. ASSUME UNCHANGED <<inbox, rows, chunks>>, Arrives(p), p \in Session,
             \A e : Waiting(feeds', e) <=> Waiting(feeds, e),
             Forwarded(feeds, p) => Forwarded(feeds', p),
             ToSet(hist'[p]) \subseteq ToSet(hist[p])
      PROVE  Arrives(p)'
  <2>1. RowArrives(p) => RowArrives(p)'
    BY <1>1 DEF RowArrives
  <2>2. \A y : ChunkArrives(p, y) => ChunkArrives(p, y)'
    BY <1>1 DEF ChunkArrives
  <2> QED
    BY <1>1, <1>a, <2>1, <2>2, KeepsArriving
\* The registry says that s is created.
<1>2. ASSUME NEW s \in Session, events' = Emit(Created(s)), live' = live \cup {s},
             UNCHANGED <<inbox, rows, chunks, feeds, linked>>,
             \A r \in Session : r # s => hist'[r] = hist[r]
      PROVE  Arrives(p)'
  <2>1. ToSet(events') = ToSet(events) \cup {Created(s)}
    BY <1>0, <1>2, Appending DEF Emit
  <2>2. p # s /\ Arrives(p) /\ p \in Session
    BY <1>0, <1>2, <1>b, <2>1
  <2> QED
    BY <1>1, <1>2, <2>2
<1>3. ASSUME NEW s \in Session, CreateSession(s) \/ RestoreSession(s)
                                   \/ \E r \in Session : ForkSession(r, s)
      PROVE  Arrives(p)'
  <2>1. \A r \in Session : r # s => hist'[r] = hist[r]
    BY <1>3 DEF CreateSession, RestoreSession, ForkSession, TypeOK
  <2> QED
    BY <1>2, <1>3, <2>1 DEF CreateSession, RestoreSession, ForkSession
<1>4. ASSUME NEW s \in Session, DeleteSession(s)
      PROVE  Arrives(p)'
  <2>1. events' = Append(events, Deleted(s)) /\ p \in live /\ p # s /\ linked
    BY <1>4 DEF DeleteSession, Emit
  <2>2. ToSet(events') = ToSet(events) \cup {Deleted(s)}
    BY <1>0, <2>1, Appending
  <2>3. Arrives(p) /\ p \in Session
    BY <1>b, <2>1, <2>2
  <2>4. hist'[p] = hist[p]
    BY <1>4, <2>1, <2>3 DEF DeleteSession, TypeOK
  <2>5. /\ \A e : Waiting(feeds', e) <=> Waiting(feeds, e)
        /\ Forwarded(feeds, p) => Forwarded(feeds', p)
    BY <1>4, <2>1, Closes DEF DeleteSession, Detached
  <2> QED
    BY <1>1, <1>4, <2>3, <2>4, <2>5 DEF DeleteSession
<1>5. ASSUME NEW s \in Session, NEW x \in Id, Publish(s, x)
      PROVE  Arrives(p)'
  <2>1. Arrives(p) /\ p \in Session
    BY <1>5, <1>b DEF Publish
  <2>2. \A y \in ToSet(hist'[p]) : y \in ToSet(hist[p]) \/ (p = s /\ Stored(s, x) = Stored(s, y))
    BY <1>0, <1>5, <2>1, OneHistory, Appending DEF Publish
  <2> QED
    BY <1>0, <1>5, <1>a, <2>1, <2>2, BroadcastArrives DEF Publish
<1>6. ASSUME NEW s \in Session, NEW x \in Id, Retire(s, x)
      PROVE  Arrives(p)'
  <2>1. Arrives(p) /\ p \in Session
    BY <1>6, <1>b DEF Retire
  <2>2. \A y \in ToSet(hist'[p]) : y \in ToSet(hist[p])
    BY <1>0, <1>6, <2>1, OneHistory, WithoutKeeps DEF Retire
  <2> QED
    BY <1>0, <1>6, <1>a, <2>1, <2>2, BroadcastArrives DEF Retire
<1>7. ASSUME BusStops \/ StoreRestarts
      PROVE  Arrives(p)'
  BY <1>7 DEF BusStops, StoreRestarts
<1>8. ASSUME \/ BusStarts \/ ListSessions \/ ListFails \/ (\E s \in Session : RestoreFails(s))
             \/ ReplayOne \/ ReplayEnds \/ RestoreEnds \/ SubscriptionEnds \/ UNCHANGED vars
      PROVE  Arrives(p)'
  <2>1. UNCHANGED <<live, hist, rows, chunks, feeds, events, inbox, linked>>
    BY <1>8 DEF BusStarts, ListSessions, ListFails, RestoreFails, ReplayOne, ReplayEnds,
       RestoreEnds, SubscriptionEnds, vars
  <2> QED
    BY <1>1, <1>b, <2>1
<1>9. ASSUME Connect
      PROVE  Arrives(p)'
  <2>1. PICK order \in SetToSeqs(live) :
           inbox' = Snapshot(order) /\ feeds' = [k \in DOMAIN order |-> Attached(order[k])]
    BY <1>9 DEF Connect
  <2>2. order \in Seq(live) /\ ToSet(order) = live
    BY OrderCovers
  <2>3. order \in Seq(Session)
    BY <1>0, <2>2
  <2>4. p \in live /\ p \in Session /\ hist' = hist
    BY <1>0, <1>9 DEF Connect
  <2>5. Forwarded(feeds', p)
    BY <2>1, <2>2, <2>3, <2>4, AttachesAll
  <2>6. PICK k \in 1..Len(order) : order[k] = p
    BY <2>2, <2>4, Elements
  <2>7. /\ inbox' \in Seq(Message)
        /\ \A m : m \in ToSet(inbox') <=> \E i \in 1..Len(order) : m \in ToSet(Announce(order[i]))
    BY <2>1, <2>3, SnapshotSays
  <2>8. NotGone(inbox', p)
    <3>1. \A i \in 1..Len(order) : NotGone(Announce(order[i]), p)
      BY <2>3, Announced
    <3> QED
      BY <2>7, <3>1 DEF NotGone
  <2>9. /\ Created(p) \in ToSet(inbox')
        /\ \A y \in ToSet(hist[p]) : Stored(p, y) \in ToSet(inbox')
    BY <2>4, <2>6, <2>7, AnnounceSays
  <2>10. RowArrives(p)'
    BY <2>7, <2>8, <2>9, AllLast DEF RowArrives
  <2>11. \A y \in ToSet(hist'[p]) : ChunkArrives(p, y)'
    BY <2>4, <2>7, <2>8, <2>9, AllLast DEF ChunkArrives
  <2> QED
    BY <2>5, <2>10, <2>11 DEF Arrives
<1>10. ASSUME Listen
       PROVE  Arrives(p)'
  <2>1. PICK s \in Session :
             /\ linked /\ events # <<>> /\ events' = Tail(events)
             /\ ToSet(events) = {Head(events)} \cup ToSet(Tail(events))
             /\ UNCHANGED <<live, hist, linked, rows, chunks>>
             /\ \/ /\ Head(events) = Created(s) /\ s \in live
                   /\ inbox' = inbox \o Announce(s) /\ feeds' = Append(feeds, Attached(s))
                \/ /\ Head(events) = Created(s) /\ s \notin live
                   /\ inbox' = inbox /\ feeds' = feeds
                \/ /\ Head(events) = Deleted(s)
                   /\ inbox' = Append(inbox, Deleted(s)) /\ feeds' = feeds
    BY <1>10, Listens
  <2>2. p \in live /\ p \in Session
    BY <1>0, <2>1
  <2>3. Head(events) # Created(p) => Arrives(p)
    BY <1>b, <2>1, <2>2
  <2>4. CASE /\ Head(events) = Created(s) /\ s \in live
             /\ inbox' = inbox \o Announce(s) /\ feeds' = Append(feeds, Attached(s))
    <3>1. Announce(s) \in Seq(Message) /\ NotGone(Announce(s), p)
      BY AnnounceSays, Announced
    <3>2. /\ NotGone(inbox', p) <=> NotGone(inbox, p)
          /\ \A m : Lasts(inbox, m, p) => Lasts(inbox', m, p)
          /\ \A m \in ToSet(Announce(s)) : Lasts(inbox', m, p)
      BY <1>0, <2>4, <3>1, QueueJoins
    <3>3. /\ \A e : Waiting(feeds', e) <=> Waiting(feeds, e)
          /\ Forwarded(feeds', p) <=> Forwarded(feeds, p) \/ p = s
      BY <2>4, Attaches
    <3>4. CASE p = s
      <4>1. /\ Created(p) \in ToSet(Announce(s))
            /\ \A y \in ToSet(hist[p]) : Stored(p, y) \in ToSet(Announce(s))
        BY <3>4, AnnounceSays
      <4>2. RowArrives(p)'
        BY <3>2, <4>1 DEF RowArrives
      <4>3. \A y \in ToSet(hist'[p]) : ChunkArrives(p, y)'
        BY <2>1, <3>2, <4>1 DEF ChunkArrives
      <4> QED
        BY <3>3, <3>4, <4>2, <4>3 DEF Arrives
    <3>5. CASE p # s
      <4>1. Arrives(p)
        BY <2>3, <2>4, <3>5, Kinds
      <4>2. RowArrives(p) => RowArrives(p)'
        BY <2>1, <3>2 DEF RowArrives
      <4>3. \A y : ChunkArrives(p, y) => ChunkArrives(p, y)'
        BY <2>1, <3>2, <3>3 DEF ChunkArrives
      <4> QED
        BY <1>a, <2>1, <2>2, <3>3, <4>1, <4>2, <4>3, KeepsArriving
    <3> QED
      BY <3>4, <3>5
  <2>5. CASE Head(events) = Created(s) /\ s \notin live /\ inbox' = inbox /\ feeds' = feeds
    <3>1. Arrives(p)
      BY <2>2, <2>3, <2>5, Kinds
    <3> QED
      BY <1>1, <2>1, <2>2, <2>5, <3>1
  <2>6. CASE Head(events) = Deleted(s) /\ inbox' = Append(inbox, Deleted(s)) /\ feeds' = feeds
    <3>1. p # s
      <4>1. Recreated(events, p)
        BY <2>2 DEF DeletedThenCreated
      <4> QED
        BY <1>0, <2>1, <2>6, <4>1, QueueShrinks
    <3>2. Arrives(p) /\ Deleted(s) # Deleted(p)
      BY <2>3, <2>6, <3>1, Kinds
    <3>3. /\ NotGone(inbox', p) <=> NotGone(inbox, p)
          /\ \A m : Lasts(inbox, m, p) => Lasts(inbox', m, p)
      BY <1>0, <2>6, <3>2, QueueGrows
    <3>4. RowArrives(p) => RowArrives(p)'
      BY <2>1, <3>3 DEF RowArrives
    <3>5. \A y : ChunkArrives(p, y) => ChunkArrives(p, y)'
      BY <2>1, <2>6, <3>3 DEF ChunkArrives
    <3> QED
      BY <1>a, <2>1, <2>2, <2>6, <3>2, <3>4, <3>5, KeepsArriving
  <2> QED
    BY <2>1, <2>4, <2>5, <2>6
<1>11. ASSUME NEW k \in DOMAIN feeds, Forward(k)
       PROVE  Arrives(p)'
  <2> DEFINE m == Head(feeds[k].queue)
  <2>1. /\ m \in Message /\ Waiting(feeds, m)
        /\ \A e : Waiting(feeds, e) => Waiting(feeds', e) \/ e = m
        /\ Forwarded(feeds', p) <=> Forwarded(feeds, p)
    BY <1>11, Forwards DEF Forward
  <2>2. inbox' = Append(inbox, m) /\ UNCHANGED <<live, hist, events, linked, rows, chunks>>
    BY <1>11 DEF Forward
  <2> HIDE DEF m
  <2>3. m # Deleted(p)
    BY <2>1 DEF Channels, Deleted
  <2>4. Arrives(p) /\ p \in Session
    BY <1>b, <2>2
  <2>5. /\ NotGone(inbox', p) <=> NotGone(inbox, p)
        /\ \A e : Lasts(inbox, e, p) => Lasts(inbox', e, p)
        /\ Lasts(inbox', m, p)
    BY <1>0, <2>1, <2>2, <2>3, QueueGrows
  <2>6. RowArrives(p) => RowArrives(p)'
    BY <2>2, <2>5 DEF RowArrives
  <2>7. \A y : ChunkArrives(p, y) => ChunkArrives(p, y)'
    BY <2>1, <2>2, <2>5 DEF ChunkArrives
  <2> QED
    BY <1>a, <2>1, <2>2, <2>4, <2>6, <2>7, KeepsArriving
<1>12. ASSUME NEW k \in DOMAIN sending, Accept(k)
       PROVE  Arrives(p)'
  <2>1. PICK s \in Session, x \in Id :
             /\ UNCHANGED <<live, linked, events, rows, chunks, inbox>>
             /\ \/ hist' = [hist EXCEPT ![s] = Append(@, x)] /\ feeds' = Broadcast(s, Stored(s, x))
                \/ hist' = hist /\ feeds' = feeds
    BY <1>12, Accepts
  <2>2. Arrives(p) /\ p \in Session
    BY <1>b, <2>1
  <2>3. CASE hist' = [hist EXCEPT ![s] = Append(@, x)] /\ feeds' = Broadcast(s, Stored(s, x))
    <3>1. \A y \in ToSet(hist'[p]) : y \in ToSet(hist[p]) \/ (p = s /\ Stored(s, x) = Stored(s, y))
      BY <1>0, <2>2, <2>3, OneHistory, Appending
    <3> QED
      BY <1>0, <1>a, <2>1, <2>2, <2>3, <3>1, BroadcastArrives
  <2>4. CASE hist' = hist /\ feeds' = feeds
    BY <1>1, <2>1, <2>2, <2>4
  <2> QED
    BY <2>1, <2>3, <2>4
<1>13. ASSUME Handle
       PROVE  Arrives(p)'
  <2>1. Arrives(p) /\ p \in Session
    BY <1>13, <1>b, Handled
  <2> QED
    BY <1>13, <2>1, HandleArrives
<1> QED
  BY <1>3, <1>4, <1>5, <1>6, <1>7, <1>8, <1>9, <1>10, <1>11, <1>12, <1>13
  DEF Next, ClientStep, BusStep, StoreStep

-----------------------------------------------------------------------------

\* Nothing is stored, on its way or owed at the start.
LEMMA InitInv == Init => IInv
<1> SUFFICES ASSUME Init PROVE IInv
  OBVIOUS
<1>1. TypeOK /\ IsFiniteSet(live)
  BY InitType
<1>2. IsInjective(<<>>)
  BY DEF IsInjective
<1>3. \A s \in Session : hist[s] = <<>> /\ chunks[s] = <<>>
  BY DEF Init
<1>4. TablesAgree
  BY <1>2, <1>3, Nothing DEF TablesAgree
<1>5. OwedReturns /\ DeletedThenCreated /\ Followed
  BY DEF Init, OwedReturns, DeletedThenCreated, Followed
<1>6. \A s \in Session, x \in Id : ~Held(s, x)
  BY <1>3, Nothing DEF Held, Init
<1>7. OneHome
  BY <1>6 DEF OneHome
<1>8. Channels
  BY Nothing DEF Channels, Init
<1> QED
  BY <1>1, <1>4, <1>5, <1>7, <1>8 DEF IInv

\* Every step of the bus, the store and the other clients keeps the invariant: where a
\* chunk is, what the queues hold, and that what the store follows will be in its tables.
THEOREM Inductive == Spec => []IInv
<1>1. IInv /\ [Next]_vars => IInv'
  <2> SUFFICES ASSUME IInv, [Next]_vars PROVE IInv'
    OBVIOUS
  <2>1. TypeOK' /\ IsFiniteSet(live')
    BY NextType, NextFinite DEF IInv
  <2>2. TablesAgree' /\ OwedReturns'
    BY NextTables, NextOwed DEF IInv
  <2>3. OneHome' /\ Channels'
    BY NextOneHome, NextChannels DEF IInv
  <2>4. DeletedThenCreated' /\ Followed'
    BY NextRecreated, NextFollowed DEF IInv
  <2> QED
    BY <2>1, <2>2, <2>3, <2>4 DEF IInv
<1> QED
  BY InitInv, <1>1, PTL DEF Spec

\* The state of the store and of the bus has its types; a restore is under way only in
\* its phase of connect_and_run, and only a connected store has forwarders.
THEOREM TypeCorrect == Spec => []TypeOK
<1>1. IInv => TypeOK
  BY DEF IInv
<1> QED
  BY Inductive, <1>1, PTL

\* restore_from_db: once it has ended and its Publish messages are handled, every session
\* and chunk of the database that the bus did not have is back in the bus, unless it was
\* created or deleted by somebody else meanwhile, or the bus stopped.
THEOREM RestoreIsAlwaysComplete == Spec => []RestoreIsComplete
<1>1. IInv => RestoreIsComplete
  <2> SUFFICES ASSUME IInv, phase = "serve", sending = <<>>, NEW o \in owed
               PROVE  o[1] \in live /\ o[2] \in ToSet(hist[o[1]])
    BY DEF RestoreIsComplete
  <2>1. PICK s \in Session, x \in Id : o = <<s, x>>
    BY DEF IInv, TypeOK
  <2>2. Returning(s, x)
    BY <2>1 DEF IInv, OwedReturns
  <2>3. current = None /\ s # None
    BY NoneAssumption DEF IInv, TypeOK
  <2>4. s \in live /\ x \in ToSet(hist[s])
    BY <2>2, <2>3, Nothing DEF Returning
  <2> QED
    BY <2>1, <2>4
<1> QED
  BY Inductive, <1>1, PTL

\* The tables of the store: whatever is replayed, echoed, deleted and created again, a chunk
\* is stored once and under a session that has a row, and a store that has caught up
\* (nothing in the listener, the forwarders or the socket) has every session of the bus
\* and every chunk of it that was not copied or retired.
THEOREM DatabaseIsAlwaysExact == Spec => []DatabaseIsExact
<1>1. IInv => DatabaseIsExact
  <2> SUFFICES ASSUME IInv PROVE DatabaseIsExact
    OBVIOUS
  <2>1. TablesAgree
    BY DEF IInv
  <2>2. ASSUME CaughtUp, NEW s \in live
        PROVE  s \in rows /\ ToSet(hist[s]) \ altered \subseteq ToSet(chunks[s])
    <3>1. linked /\ events = <<>> /\ inbox = <<>> /\ \A k \in DOMAIN feeds : feeds[k].queue = <<>>
      BY <2>2 DEF CaughtUp
    <3>2. Arrives(s)
      BY <3>1, Nothing DEF IInv, Followed
    <3>3. \A m : ~Lasts(inbox, m, s)
      BY <3>1 DEF Lasts
    <3>4. \A m : ~Waiting(feeds, m)
      BY <3>1, Nothing DEF Waiting, ToSet
    <3>5. s \in rows
      BY <3>2, <3>3 DEF Arrives, RowArrives
    <3>6. ASSUME NEW x \in ToSet(hist[s]) \ altered
          PROVE  x \in ToSet(chunks[s])
      BY <3>2, <3>3, <3>4 DEF Arrives, ChunkArrives
    <3> QED
      BY <3>5, <3>6
  <2> QED
    BY <2>1, <2>2 DEF DatabaseIsExact
<1> QED
  BY Inductive, <1>1, PTL

=============================================================================
