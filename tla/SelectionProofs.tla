--------------------------- MODULE SelectionProofs ---------------------------
(***************************************************************************)
(* What Selected returns, for every sequence and every choice of its       *)
(* positions.  It is defined by recursion over the numbers: that the       *)
(* recursion has a solution, and what is true of it at every position, is  *)
(* shown by the least number of which it is not.                           *)
(***************************************************************************)
EXTENDS Selections, WellFoundedInduction, TLAPS

\* A set of numbers that is not empty has a least one.
LEMMA Least ==
    ASSUME NEW T, T \subseteq Nat, T # {}
    PROVE  \E m \in T : \A k \in T : m <= k
<1>1. PICK m \in T : \A k \in T : <<k, m>> \notin OpToRel(<, Nat)
  BY WFMin, NatLessThanWellFounded, Zenon
<1>2. \A k \in T : ~(k < m)
  BY <1>1, Zenon DEF OpToRel
<1> QED
  BY <1>2

\* A set of numbers with 0 and the successor of each of its members up to N.
LEMMA UpTo ==
    ASSUME NEW N \in Nat, NEW G, 0 \in G, \A n \in 1..N : n - 1 \in G => n \in G
    PROVE  \A n \in 0..N : n \in G
<1> DEFINE T == {n \in 0..N : n \notin G}
<1> SUFFICES ASSUME T # {} PROVE FALSE
  OBVIOUS
<1>0. T \subseteq Nat
  OBVIOUS
<1> HIDE DEF T
<1>1. PICK m \in T : \A k \in T : m <= k
  BY <1>0, Least
<1> USE DEF T
<1>2. m \in 1..N /\ m - 1 \notin T
  BY <1>1
<1>3. m - 1 \in G
  BY <1>2
<1> QED
  BY <1>2, <1>3

\* F takes a number and a value of T to the next value.
Steps(F, N, T) == F \in [(1..N) \X T -> T]

\* g starts with b, and its value at n is that of F at n and its value before.
Solves(g, N, T, b, F) ==
    g \in [0..N -> T] /\ g[0] = b /\ \A n \in 1..N : g[n] = F[<<n, g[n - 1]>>]

\* A function of the numbers up to N defined by recursion exists.
LEMMA Recursion ==
    ASSUME NEW N \in Nat, NEW T, NEW b \in T, NEW F, Steps(F, N, T)
    PROVE  \E g : Solves(g, N, T, b, F)
<1> USE DEF Steps, Solves
<1> DEFINE G == {m \in 0..N : \E g \in [0..m -> T] :
                    g[0] = b /\ \A n \in 1..m : g[n] = F[<<n, g[n - 1]>>]}
<1>1. 0 \in G
  <2> DEFINE g == [n \in 0..0 |-> b]
  <2>1. g \in [0..0 -> T] /\ g[0] = b /\ \A n \in 1..0 : g[n] = F[<<n, g[n - 1]>>]
    OBVIOUS
  <2> HIDE DEF g
  <2> QED
    BY <2>1
<1>2. ASSUME NEW m \in 1..N, m - 1 \in G
      PROVE  m \in G
  <2>1. PICK g \in [0..m - 1 -> T] : g[0] = b /\ \A n \in 1..m - 1 : g[n] = F[<<n, g[n - 1]>>]
    BY <1>2
  <2>2. g[m - 1] \in T
    BY <2>1
  <2>3. PICK v \in T : v = F[<<m, g[m - 1]>>]
    BY <2>2
  <2>4. PICK h : h = [n \in 0..m |-> IF n = m THEN v ELSE g[n]]
    OBVIOUS
  <2>5. h \in [0..m -> T] /\ h[0] = b /\ h[m] = v /\ \A n \in 0..m - 1 : h[n] = g[n]
    BY <2>1, <2>3, <2>4
  <2>6. ASSUME NEW n \in 1..m
        PROVE  h[n] = F[<<n, h[n - 1]>>]
    <3>1. n - 1 \in 0..m - 1 /\ h[n - 1] = g[n - 1]
      BY <2>5
    <3>2. CASE n = m
      BY <2>3, <2>5, <3>1, <3>2
    <3>3. CASE n # m
      <4>1. n \in 1..m - 1
        BY <3>3
      <4> QED
        BY <2>1, <2>5, <3>1, <4>1
    <3> QED
      BY <3>2, <3>3
  <2> QED
    BY <2>5, <2>6
<1> HIDE DEF G
<1>3. \A m \in 0..N : m \in G
  BY <1>1, <1>2, UpTo
<1>4. N \in G
  BY <1>3
<1> QED
  BY <1>4 DEF G

\* f has the elements of q at the positions of keep up to n, in their order.
Chosen(q, keep, n, f) ==
    /\ f \in Seq({q[k] : k \in 1..Len(q)})
    /\ \E at \in [1..Len(f) -> keep \cap 1..n] :
          /\ \A i \in 1..Len(f) : f[i] = q[at[i]]
          /\ \A i, j \in 1..Len(f) : i < j => at[i] < at[j]
          /\ \A k \in keep \cap 1..n : \E i \in 1..Len(f) : at[i] = k

\* The body of the recursion.
ChosenStep(q, keep, chosen, n) ==
    IF n = 0 THEN <<>>
    ELSE IF n \in keep THEN Append(chosen[n - 1], q[n]) ELSE chosen[n - 1]

\* The recursion of Selected has a solution up to every position.
LEMMA SelectionExists ==
    ASSUME NEW S, NEW q \in Seq(S), NEW keep \in SUBSET (1..Len(q))
    PROVE  \E g : g = [n \in 0..Len(q) |-> ChosenStep(q, keep, g, n)]
<1> DEFINE G == {m \in 0..Len(q) : \E g : g = [n \in 0..m |-> ChosenStep(q, keep, g, n)]}
<1>1. 0 \in G
  <2> DEFINE g == [n \in 0..0 |-> <<>>]
  <2>1. g = [n \in 0..0 |-> ChosenStep(q, keep, g, n)]
    BY DEF ChosenStep
  <2> QED
    BY <2>1
<1>2. ASSUME NEW m \in 1..Len(q), m - 1 \in G
      PROVE  m \in G
  <2>1. PICK g : g = [n \in 0..m - 1 |-> ChosenStep(q, keep, g, n)]
    BY <1>2
  <2> DEFINE h == [n \in 0..m |-> IF n = m THEN ChosenStep(q, keep, g, n) ELSE g[n]]
  <2>2. \A n \in 0..m : h[n] = ChosenStep(q, keep, h, n)
    <3> SUFFICES ASSUME NEW n \in 0..m PROVE h[n] = ChosenStep(q, keep, h, n)
      OBVIOUS
    <3>1. n # 0 => n - 1 \in 0..m - 1 /\ h[n - 1] = g[n - 1]
      OBVIOUS
    <3>2. ChosenStep(q, keep, h, n) = ChosenStep(q, keep, g, n)
      BY <3>1 DEF ChosenStep
    <3>3. n # m => g[n] = ChosenStep(q, keep, g, n)
      BY <2>1
    <3> QED
      BY <3>2, <3>3
  <2>3. h = [n \in 0..m |-> ChosenStep(q, keep, h, n)]
    BY <2>2
  <2> HIDE DEF h
  <2>4. \E f : f = [n \in 0..m |-> ChosenStep(q, keep, f, n)]
    BY <2>3
  <2> QED
    BY <2>4
<1> HIDE DEF G
<1>3. Len(q) \in Nat
  OBVIOUS
<1>4. \A m \in 1..Len(q) : m - 1 \in G => m \in G
  BY <1>2
<1>5. \A m \in 0..Len(q) : m \in G
  BY <1>1, <1>3, <1>4, UpTo
<1>6. Len(q) \in G
  BY <1>3, <1>5
<1> QED
  BY <1>6 DEF G

\* Selected goes from one position to the next.
LEMMA SelectedIs ==
    ASSUME NEW S, NEW q \in Seq(S), NEW keep \in SUBSET (1..Len(q))
    PROVE  \E chosen :
              /\ chosen[0] = <<>>
              /\ \A n \in 1..Len(q) :
                    chosen[n] = IF n \in keep THEN Append(chosen[n - 1], q[n]) ELSE chosen[n - 1]
              /\ Selected(q, keep) = chosen[Len(q)]
<1> DEFINE chosen == CHOOSE g : g = [n \in 0..Len(q) |-> ChosenStep(q, keep, g, n)]
<1>1. chosen = [n \in 0..Len(q) |-> ChosenStep(q, keep, chosen, n)]
  BY SelectionExists
<1>2. Selected(q, keep) = chosen[Len(q)]
  BY DEF Selected, ChosenStep
<1> HIDE DEF chosen
<1>a. \A n \in 0..Len(q) : chosen[n] = ChosenStep(q, keep, chosen, n)
  BY <1>1, Zenon
<1>3. /\ chosen[0] = <<>>
      /\ \A n \in 1..Len(q) :
            chosen[n] = IF n \in keep THEN Append(chosen[n - 1], q[n]) ELSE chosen[n - 1]
  <2>1. Len(q) \in Nat
    OBVIOUS
  <2>2. chosen[0] = <<>>
    BY <1>a, <2>1 DEF ChosenStep
  <2>3. ASSUME NEW n \in 1..Len(q)
        PROVE  chosen[n] = IF n \in keep THEN Append(chosen[n - 1], q[n]) ELSE chosen[n - 1]
    <3>1. n \in 0..Len(q) /\ n # 0
      BY <2>1
    <3>2. chosen[n] = ChosenStep(q, keep, chosen, n)
      BY <1>a, <3>1
    <3> QED
      BY <3>1, <3>2 DEF ChosenStep
  <2> QED
    BY <2>2, <2>3
<1> QED
  BY <1>2, <1>3

\* What Selected returns: the chosen elements, in their order and no others.
THEOREM Selection ==
    ASSUME NEW S, NEW q \in Seq(S), NEW keep \in SUBSET (1..Len(q))
    PROVE  Chosen(q, keep, Len(q), Selected(q, keep))
<1>1. PICK chosen : /\ chosen[0] = <<>>
                    /\ \A n \in 1..Len(q) :
                          chosen[n] = IF n \in keep THEN Append(chosen[n - 1], q[n]) ELSE chosen[n - 1]
                    /\ Selected(q, keep) = chosen[Len(q)]
  BY SelectedIs
<1>2. Selected(q, keep) = chosen[Len(q)]
  BY <1>1
<1>3. /\ chosen[0] = <<>>
      /\ \A n \in 1..Len(q) :
            chosen[n] = IF n \in keep THEN Append(chosen[n - 1], q[n]) ELSE chosen[n - 1]
  BY <1>1
<1> DEFINE G == {n \in 0..Len(q) : Chosen(q, keep, n, chosen[n])}
<1>4. 0 \in G
  <2> DEFINE at == [i \in 1..Len(<<>>) |-> 0]
  <2>1. at \in [1..Len(<<>>) -> keep \cap 1..0]
    OBVIOUS
  <2> HIDE DEF at
  <2>2. Chosen(q, keep, 0, <<>>)
    <3>1. <<>> \in Seq({q[k] : k \in 1..Len(q)}) /\ 1..Len(<<>>) = {} /\ 1..0 = {}
      OBVIOUS
    <3> QED
      BY <2>1, <3>1 DEF Chosen
  <2> QED
    BY <2>2, <1>3
<1>5. ASSUME NEW n \in 1..Len(q), n - 1 \in G
      PROVE  n \in G
  <2>1. Chosen(q, keep, n - 1, chosen[n - 1])
    BY <1>5
  <2>2. CASE n \notin keep
    <3>1. chosen[n] = chosen[n - 1] /\ keep \cap 1..n = keep \cap 1..n - 1
      BY <1>3, <2>2
    <3>0. Chosen(q, keep, n - 1, chosen[n])
      BY <2>1, <3>1
    <3>2. PICK at \in [1..Len(chosen[n]) -> keep \cap 1..n - 1] :
             /\ \A i \in 1..Len(chosen[n]) : chosen[n][i] = q[at[i]]
             /\ \A i, j \in 1..Len(chosen[n]) : i < j => at[i] < at[j]
             /\ \A k \in keep \cap 1..n - 1 : \E i \in 1..Len(chosen[n]) : at[i] = k
      BY <3>0, Zenon DEF Chosen
    <3>3. chosen[n] \in Seq({q[k] : k \in 1..Len(q)})
      BY <3>0 DEF Chosen
    <3>4. Chosen(q, keep, n, chosen[n])
      BY <3>1, <3>2, <3>3 DEF Chosen
    <3> QED
      BY <3>4
  <2>3. CASE n \in keep
    <3> DEFINE f == chosen[n - 1]
    <3>1. chosen[n] = Append(f, q[n])
      BY <1>3, <2>3
    <3>2. PICK at \in [1..Len(f) -> keep \cap 1..n - 1] :
             /\ \A i \in 1..Len(f) : f[i] = q[at[i]]
             /\ \A i, j \in 1..Len(f) : i < j => at[i] < at[j]
             /\ \A k \in keep \cap 1..n - 1 : \E i \in 1..Len(f) : at[i] = k
      BY <2>1 DEF Chosen
    <3>3. f \in Seq({q[k] : k \in 1..Len(q)})
      BY <2>1 DEF Chosen
    <3> HIDE DEF f
    <3> DEFINE e == [i \in 1..Len(f) + 1 |-> IF i = Len(f) + 1 THEN n ELSE at[i]]
               h == Append(f, q[n])
    <3>4. h \in Seq({q[k] : k \in 1..Len(q)}) /\ Len(h) = Len(f) + 1 /\ Len(f) \in Nat
      BY <3>3
    <3>a. /\ \A i \in 1..Len(f) : h[i] = f[i] /\ e[i] = at[i]
          /\ h[Len(f) + 1] = q[n] /\ e[Len(f) + 1] = n
      BY <3>3
    <3>5. e \in [1..Len(h) -> keep \cap 1..n]
      BY <3>2, <3>4, <2>3
    <3> HIDE DEF e, h
    <3>b. \A i \in 1..Len(h) : i \in 1..Len(f) \/ i = Len(f) + 1
      BY <3>4
    <3>c. \A i \in 1..Len(f) : i \in 1..Len(h)
      BY <3>4
    <3>6. \A i \in 1..Len(h) : h[i] = q[e[i]]
      BY <3>2, <3>b, <3>a
    <3>7. \A i, j \in 1..Len(h) : i < j => e[i] < e[j]
      <4> SUFFICES ASSUME NEW i \in 1..Len(h), NEW j \in 1..Len(h), i < j PROVE e[i] < e[j]
        OBVIOUS
      <4>a. i \in 1..Len(f)
        BY <3>b, <3>4
      <4>1. i \in 1..Len(f) /\ at[i] \in 1..n - 1
        BY <4>a, <3>2
      <4>2. CASE j = Len(f) + 1
        BY <4>1, <4>2, <3>a
      <4>3. CASE j \in 1..Len(f)
        BY <4>1, <4>3, <3>2, <3>a
      <4> QED
        BY <4>2, <4>3, <3>b
    <3>8. \A k \in keep \cap 1..n : \E i \in 1..Len(h) : e[i] = k
      <4> SUFFICES ASSUME NEW k \in keep \cap 1..n PROVE \E i \in 1..Len(h) : e[i] = k
        OBVIOUS
      <4>1. CASE k = n
        BY <4>1, <3>4, <3>a
      <4>2. CASE k # n
        <5>1. PICK i \in 1..Len(f) : at[i] = k
          BY <4>2, <3>2
        <5> QED
          BY <5>1, <3>c, <3>a
      <4> QED
        BY <4>1, <4>2
    <3>9. Chosen(q, keep, n, h)
      BY <3>4, <3>5, <3>6, <3>7, <3>8 DEF Chosen
    <3>10. chosen[n] = h
      BY <3>1 DEF f, h
    <3> QED
      BY <3>9, <3>10
  <2> QED
    BY <2>2, <2>3
<1>6. Len(q) \in Nat
  OBVIOUS
<1> HIDE DEF G
<1>7. \A n \in 1..Len(q) : n - 1 \in G => n \in G
  BY <1>5
<1>8. \A n \in 0..Len(q) : n \in G
  BY <1>4, <1>6, <1>7, UpTo
<1>9. Len(q) \in G
  BY <1>6, <1>8
<1> QED
  BY <1>9, <1>2 DEF G

==============================================================================
