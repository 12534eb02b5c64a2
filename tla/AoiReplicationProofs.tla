------------------------ MODULE AoiReplicationProofs ------------------------
(***************************************************************************)
(* Proofs about AoiReplication, for any entities, positions, remote        *)
(* workers and bounds: what a remote worker shows of the owner's entities  *)
(* is what the owner applied, up to the events still on their way, and it  *)
(* never goes back to a state it has left.                                 *)
(***************************************************************************)
EXTENDS AoiReplication, FiniteSetTheorems, SequenceTheorems, WellFoundedInduction, TLAPS

-----------------------------------------------------------------------------
(* Induction, and functions defined by recursion.                          *)

\* Induction on the naturals, for a set.
LEMMA NatSetInduction ==
    ASSUME NEW T \in SUBSET Nat, 0 \in T, \A n \in T : n + 1 \in T
    PROVE  T = Nat
<1> SUFFICES ASSUME Nat \ T # {} PROVE FALSE
  OBVIOUS
<1> DEFINE R == OpToRel(<, Nat)
<1>1. IsWellFoundedOn(R, Nat)
  BY NatLessThanWellFounded
<1>2. PICK x \in Nat \ T : \A y \in Nat \ T : ~ (<<y, x>> \in R)
  <2> HIDE DEF R
  <2> QED BY <1>1, WFMin
<1>3. \A y \in Nat : y < x => <<y, x>> \in R
  BY DEF OpToRel
<1> HIDE DEF R
<1>4. x # 0 /\ x - 1 \in Nat /\ (x - 1) + 1 = x /\ x - 1 < x
  OBVIOUS
<1>5. x - 1 \notin Nat \ T
  BY <1>2, <1>3, <1>4
<1> QED
  BY <1>2, <1>4, <1>5

\* g follows the steps T[1], ... T[m].
Steps(T, g, m) == \A n \in 1..m : g[n] = T[n][g[n - 1]]

\* A recursion over the first m numbers has a solution.
LEMMA RecursionExists ==
    ASSUME NEW X, NEW x0 \in X, NEW N \in Nat, NEW T \in [1..N -> [X -> X]]
    PROVE  \E g \in [0..N -> X] : g[0] = x0 /\ Steps(T, g, N)
<1> DEFINE Good(m) == m <= N => \E g \in [0..m -> X] : g[0] = x0 /\ Steps(T, g, m)
           S == {m \in Nat : Good(m)}
<1>1. 0 \in S
  <2>1. [i \in 0..0 |-> x0] \in [0..0 -> X] /\ [i \in 0..0 |-> x0][0] = x0
    OBVIOUS
  <2>2. Steps(T, [i \in 0..0 |-> x0], 0)
    BY DEF Steps
  <2> QED
    BY <2>1, <2>2
<1>2. ASSUME NEW m \in S PROVE m + 1 \in S
  <2> SUFFICES ASSUME m + 1 <= N
               PROVE \E h \in [0..(m + 1) -> X] : h[0] = x0 /\ Steps(T, h, m + 1)
    OBVIOUS
  <2>1. m \in Nat /\ m <= N /\ Good(m)
    OBVIOUS
  <2>2. PICK g \in [0..m -> X] : g[0] = x0 /\ Steps(T, g, m)
    BY <2>1
  <2> HIDE DEF Good, S
  <2> DEFINE h == [i \in 0..(m + 1) |-> IF i <= m THEN g[i] ELSE T[m + 1][g[m]]]
  <2>3. m + 1 \in 1..N /\ m \in 0..m
    BY <2>1
  <2>4. T[m + 1][g[m]] \in X
    BY <2>3
  <2>5. h \in [0..(m + 1) -> X]
    BY <2>1, <2>4
  <2>6. h[0] = x0
    BY <2>1, <2>2
  <2>7. ASSUME NEW n \in 1..(m + 1) PROVE h[n] = T[n][h[n - 1]]
    <3>1. n - 1 \in 0..m /\ n - 1 <= m /\ n \in 0..(m + 1) /\ n - 1 \in 0..(m + 1)
      BY <2>1
    <3>2. h[n - 1] = g[n - 1]
      BY <3>1
    <3>3. CASE n <= m
      <4>1. n \in 1..m /\ h[n] = g[n]
        BY <2>1, <3>1, <3>3
      <4> HIDE DEF h
      <4> QED
        BY <2>2, <3>2, <4>1 DEF Steps
    <3>4. CASE ~ (n <= m)
      <4>1. n = m + 1 /\ n - 1 = m
        BY <2>1, <3>4
      <4>2. h[n] = T[m + 1][g[m]]
        BY <3>1, <3>4
      <4> HIDE DEF h
      <4> QED
        BY <3>2, <4>1, <4>2
    <3> QED
      BY <3>3, <3>4
  <2> HIDE DEF h
  <2> QED
    BY <2>5, <2>6, <2>7 DEF Steps
<1>3. S = Nat
  <2> HIDE DEF Good
  <2>1. S \in SUBSET Nat
    OBVIOUS
  <2> HIDE DEF S
  <2> QED
    BY <1>1, <1>2, <2>1, NatSetInduction
<1>4. N \in S
  BY <1>3
<1> QED
  BY <1>4

\* Two solutions of one recursion agree as far as both go.
LEMMA RecursionAgrees ==
    ASSUME NEW T, NEW U, NEW g, NEW h, NEW m \in Nat, g[0] = h[0], Steps(T, g, m), Steps(U, h, m),
           \A n \in 1..m : T[n] = U[n]
    PROVE  \A n \in 0..m : g[n] = h[n]
<1> DEFINE S == {n \in Nat : n <= m => g[n] = h[n]}
<1>1. 0 \in S
  OBVIOUS
<1>2. ASSUME NEW n \in S PROVE n + 1 \in S
  <2> SUFFICES ASSUME n + 1 <= m PROVE g[n + 1] = h[n + 1]
    OBVIOUS
  <2>1. n + 1 \in 1..m /\ (n + 1) - 1 = n /\ n <= m
    OBVIOUS
  <2>2. g[n] = h[n]
    BY <2>1
  <2> HIDE DEF S
  <2>3. g[n + 1] = T[n + 1][g[n]] /\ h[n + 1] = U[n + 1][h[n]]
    BY <2>1 DEF Steps
  <2> QED
    BY <2>1, <2>2, <2>3
<1>3. S = Nat
  <2>1. S \in SUBSET Nat
    OBVIOUS
  <2> HIDE DEF S
  <2> QED
    BY <1>1, <1>2, <2>1, NatSetInduction
<1> QED
  BY <1>3

ChosenSteps(X, s, K) == [n \in 1..Len(s) |-> [x \in Seq(X) |-> IF n \in K THEN Append(x, s[n]) ELSE x]]
ChosenRecurs(s, K, g) ==
    g = [n \in 0..Len(s) |-> IF n = 0 THEN <<>> ELSE IF n \in K THEN Append(g[n - 1], s[n]) ELSE g[n - 1]]

\* The recursion of Chosen, as steps.
LEMMA ChosenRecursSteps ==
    ASSUME NEW X, NEW s \in Seq(X), NEW K, NEW g, ChosenRecurs(s, K, g)
    PROVE  /\ g[0] = <<>> /\ \A n \in 0..Len(s) : g[n] \in Seq(X)
           /\ Steps(ChosenSteps(X, s, K), g, Len(s))
<1> DEFINE f == [n \in 0..Len(s) |-> IF n = 0 THEN <<>> ELSE IF n \in K THEN Append(g[n - 1], s[n]) ELSE g[n - 1]]
<1>1. g = f
  BY DEF ChosenRecurs
<1>2. f[0] = <<>> /\ \A n \in 1..Len(s) : f[n] = IF n \in K THEN Append(g[n - 1], s[n]) ELSE g[n - 1]
  OBVIOUS
<1> HIDE DEF f
<1>3. g[0] = <<>> /\ \A n \in 1..Len(s) : g[n] = IF n \in K THEN Append(g[n - 1], s[n]) ELSE g[n - 1]
  BY <1>1, <1>2
<1> DEFINE S == {n \in Nat : n <= Len(s) => g[n] \in Seq(X)}
<1>4. 0 \in S
  <2>1. <<>> \in Seq(X)
    OBVIOUS
  <2>2. g[0] \in Seq(X)
    BY <1>3, <2>1
  <2> QED
    BY <2>2
<1>5. ASSUME NEW n \in S PROVE n + 1 \in S
  <2> SUFFICES ASSUME n + 1 <= Len(s) PROVE g[n + 1] \in Seq(X)
    OBVIOUS
  <2>1. n + 1 \in 1..Len(s) /\ (n + 1) - 1 = n /\ n <= Len(s) /\ n \in Nat /\ Len(s) \in Nat
    OBVIOUS
  <2>2. g[n] \in Seq(X) /\ s[n + 1] \in X
    BY <2>1, ElementOfSeq
  <2>3. g[n + 1] = IF n + 1 \in K THEN Append(g[n], s[n + 1]) ELSE g[n]
    BY <1>3, <2>1
  <2>4. Append(g[n], s[n + 1]) \in Seq(X)
    BY <2>2, AppendProperties
  <2> QED
    BY <2>2, <2>3, <2>4
<1>6. S = Nat
  <2>1. S \in SUBSET Nat
    OBVIOUS
  <2> HIDE DEF S
  <2> QED
    BY <1>4, <1>5, <2>1, NatSetInduction
<1>7. \A n \in 0..Len(s) : g[n] \in Seq(X)
  BY <1>6
<1>8. ASSUME NEW n \in 1..Len(s) PROVE g[n] = ChosenSteps(X, s, K)[n][g[n - 1]]
  <2>1. n - 1 \in 0..Len(s)
    OBVIOUS
  <2>2. g[n - 1] \in Seq(X)
    BY <1>7, <2>1
  <2>3. ChosenSteps(X, s, K)[n] = [x \in Seq(X) |-> IF n \in K THEN Append(x, s[n]) ELSE x]
    BY DEF ChosenSteps
  <2>4. ChosenSteps(X, s, K)[n][g[n - 1]] = IF n \in K THEN Append(g[n - 1], s[n]) ELSE g[n - 1]
    BY <2>2, <2>3
  <2> QED
    BY <1>3, <2>4
<1> QED
  BY <1>3, <1>7, <1>8 DEF Steps

\* What Chosen is: the last value of the recursion.
LEMMA ChosenAre ==
    ASSUME NEW X, NEW s \in Seq(X), NEW K
    PROVE  \E g : /\ g[0] = <<>> /\ \A n \in 0..Len(s) : g[n] \in Seq(X)
                  /\ Steps(ChosenSteps(X, s, K), g, Len(s)) /\ Chosen(s, K) = g[Len(s)]
<1>1. Len(s) \in Nat
  OBVIOUS
<1>2. ChosenSteps(X, s, K) \in [1..Len(s) -> [Seq(X) -> Seq(X)]]
  <2> SUFFICES ASSUME NEW n \in 1..Len(s), NEW x \in Seq(X) PROVE Append(x, s[n]) \in Seq(X)
    BY DEF ChosenSteps
  <2>1. s[n] \in X
    BY ElementOfSeq
  <2> QED
    BY <2>1, AppendProperties
<1>3. <<>> \in Seq(X)
  OBVIOUS
<1>4. \E h \in [0..Len(s) -> Seq(X)] : h[0] = <<>> /\ Steps(ChosenSteps(X, s, K), h, Len(s))
  BY <1>1, <1>2, <1>3, RecursionExists
<1>5. PICK h \in [0..Len(s) -> Seq(X)] : h[0] = <<>> /\ Steps(ChosenSteps(X, s, K), h, Len(s))
  BY <1>4
<1> DEFINE f == [n \in 0..Len(s) |-> IF n = 0 THEN <<>> ELSE IF n \in K THEN Append(h[n - 1], s[n]) ELSE h[n - 1]]
<1>6. ASSUME NEW n \in 0..Len(s) PROVE f[n] = h[n]
  <2>1. CASE n = 0
    BY <1>5, <2>1
  <2>2. CASE n # 0
    <3>1. n \in 1..Len(s) /\ n - 1 \in 0..Len(s)
      BY <1>1, <2>2
    <3>2. h[n - 1] \in Seq(X)
      BY <3>1
    <3>3. f[n] = IF n \in K THEN Append(h[n - 1], s[n]) ELSE h[n - 1]
      BY <2>2
    <3> HIDE DEF f
    <3>4. ChosenSteps(X, s, K)[n] = [x \in Seq(X) |-> IF n \in K THEN Append(x, s[n]) ELSE x]
      BY <3>1 DEF ChosenSteps
    <3>5. ChosenSteps(X, s, K)[n][h[n - 1]] = IF n \in K THEN Append(h[n - 1], s[n]) ELSE h[n - 1]
      BY <3>2, <3>4
    <3> QED
      BY <1>5, <3>1, <3>3, <3>5 DEF Steps
  <2> QED
    BY <2>1, <2>2
<1>7. DOMAIN f = 0..Len(s) /\ f = [n \in 0..Len(s) |-> f[n]] /\ h = [n \in 0..Len(s) |-> h[n]]
  OBVIOUS
<1>8. ChosenRecurs(s, K, h)
  <2> HIDE DEF f
  <2>1. h = f
    BY <1>6, <1>7
  <2> QED
    BY <2>1 DEF ChosenRecurs, f
<1> DEFINE g == CHOOSE k : ChosenRecurs(s, K, k)
<1>9. ChosenRecurs(s, K, g)
  <2> HIDE DEF f
  <2> QED BY <1>8
<1>10. Chosen(s, K) = g[Len(s)]
  BY Zenon DEF Chosen, ChosenRecurs
<1> HIDE DEF g, f
<1>11. /\ g[0] = <<>> /\ \A n \in 0..Len(s) : g[n] \in Seq(X)
       /\ Steps(ChosenSteps(X, s, K), g, Len(s))
  BY <1>9, ChosenRecursSteps
<1> QED
  BY <1>10, <1>11

\* The entries of a longer sequence.
LEMMA ChosenGrow ==
    ASSUME NEW X, NEW s \in Seq(X), NEW y \in X, NEW K
    PROVE  Chosen(Append(s, y), K) = IF Len(s) + 1 \in K THEN Append(Chosen(s, K), y) ELSE Chosen(s, K)
<1> DEFINE t == Append(s, y)
<1>1. t \in Seq(X) /\ Len(t) = Len(s) + 1 /\ Len(s) \in Nat /\ t[Len(s) + 1] = y /\ \A n \in 1..Len(s) : t[n] = s[n]
  BY AppendProperties
<1> HIDE DEF t
<1>2. PICK g : /\ g[0] = <<>> /\ \A n \in 0..Len(s) : g[n] \in Seq(X)
               /\ Steps(ChosenSteps(X, s, K), g, Len(s)) /\ Chosen(s, K) = g[Len(s)]
  BY ChosenAre
<1>3. PICK h : /\ h[0] = <<>> /\ \A n \in 0..Len(t) : h[n] \in Seq(X)
               /\ Steps(ChosenSteps(X, t, K), h, Len(t)) /\ Chosen(t, K) = h[Len(t)]
  BY <1>1, ChosenAre
<1>4. \A n \in 1..Len(s) : ChosenSteps(X, s, K)[n] = ChosenSteps(X, t, K)[n]
  <2> SUFFICES ASSUME NEW n \in 1..Len(s) PROVE ChosenSteps(X, s, K)[n] = ChosenSteps(X, t, K)[n]
    OBVIOUS
  <2>1. n \in 1..Len(t) /\ t[n] = s[n]
    BY <1>1
  <2> QED
    BY <2>1 DEF ChosenSteps
<1>5. Steps(ChosenSteps(X, t, K), h, Len(s))
  <2>1. \A n \in 1..Len(s) : n \in 1..Len(t)
    BY <1>1
  <2> QED
    BY <1>3, <2>1 DEF Steps
<1>6. g[Len(s)] = h[Len(s)]
  <2>1. \A n \in 0..Len(s) : g[n] = h[n]
    BY <1>1, <1>2, <1>3, <1>4, <1>5, RecursionAgrees
  <2> QED
    BY <1>1, <2>1
<1>7. h[Len(t)] = IF Len(s) + 1 \in K THEN Append(h[Len(s)], y) ELSE h[Len(s)]
  <2>1. Len(t) \in 1..Len(t) /\ Len(t) - 1 = Len(s) /\ Len(s) \in 0..Len(t)
    BY <1>1
  <2>2. h[Len(t)] = ChosenSteps(X, t, K)[Len(t)][h[Len(s)]]
    BY <1>3, <2>1 DEF Steps
  <2>3. ChosenSteps(X, t, K)[Len(t)] = [x \in Seq(X) |-> IF Len(t) \in K THEN Append(x, t[Len(t)]) ELSE x]
    BY <2>1 DEF ChosenSteps
  <2>4. h[Len(s)] \in Seq(X)
    BY <1>3, <2>1
  <2> QED
    BY <1>1, <2>2, <2>3, <2>4
<1> QED
  BY <1>2, <1>3, <1>6, <1>7 DEF t

\* Nothing is kept of an empty sequence.
LEMMA ChosenNothing == \A K : Chosen(<<>>, K) = <<>>
<1> SUFFICES ASSUME NEW K PROVE Chosen(<<>>, K) = <<>>
  OBVIOUS
<1>1. PICK s : s = <<>>
  OBVIOUS
<1>2. s \in Seq({}) /\ Len(s) = 0
  BY <1>1
<1>3. Chosen(s, K) = <<>>
  BY <1>2, ChosenAre
<1> QED
  BY <1>1, <1>3

\* What is kept of a sequence is a sequence of the same kind.
LEMMA ChosenType ==
    ASSUME NEW X, NEW s \in Seq(X), NEW K
    PROVE  Chosen(s, K) \in Seq(X)
<1>1. Len(s) \in 0..Len(s)
  OBVIOUS
<1> QED
  BY <1>1, ChosenAre

\* Induction on sequences, for a set.
LEMMA SeqSetInduction ==
    ASSUME NEW X, NEW T \in SUBSET Seq(X), <<>> \in T, \A s \in T : \A y \in X : Append(s, y) \in T
    PROVE  T = Seq(X)
<1> DEFINE S == {n \in Nat : \A s \in Seq(X) : Len(s) = n => s \in T}
<1>1. 0 \in S
  <2> SUFFICES ASSUME NEW s \in Seq(X), Len(s) = 0 PROVE s \in T
    OBVIOUS
  <2>1. s = <<>>
    BY EmptySeq
  <2> QED
    BY <2>1
<1>2. ASSUME NEW n \in S PROVE n + 1 \in S
  <2> SUFFICES ASSUME NEW s \in Seq(X), Len(s) = n + 1 PROVE s \in T
    OBVIOUS
  <2>1. n \in Nat /\ \A r \in Seq(X) : Len(r) = n => r \in T
    OBVIOUS
  <2> HIDE DEF S
  <2>2. s # <<>>
    <3>1. Len(s) # 0
      BY <2>1
    <3> QED
      BY <3>1, EmptySeq
  <2>3. PICK f \in Seq(X), l \in X : s = Append(f, l)
    BY <2>2, SequenceEmptyOrAppend
  <2>4. Len(s) = Len(f) + 1 /\ Len(f) \in Nat
    BY <2>3, AppendProperties
  <2>5. Len(f) = n
    BY <2>1, <2>4
  <2>6. f \in T
    BY <2>1, <2>3, <2>5
  <2> QED
    BY <2>3, <2>6
<1>3. S = Nat
  <2>1. S \in SUBSET Nat
    OBVIOUS
  <2> HIDE DEF S
  <2> QED
    BY <1>1, <1>2, <2>1, NatSetInduction
<1>4. ASSUME NEW s \in Seq(X) PROVE s \in T
  <2>1. Len(s) \in Nat
    OBVIOUS
  <2> QED
    BY <1>3, <2>1
<1> QED
  BY <1>4

\* A sequence as it was appended to.
LEMMA Grown ==
    ASSUME NEW X, NEW s \in Seq(X), NEW y \in X
    PROVE  /\ Append(s, y) \in Seq(X) /\ Len(Append(s, y)) = Len(s) + 1 /\ Len(s) \in Nat
           /\ Append(s, y)[Len(s) + 1] = y /\ \A i \in 1..Len(s) : Append(s, y)[i] = s[i]
  BY AppendProperties

\* What is kept of a sequence is among what stands at the positions.
LEMMA ChosenAmong ==
    ASSUME NEW X, NEW s \in Seq(X), NEW K, NEW Y, \A n \in 1..Len(s) : n \in K => s[n] \in Y
    PROVE  Chosen(s, K) \in Seq(Y)
<1> DEFINE T == {r \in Seq(X) : (\A n \in 1..Len(r) : n \in K => r[n] \in Y) => Chosen(r, K) \in Seq(Y)}
<1>1. T \in SUBSET Seq(X)
  OBVIOUS
<1>2. <<>> \in T
  <2>1. <<>> \in Seq(X) /\ <<>> \in Seq(Y)
    OBVIOUS
  <2>2. Chosen(<<>>, K) = <<>>
    BY ChosenNothing
  <2>3. Chosen(<<>>, K) \in Seq(Y)
    BY <2>1, <2>2, Zenon
  <2> QED
    BY <2>1, <2>3
<1>3. ASSUME NEW r \in T, NEW y \in X PROVE Append(r, y) \in T
  <2>1. r \in Seq(X) /\ ((\A n \in 1..Len(r) : n \in K => r[n] \in Y) => Chosen(r, K) \in Seq(Y))
    OBVIOUS
  <2>2. PICK q : q = Append(r, y)
    OBVIOUS
  <2>3. q \in Seq(X) /\ Len(q) = Len(r) + 1 /\ Len(r) \in Nat /\ q[Len(r) + 1] = y /\ \A i \in 1..Len(r) : q[i] = r[i]
    BY <2>1, <2>2, Grown
  <2>4. ASSUME \A n \in 1..Len(q) : n \in K => q[n] \in Y PROVE Chosen(q, K) \in Seq(Y)
    <3>1. (\A n \in 1..Len(r) : n \in K => r[n] \in Y) /\ (Len(r) + 1 \in K => y \in Y)
      <4>1. \A n \in 1..Len(r) : n \in 1..Len(q)
        BY <2>3
      <4>2. Len(r) + 1 \in 1..Len(q)
        BY <2>3
      <4> QED
        BY <2>3, <2>4, <4>1, <4>2
    <3>2. Chosen(r, K) \in Seq(Y)
      BY <2>1, <3>1
    <3>3. Chosen(q, K) = IF Len(r) + 1 \in K THEN Append(Chosen(r, K), y) ELSE Chosen(r, K)
      BY <2>1, <2>2, ChosenGrow
    <3>4. y \in Y => Append(Chosen(r, K), y) \in Seq(Y)
      BY <3>2, AppendProperties
    <3> QED
      BY <3>1, <3>2, <3>3, <3>4
  <2> QED
    BY <2>2, <2>3, <2>4
<1>4. T = Seq(X)
  <2> HIDE DEF T
  <2> QED
    BY <1>1, <1>2, <1>3, SeqSetInduction
<1>5. s \in T
  BY <1>4
<1> QED
  BY <1>5

\* Everything at the positions is kept.
LEMMA ChosenAll ==
    ASSUME NEW X, NEW s \in Seq(X), NEW K
    PROVE  \A n \in 1..Len(s) : n \in K => \E j \in 1..Len(Chosen(s, K)) : Chosen(s, K)[j] = s[n]
<1> DEFINE Kept(r) == \A n \in 1..Len(r) : n \in K => \E j \in 1..Len(Chosen(r, K)) : Chosen(r, K)[j] = r[n]
           T == {r \in Seq(X) : Kept(r)}
<1>1. T \in SUBSET Seq(X)
  OBVIOUS
<1>2. <<>> \in T
  <2>1. <<>> \in Seq(X) /\ 1..Len(<<>>) = {}
    OBVIOUS
  <2> QED
    BY <2>1
<1>3. ASSUME NEW r \in T, NEW y \in X PROVE Append(r, y) \in T
  <2>1. r \in Seq(X) /\ Kept(r)
    OBVIOUS
  <2> HIDE DEF T
  <2>2. PICK q, c, d : q = Append(r, y) /\ c = Chosen(r, K) /\ d = Chosen(q, K)
    OBVIOUS
  <2>3. q \in Seq(X) /\ Len(q) = Len(r) + 1 /\ Len(r) \in Nat /\ q[Len(r) + 1] = y /\ \A i \in 1..Len(r) : q[i] = r[i]
    BY <2>1, <2>2, Grown
  <2>4. c \in Seq(X) /\ d = IF Len(r) + 1 \in K THEN Append(c, y) ELSE c
    BY <2>1, <2>2, ChosenType, ChosenGrow
  <2>5. /\ Len(Append(c, y)) = Len(c) + 1 /\ Len(c) \in Nat
        /\ Append(c, y)[Len(c) + 1] = y /\ \A i \in 1..Len(c) : Append(c, y)[i] = c[i]
    BY <2>4, Grown
  <2>6. \A j \in 1..Len(c) : j \in 1..Len(d) /\ d[j] = c[j]
    BY <2>4, <2>5
  <2>7. ASSUME NEW n \in 1..Len(q), n \in K PROVE \E j \in 1..Len(d) : d[j] = q[n]
    <3>1. CASE n <= Len(r)
      <4>1. n \in 1..Len(r) /\ q[n] = r[n]
        BY <2>3, <3>1
      <4>2. PICK j \in 1..Len(c) : c[j] = r[n]
        BY <2>1, <2>2, <2>7, <4>1
      <4> QED
        BY <2>6, <4>1, <4>2
    <3>2. CASE ~ (n <= Len(r))
      <4>1. n = Len(r) + 1 /\ q[n] = y
        BY <2>3, <3>2
      <4>2. d = Append(c, y)
        BY <2>4, <2>7, <4>1
      <4>3. Len(c) + 1 \in 1..Len(d) /\ d[Len(c) + 1] = y
        BY <2>5, <4>2
      <4> QED
        BY <4>1, <4>3
    <3> QED
      BY <3>1, <3>2
  <2>8. Kept(q)
    BY <2>2, <2>7
  <2> QED
    BY <2>2, <2>3, <2>8 DEF T
<1>4. T = Seq(X)
  <2> HIDE DEF T
  <2> QED
    BY <1>1, <1>2, <1>3, SeqSetInduction
<1>5. s \in T
  BY <1>4
<1> QED
  BY <1>5

\* c is s followed by r.
Cat(s, r, c) == c = s \o r

\* Its members are the members of both.
LEMMA CatMembers ==
    ASSUME NEW X, NEW s \in Seq(X), NEW r \in Seq(X), NEW c, Cat(s, r, c)
    PROVE  /\ c \in Seq(X)
           /\ \A i \in DOMAIN c : (\E j \in DOMAIN s : c[i] = s[j]) \/ (\E j \in DOMAIN r : c[i] = r[j])
           /\ \A j \in DOMAIN s : \E i \in DOMAIN c : c[i] = s[j]
           /\ \A j \in DOMAIN r : \E i \in DOMAIN c : c[i] = r[j]
<1>1. /\ c \in Seq(X) /\ Len(c) = Len(s) + Len(r) /\ Len(s) \in Nat /\ Len(r) \in Nat
      /\ \A i \in 1..Len(s) : c[i] = s[i]
      /\ \A i \in 1..Len(r) : c[Len(s) + i] = r[i]
  BY ConcatProperties DEF Cat
<1>2. DOMAIN c = 1..Len(c) /\ DOMAIN s = 1..Len(s) /\ DOMAIN r = 1..Len(r)
  BY <1>1
<1>3. ASSUME NEW i \in DOMAIN c PROVE (\E j \in DOMAIN s : c[i] = s[j]) \/ (\E j \in DOMAIN r : c[i] = r[j])
  <2>1. CASE i <= Len(s)
    <3>1. i \in 1..Len(s)
      BY <1>1, <1>2, <2>1
    <3> QED
      BY <1>1, <1>2, <3>1
  <2>2. CASE ~ (i <= Len(s))
    <3>1. i - Len(s) \in 1..Len(r) /\ Len(s) + (i - Len(s)) = i
      BY <1>1, <1>2, <2>2
    <3> QED
      BY <1>1, <1>2, <3>1
  <2> QED
    BY <2>1, <2>2
<1>4. \A j \in 1..Len(s) : j \in 1..Len(c)
  BY <1>1
<1>5. \A j \in 1..Len(r) : Len(s) + j \in 1..Len(c)
  BY <1>1
<1> QED
  BY <1>1, <1>2, <1>3, <1>4, <1>5

-----------------------------------------------------------------------------
(* The owner's log.  The definitions take it as a parameter l, so that     *)
(* they can speak of the log before and after a step.                      *)

Kinds == {"entry", "move", "leave"}
Events == [kind : Kinds, id : Entities, gen : Nat \ {0}, ver : Nat \ {0}, pos : Positions, seq : 1..MaxSeq]
Snapshots == [kind : {"snapshot"}, seq : 0..MaxSeq, ents : [Entities -> States]]
Publications == [event : Events, remaining : SUBSET Remotes]
Tombs == [gen : Nat, seq : 0..MaxSeq]
Copies == [ents : [Entities -> States], tombs : [Entities -> Tombs], water : -1..MaxSeq]

\* Event b comes after event a of the same entity: a later generation, or a
\* later version of one that has not left.
Before(a, b) == a.gen < b.gen \/ (a.gen = b.gen /\ a.ver < b.ver /\ a.kind # "leave")

\* The log of an owner: every generation starts with its entry, ends with its
\* leave and counts its versions in between.
Numbered(l) == \A i \in 1..Len(l) : l[i].seq = i
Started(l) == \A i \in 1..Len(l) : \E k \in 1..i :
                  l[k].id = l[i].id /\ l[k].gen = l[i].gen /\ l[k].kind = "entry"
Sorted(l) == \A i, j \in 1..Len(l) : i < j /\ l[i].id = l[j].id => Before(l[i], l[j])
Orderly(l) == /\ l \in Seq(Events) /\ Len(l) <= MaxSeq
              /\ Numbered(l) /\ Started(l) /\ Sorted(l)

\* s is the state of e that event s.seq left behind.
Shows(l, e, s) == /\ s.seq \in 1..Len(l)
                  /\ l[s.seq].id = e /\ l[s.seq].kind # "leave"
                  /\ s.gen = l[s.seq].gen /\ s.ver = l[s.seq].ver /\ s.pos = l[s.seq].pos

\* s is the state of e after the first n events, or e is not there then.
Present(l, e, n, s) == /\ Shows(l, e, s) /\ s.seq <= n
                       /\ \A i \in 1..n : l[i].id = e => i <= s.seq
Vacant(l, e, n) == \A i \in 1..n : l[i].id = e =>
                       \E j \in 1..n : l[j].id = e /\ l[j].kind = "leave" /\ l[j].gen >= l[i].gen
Accurate(l, n, ents) == \A e \in Entities : IF ents[e] = Absent THEN Vacant(l, e, n) ELSE Present(l, e, n, ents[e])

\* A leave of e that ended generation g or a later one is known: by its
\* tombstone, or because a snapshot covered it.
LeftBy(l, n, e, g) == \E j \in 1..Len(l) : j <= n /\ l[j].id = e /\ l[j].kind = "leave" /\ l[j].gen >= g
Ended(l, rep, e, g) == rep.tombs[e].gen >= g \/ LeftBy(l, rep.water, e, g)

\* The copies have seen generation g of e, or are past it.
Reached(l, rep, e, g) == rep.ents[e].gen >= g \/ Ended(l, rep, e, g)
Left(l, rep, e, g) == rep.ents[e].gen > g \/ Ended(l, rep, e, g)

\* The copies one remote worker may hold.
CopyOf(l, rep, e) ==
    /\ rep.ents[e] = Absent \/ (Shows(l, e, rep.ents[e]) /\ ~Ended(l, rep, e, rep.ents[e].gen))
    /\ rep.tombs[e] = NoTomb \/ (/\ rep.tombs[e].seq \in 1..Len(l)
                                 /\ l[rep.tombs[e].seq].id = e /\ l[rep.tombs[e].seq].kind = "leave"
                                 /\ l[rep.tombs[e].seq].gen = rep.tombs[e].gen)
    /\ \A i \in 1..Len(l) : i <= rep.water /\ l[i].id = e => Reached(l, rep, e, l[i].gen)
CopyInv(l, rep) == rep \in Copies /\ rep.water <= Len(l) /\ \A e \in Entities : CopyOf(l, rep, e)

-----------------------------------------------------------------------------
(* What the order of the log says.                                         *)

\* The fields of an event of the log.
LEMMA EventFields ==
    ASSUME NEW l, Orderly(l), NEW i \in 1..Len(l)
    PROVE  /\ l[i] \in Events /\ l[i].seq = i /\ l[i].kind \in Kinds /\ l[i].id \in Entities
           /\ l[i].gen \in Nat /\ l[i].gen > 0 /\ l[i].ver \in Nat /\ l[i].ver > 0 /\ l[i].pos \in Positions
           /\ i \in Nat /\ i > 0 /\ i <= Len(l) /\ i <= MaxSeq /\ Len(l) \in Nat
<1>1. l[i] \in Events /\ i <= Len(l) /\ i \in Nat /\ i > 0 /\ Len(l) \in Nat
  BY DEF Orderly
<1>2. i <= MaxSeq
  BY <1>1, ConstantsAssumption DEF Orderly
<1>3. l[i].seq = i
  BY DEF Orderly, Numbered
<1> QED
  BY <1>1, <1>2, <1>3 DEF Events

\* Two events of one entity.
LEMMA InLogOrder ==
    ASSUME NEW l, Orderly(l), NEW i \in 1..Len(l), NEW j \in 1..Len(l), l[i].id = l[j].id, i <= j
    PROVE  /\ l[i].gen <= l[j].gen
           /\ l[i].kind = "leave" /\ i # j => l[i].gen < l[j].gen
           /\ l[i].gen = l[j].gen => l[i].ver <= l[j].ver
           /\ l[i].gen = l[j].gen /\ i # j => l[i].ver < l[j].ver
<1>1. /\ l[i].gen \in Nat /\ l[j].gen \in Nat /\ l[i].ver \in Nat /\ l[j].ver \in Nat
      /\ i \in Nat /\ j \in Nat
  BY EventFields
<1>2. CASE i = j
  BY <1>1, <1>2
<1>3. CASE i # j
  <2>1. Before(l[i], l[j])
    BY <1>1, <1>3 DEF Orderly, Sorted
  <2> QED
    BY <1>1, <1>3, <2>1 DEF Before
<1> QED
  BY <1>2, <1>3

\* What a state says of the event it comes from.
LEMMA ShownFields ==
    ASSUME NEW l, Orderly(l), NEW e, NEW s, Shows(l, e, s)
    PROVE  /\ s.seq \in 1..Len(l) /\ l[s.seq].id = e /\ l[s.seq].kind # "leave" /\ s.seq \in Nat /\ s.seq > 0
           /\ s.gen = l[s.seq].gen /\ s.ver = l[s.seq].ver /\ s.pos = l[s.seq].pos
           /\ s.gen \in Nat /\ s.gen > 0 /\ s.ver \in Nat /\ s.ver > 0 /\ s.gen # 0 /\ s # Absent
<1>1. PICK i : i = s.seq
  OBVIOUS
<1>2. i \in 1..Len(l) /\ l[i].id = e /\ l[i].kind # "leave" /\ s.gen = l[i].gen /\ s.ver = l[i].ver /\ s.pos = l[i].pos
  BY <1>1 DEF Shows
<1>3. l[i].gen \in Nat /\ l[i].gen > 0 /\ l[i].ver \in Nat /\ l[i].ver > 0 /\ i \in Nat /\ i > 0
  BY <1>2, EventFields
<1>4. Absent.gen = 0
  BY DEF Absent
<1> QED
  BY <1>1, <1>2, <1>3, <1>4

\* An event of e that is not after the state s of e.
LEMMA NotAfter ==
    ASSUME NEW l, Orderly(l), NEW e, NEW s, Shows(l, e, s), NEW i \in 1..Len(l), l[i].id = e, i <= s.seq
    PROVE  /\ l[i].gen <= s.gen
           /\ l[i].kind = "leave" => l[i].gen < s.gen
           /\ l[i].gen = s.gen => l[i].ver <= s.ver
<1>1. PICK k \in 1..Len(l) : k = s.seq
  BY ShownFields
<1>2. /\ l[k].id = e /\ l[k].kind # "leave" /\ s.gen = l[k].gen /\ s.ver = l[k].ver
  BY <1>1, ShownFields
<1>3. i <= k /\ l[i].id = l[k].id
  BY <1>1, <1>2
<1>4. /\ l[i].gen <= l[k].gen
      /\ l[i].kind = "leave" /\ i # k => l[i].gen < l[k].gen
      /\ l[i].gen = l[k].gen => l[i].ver <= l[k].ver
  BY <1>3, InLogOrder
<1> QED
  BY <1>2, <1>4

\* An event of e that is after the state s of e.
LEMMA NotBefore ==
    ASSUME NEW l, Orderly(l), NEW e, NEW s, Shows(l, e, s), NEW i \in 1..Len(l), l[i].id = e, s.seq <= i
    PROVE  /\ s.gen <= l[i].gen
           /\ s.gen = l[i].gen => s.ver <= l[i].ver
           /\ s.gen = l[i].gen /\ i # s.seq => s.ver < l[i].ver
<1>1. PICK k \in 1..Len(l) : k = s.seq
  BY ShownFields
<1>2. /\ l[k].id = e /\ s.gen = l[k].gen /\ s.ver = l[k].ver
  BY <1>1, ShownFields
<1>3. k <= i /\ l[i].id = l[k].id
  BY <1>1, <1>2
<1>4. /\ l[k].gen <= l[i].gen
      /\ l[k].gen = l[i].gen => l[k].ver <= l[i].ver
      /\ l[k].gen = l[i].gen /\ k # i => l[k].ver < l[i].ver
  BY <1>3, InLogOrder
<1> QED
  BY <1>1, <1>2, <1>4

\* No leave among the first events ended the generation of the state that
\* they left behind.
LEMMA PresentNotLeft ==
    ASSUME NEW l, Orderly(l), NEW e, NEW s, NEW n, Present(l, e, n, s), n <= Len(l), n \in Nat
    PROVE  ~LeftBy(l, n, e, s.gen)
<1> SUFFICES ASSUME NEW j \in 1..Len(l), j <= n, l[j].id = e, l[j].kind = "leave", l[j].gen >= s.gen PROVE FALSE
  BY DEF LeftBy
<1>1. Shows(l, e, s) /\ j <= s.seq
  BY DEF Present
<1>2. l[j].gen < s.gen
  BY <1>1, NotAfter
<1>3. l[j].gen \in Nat /\ s.gen \in Nat
  BY <1>1, EventFields, ShownFields
<1> QED
  BY <1>2, <1>3

\* A leave of e among the first n, and a leave that ended more.
LEMMA LeftByLess ==
    ASSUME NEW l, Orderly(l), NEW e, NEW n \in Int, NEW m \in Int, NEW g \in Nat, NEW h \in Nat, n <= m, h <= g, LeftBy(l, n, e, g)
    PROVE  LeftBy(l, m, e, h)
<1>1. PICK j \in 1..Len(l) : j <= n /\ l[j].id = e /\ l[j].kind = "leave" /\ l[j].gen >= g
  BY DEF LeftBy
<1>2. l[j].gen \in Nat /\ j \in Nat
  BY EventFields
<1> QED
  BY <1>1, <1>2 DEF LeftBy

-----------------------------------------------------------------------------
(* What the remote's three changes do to the copy of one entity.           *)

\* The copy of e goes from rep to rep2 without forgetting what it has seen
\* and without going back to an older version.
Advanced(l, rep, rep2, e) ==
    /\ CopyOf(l, rep2, e)
    /\ \A g \in Nat : /\ Ended(l, rep, e, g) => Ended(l, rep2, e, g)
                      /\ Reached(l, rep, e, g) => Reached(l, rep2, e, g)
                      /\ Left(l, rep, e, g) => Left(l, rep2, e, g)
    /\ rep2.ents[e].gen = rep.ents[e].gen => rep2.ents[e].ver >= rep.ents[e].ver

\* Types of the copies.
LEMMA CopyTypes ==
    ASSUME NEW rep \in Copies, NEW e \in Entities
    PROVE  /\ rep.ents \in [Entities -> States] /\ rep.tombs \in [Entities -> Tombs]
           /\ rep.ents[e] \in States /\ rep.tombs[e] \in Tombs
           /\ rep.water \in Int /\ rep.ents[e].gen \in Nat /\ rep.ents[e].ver \in Nat /\ rep.ents[e].seq \in Nat
           /\ rep.tombs[e].gen \in Nat /\ rep.tombs[e].seq \in Nat
<1>1. /\ rep.ents \in [Entities -> States] /\ rep.tombs \in [Entities -> Tombs] /\ rep.water \in Int
  BY ConstantsAssumption DEF Copies
<1>2. rep.ents[e] \in States /\ rep.tombs[e] \in Tombs
  BY <1>1
<1> QED
  BY <1>1, <1>2, ConstantsAssumption DEF States, Tombs

\* What the verdict says of an applied event.
LEMMA AppliedVerdict ==
    ASSUME NEW rep, NEW ev, Verdict(rep, ev) = "applied"
    PROVE  /\ ~(ev.seq <= rep.water) /\ ~(rep.tombs[ev.id].gen >= ev.gen) /\ ~Older(ev, rep.ents[ev.id])
           /\ ev.kind = "move" => rep.ents[ev.id].gen = ev.gen
  BY DEF Verdict

\* A copy that shows nothing of an entity has ended what it has reached.
LEMMA ReachedNotShown ==
    ASSUME NEW l, NEW rep \in Copies, NEW e \in Entities, NEW g \in Nat, g > rep.ents[e].gen, Reached(l, rep, e, g)
    PROVE  Ended(l, rep, e, g)
  BY CopyTypes DEF Reached

\* What is ended beyond a generation is ended for it.
LEMMA EndedLess ==
    ASSUME NEW l, Orderly(l), NEW rep \in Copies, NEW e \in Entities, NEW g \in Nat, NEW h \in Nat, h <= g,
           Ended(l, rep, e, g)
    PROVE  Ended(l, rep, e, h)
<1>1. rep.tombs[e].gen \in Nat /\ rep.water \in Int
  BY CopyTypes
<1>2. CASE rep.tombs[e].gen >= g
  BY <1>1, <1>2 DEF Ended
<1>3. CASE LeftBy(l, rep.water, e, g)
  <2>1. rep.water <= rep.water
    BY <1>1
  <2>2. LeftBy(l, rep.water, e, h)
    BY <1>1, <1>3, <2>1, LeftByLess
  <2> QED
    BY <2>2 DEF Ended
<1> QED
  BY <1>2, <1>3 DEF Ended

\* The entity is not touched and the watermark stays.
LEMMA Untouched ==
    ASSUME NEW l, NEW rep \in Copies, NEW rep2 \in Copies, NEW e \in Entities, CopyOf(l, rep, e),
           rep2.ents[e] = rep.ents[e], rep2.tombs[e] = rep.tombs[e], rep2.water = rep.water
    PROVE  Advanced(l, rep, rep2, e)
<1>1. \A g : Ended(l, rep2, e, g) <=> Ended(l, rep, e, g)
  BY DEF Ended
<1>2. \A g : Reached(l, rep2, e, g) <=> Reached(l, rep, e, g)
  BY <1>1 DEF Reached
<1>3. \A g : Left(l, rep2, e, g) <=> Left(l, rep, e, g)
  BY <1>1 DEF Left
<1>4. CopyOf(l, rep2, e)
  BY <1>1, <1>2 DEF CopyOf
<1>5. rep2.ents[e].ver >= rep.ents[e].ver
  BY CopyTypes
<1> QED
  BY <1>1, <1>2, <1>3, <1>4, <1>5 DEF Advanced

\* An entry or a move is applied: onRemoteEntry, onRemoteMove.
LEMMA StateTaken ==
    ASSUME NEW l, Orderly(l), NEW rep \in Copies, NEW rep2 \in Copies, NEW e \in Entities, CopyOf(l, rep, e),
           NEW i \in 1..Len(l), l[i].id = e, l[i].kind # "leave", Verdict(rep, l[i]) = "applied",
           rep2.ents[e] = StateOf(l[i]), rep2.tombs[e] = rep.tombs[e], rep2.water = rep.water
    PROVE  Advanced(l, rep, rep2, e) /\ rep2.ents[e].gen = l[i].gen
<1>1. /\ l[i].gen \in Nat /\ l[i].ver \in Nat /\ i \in Nat /\ l[i].seq = i
  BY EventFields
<1>2. /\ rep.water \in Int /\ rep.ents[e].gen \in Nat /\ rep.ents[e].ver \in Nat /\ rep.tombs[e].gen \in Nat
  BY CopyTypes
<1>3. rep.water < i /\ rep.tombs[e].gen < l[i].gen /\ ~Older(l[i], rep.ents[e])
  BY <1>1, <1>2, AppliedVerdict
<1>4. rep.ents[e].gen <= l[i].gen /\ (rep.ents[e].gen = l[i].gen => rep.ents[e].ver < l[i].ver)
  BY <1>1, <1>2, <1>3 DEF Older
<1>5. rep2.ents[e].gen = l[i].gen /\ rep2.ents[e].ver = l[i].ver /\ rep2.ents[e].pos = l[i].pos /\ rep2.ents[e].seq = i
  BY <1>1 DEF StateOf
<1>6. \A g : Ended(l, rep2, e, g) <=> Ended(l, rep, e, g)
  BY DEF Ended
<1>7. \A g \in Nat : Reached(l, rep, e, g) => Reached(l, rep2, e, g)
  BY <1>1, <1>2, <1>4, <1>5, <1>6 DEF Reached
<1>8. \A g \in Nat : Left(l, rep, e, g) => Left(l, rep2, e, g)
  BY <1>1, <1>2, <1>4, <1>5, <1>6 DEF Left
<1>9. ~Ended(l, rep2, e, l[i].gen)
  <2>1. ~LeftBy(l, rep.water, e, l[i].gen)
    <3> SUFFICES ASSUME NEW j \in 1..Len(l), j <= rep.water, l[j].id = e, l[j].kind = "leave", l[j].gen >= l[i].gen PROVE FALSE
      BY DEF LeftBy
    <3>1. j \in Nat /\ l[j].gen \in Nat
      BY EventFields
    <3>2. j <= i /\ j # i
      BY <1>1, <1>2, <1>3, <3>1
    <3>3. l[j].gen < l[i].gen
      BY <3>2, InLogOrder
    <3> QED
      BY <1>1, <3>1, <3>3
  <2> QED
    BY <1>1, <1>2, <1>3, <2>1 DEF Ended
<1>10. Shows(l, e, rep2.ents[e])
  BY <1>5 DEF Shows
<1>11. ASSUME NEW k \in 1..Len(l), k <= rep2.water, l[k].id = e PROVE Reached(l, rep2, e, l[k].gen)
  <2>1. Reached(l, rep, e, l[k].gen)
    BY <1>11 DEF CopyOf
  <2>2. l[k].gen \in Nat
    BY EventFields
  <2> QED
    BY <1>7, <2>1, <2>2
<1>12. CopyOf(l, rep2, e)
  BY <1>5, <1>9, <1>10, <1>11 DEF CopyOf
<1>13. rep2.ents[e].gen = rep.ents[e].gen => rep2.ents[e].ver >= rep.ents[e].ver
  BY <1>1, <1>2, <1>4, <1>5
<1> QED
  BY <1>5, <1>6, <1>7, <1>8, <1>12, <1>13 DEF Advanced

\* A leave is applied: onRemoteLeave.
LEMMA LeaveTaken ==
    ASSUME NEW l, Orderly(l), NEW rep \in Copies, NEW rep2 \in Copies, NEW e \in Entities, CopyOf(l, rep, e),
           NEW i \in 1..Len(l), l[i].id = e, l[i].kind = "leave", Verdict(rep, l[i]) = "applied",
           rep2.ents[e] = Absent, rep2.tombs[e] = [gen |-> l[i].gen, seq |-> l[i].seq], rep2.water = rep.water
    PROVE  Advanced(l, rep, rep2, e) /\ Ended(l, rep2, e, l[i].gen)
<1>1. /\ l[i].gen \in Nat /\ l[i].gen > 0 /\ l[i].ver \in Nat /\ i \in Nat /\ l[i].seq = i
  BY EventFields
<1>2. /\ rep.water \in Int /\ rep.ents[e].gen \in Nat /\ rep.ents[e].ver \in Nat /\ rep.tombs[e].gen \in Nat
  BY CopyTypes
<1>3. rep.tombs[e].gen < l[i].gen /\ ~Older(l[i], rep.ents[e])
  BY <1>1, <1>2, AppliedVerdict
<1>4. rep.ents[e].gen <= l[i].gen
  BY <1>1, <1>2, <1>3 DEF Older
<1>5. rep2.ents[e].gen = 0 /\ rep2.ents[e].ver = 0 /\ rep2.tombs[e].gen = l[i].gen /\ rep2.tombs[e].seq = i
  BY <1>1 DEF Absent
<1>6. \A g \in Nat : g <= l[i].gen => Ended(l, rep2, e, g)
  BY <1>1, <1>5 DEF Ended
<1>7. ASSUME NEW g \in Nat, Ended(l, rep, e, g) PROVE Ended(l, rep2, e, g)
  BY <1>1, <1>2, <1>3, <1>5, <1>7 DEF Ended
<1>8. \A g \in Nat : Reached(l, rep, e, g) => Ended(l, rep2, e, g)
  BY <1>1, <1>2, <1>4, <1>6, <1>7 DEF Reached
<1>9. \A g \in Nat : Left(l, rep, e, g) => Ended(l, rep2, e, g)
  BY <1>1, <1>2, <1>4, <1>6, <1>7 DEF Left
<1>10. ASSUME NEW k \in 1..Len(l), k <= rep2.water, l[k].id = e PROVE Reached(l, rep2, e, l[k].gen)
  <2>1. Reached(l, rep, e, l[k].gen)
    BY <1>10 DEF CopyOf
  <2>2. l[k].gen \in Nat
    BY EventFields
  <2> QED
    BY <1>8, <2>1, <2>2 DEF Reached
<1>11. CopyOf(l, rep2, e)
  BY <1>1, <1>5, <1>10 DEF CopyOf
<1>12. rep2.ents[e].gen = rep.ents[e].gen => rep2.ents[e].ver >= rep.ents[e].ver
  <2> SUFFICES ASSUME rep.ents[e].gen = 0 PROVE rep.ents[e].ver = 0
    BY <1>2, <1>5
  <2>1. rep.ents[e] = Absent
    BY ShownFields DEF CopyOf
  <2> QED
    BY <2>1 DEF Absent
<1>13. Ended(l, rep2, e, l[i].gen)
  BY <1>1, <1>6
<1>14. \A g \in Nat : /\ Reached(l, rep, e, g) => Reached(l, rep2, e, g)
                      /\ Left(l, rep, e, g) => Left(l, rep2, e, g)
  BY <1>8, <1>9 DEF Reached, Left
<1> QED
  BY <1>7, <1>11, <1>12, <1>13, <1>14 DEF Advanced

\* What a snapshot brings for an entity it knows, against what the copy has.
LEMMA PresentAfter ==
    ASSUME NEW l, Orderly(l), NEW e, NEW n \in Nat, n <= Len(l), NEW new, Present(l, e, n, new),
           NEW i \in 1..Len(l), i <= n, l[i].id = e
    PROVE  /\ i <= new.seq /\ l[i].gen <= new.gen
           /\ l[i].kind = "leave" => l[i].gen < new.gen
           /\ l[i].gen = new.gen => l[i].ver <= new.ver
<1>1. i \in 1..n
  BY EventFields
<1>2. Shows(l, e, new) /\ i <= new.seq
  BY <1>1 DEF Present
<1> QED
  BY <1>2, NotAfter

\* What an applied snapshot does to the copy of one entity.
LEMMA SnapshotTaken ==
    ASSUME NEW l, Orderly(l), NEW rep \in Copies, NEW rep2 \in Copies, NEW e \in Entities, CopyOf(l, rep, e),
           NEW n \in Nat, rep.water < n, n <= Len(l), NEW new \in States,
           IF new = Absent THEN Vacant(l, e, n) ELSE Present(l, e, n, new),
           rep2.ents[e] = IF new = Absent
                          THEN IF rep.ents[e].seq <= n THEN Absent ELSE rep.ents[e]
                          ELSE IF rep.ents[e].seq > n \/ rep.tombs[e].seq > n THEN rep.ents[e] ELSE new,
           rep2.tombs[e] = rep.tombs[e], rep2.water = n
    PROVE  Advanced(l, rep, rep2, e)
<1> DEFINE old == rep.ents[e]  tomb == rep.tombs[e]  x == rep2.ents[e]
<1>1. /\ rep.water \in Int /\ old.gen \in Nat /\ old.ver \in Nat /\ old.seq \in Nat /\ old \in States
      /\ tomb.gen \in Nat /\ tomb.seq \in Nat /\ Len(l) \in Nat
  BY CopyTypes DEF Orderly
<1>2. x.gen \in Nat /\ x.ver \in Nat /\ x.seq \in Nat
  BY CopyTypes
<1>3. old = Absent \/ (Shows(l, e, old) /\ ~Ended(l, rep, e, old.gen))
  BY DEF CopyOf
<1>4. tomb = NoTomb \/ (tomb.seq \in 1..Len(l) /\ l[tomb.seq].id = e /\ l[tomb.seq].kind = "leave" /\ l[tomb.seq].gen = tomb.gen)
  BY DEF CopyOf
<1>5. Absent.gen = 0 /\ Absent.ver = 0 /\ Absent.seq = 0 /\ NoTomb.gen = 0 /\ NoTomb.seq = 0
  BY DEF Absent, NoTomb
<1>6. new = Absent => Vacant(l, e, n)
  OBVIOUS
<1>7. new # Absent => Present(l, e, n, new)
  OBVIOUS
<1>8. \/ new = Absent /\ old.seq <= n /\ x = Absent
      \/ new = Absent /\ old.seq > n /\ x = old
      \/ new # Absent /\ (old.seq > n \/ tomb.seq > n) /\ x = old
      \/ new # Absent /\ old.seq <= n /\ tomb.seq <= n /\ x = new
  BY <1>1
<1>9. rep2.tombs[e] = tomb /\ rep2.water = n
  OBVIOUS
<1> HIDE DEF old, tomb, x
<1>10. new # Absent => new.gen \in Nat /\ new.ver \in Nat /\ new.gen > 0 /\ new.seq \in 1..Len(l) /\ Shows(l, e, new)
                       /\ new.seq <= n
  BY <1>7, ShownFields DEF Present
<1>11. ASSUME NEW g \in Nat, Ended(l, rep, e, g) PROVE Ended(l, rep2, e, g)
  <2>1. CASE tomb.gen >= g
    BY <1>9, <2>1 DEF Ended
  <2>2. CASE LeftBy(l, rep.water, e, g)
    <3>1. LeftBy(l, n, e, g)
      BY <1>1, <2>2, LeftByLess
    <3> QED
      BY <1>9, <3>1 DEF Ended
  <2> QED
    BY <1>11, <2>1, <2>2 DEF Ended, tomb
\* A tombstone newer than the snapshot hides no entity: the copy shows none.
<1>12. tomb.seq > n => old = Absent \/ old.seq > n
  <2> SUFFICES ASSUME tomb.seq > n, old # Absent, old.seq <= n PROVE FALSE
    BY <1>1
  <2>1. PICK t \in 1..Len(l) : t = tomb.seq /\ l[t].id = e /\ l[t].gen = tomb.gen
    BY <1>4, <1>5
  <2>2. Shows(l, e, old) /\ ~Ended(l, rep, e, old.gen)
    BY <1>3
  <2>3. t \in Nat /\ old.seq <= t
    BY <1>1, <2>1
  <2>4. old.gen <= tomb.gen
    BY <2>1, <2>2, <2>3, NotBefore
  <2> QED
    BY <1>1, <2>2, <2>4 DEF Ended, tomb
\* What stays is newer than the snapshot, or nothing.
<1>13. x = Absent \/ (x = old /\ old.seq > n) \/ (x = new /\ new # Absent /\ old.seq <= n /\ tomb.seq <= n)
  BY <1>8, <1>12
<1>14. x = Absent \/ (Shows(l, e, x) /\ ~Ended(l, rep2, e, x.gen))
  <2>1. CASE x = old /\ old.seq > n /\ old # Absent
    <3>1. Shows(l, e, old) /\ ~Ended(l, rep, e, old.gen)
      BY <1>3, <2>1
    <3>2. ~(tomb.gen >= old.gen)
      BY <3>1 DEF Ended, tomb
    <3>3. ~LeftBy(l, n, e, old.gen)
      <4> SUFFICES ASSUME NEW j \in 1..Len(l), j <= n, l[j].id = e, l[j].kind = "leave", l[j].gen >= old.gen PROVE FALSE
        BY DEF LeftBy
      <4>1. j \in Nat /\ l[j].gen \in Nat
        BY EventFields
      <4>2. j <= old.seq
        BY <1>1, <2>1, <4>1
      <4>3. l[j].gen < old.gen
        BY <3>1, <4>2, NotAfter
      <4> QED
        BY <1>1, <4>1, <4>3
    <3> QED
      BY <1>9, <2>1, <3>1, <3>2, <3>3 DEF Ended
  <2>2. CASE x = new /\ new # Absent /\ tomb.seq <= n
    <3>1. Present(l, e, n, new) /\ Shows(l, e, new) /\ new.gen \in Nat /\ new.gen > 0
      BY <1>7, <1>10, <2>2
    <3>2. ~LeftBy(l, n, e, new.gen)
      BY <3>1, PresentNotLeft
    <3>3. tomb.gen < new.gen
      <4>1. CASE tomb = NoTomb
        BY <1>5, <3>1, <4>1
      <4>2. CASE tomb # NoTomb
        <5>1. PICK t \in 1..Len(l) : t = tomb.seq /\ l[t].id = e /\ l[t].gen = tomb.gen /\ l[t].kind = "leave"
          BY <1>4, <4>2
        <5> QED
          BY <2>2, <3>1, <5>1, PresentAfter
      <4> QED
        BY <4>1, <4>2
    <3> QED
      BY <1>1, <1>9, <2>2, <3>1, <3>2, <3>3 DEF Ended
  <2> QED
    BY <1>13, <2>1, <2>2
\* Every event the snapshot covers is reached.
<1>15. ASSUME NEW i \in 1..Len(l), i <= n, l[i].id = e PROVE Reached(l, rep2, e, l[i].gen)
  <2>1. l[i].gen \in Nat /\ i \in Nat /\ i \in 1..n
    BY <1>1, <1>15, EventFields
  <2>2. CASE new = Absent
    <3>1. PICK j \in 1..n : l[j].id = e /\ l[j].kind = "leave" /\ l[j].gen >= l[i].gen
      BY <1>6, <1>15, <2>1, <2>2 DEF Vacant
    <3>2. j \in 1..Len(l) /\ j <= n
      BY <1>1
    <3>3. LeftBy(l, n, e, l[i].gen)
      BY <3>1, <3>2 DEF LeftBy
    <3> QED
      BY <1>9, <3>3 DEF Ended, Reached
  <2>3. CASE x = new /\ new # Absent
    <3>1. l[i].gen <= new.gen
      BY <1>7, <1>15, <2>3, PresentAfter
    <3> QED
      BY <1>10, <2>1, <2>3, <3>1 DEF Reached, x
  <2>4. CASE x = old /\ old.seq > n
    <3>1. Shows(l, e, old)
      BY <1>1, <1>3, <1>5, <2>4
    <3>2. i <= old.seq
      BY <1>1, <1>15, <2>1, <2>4
    <3>3. l[i].gen <= old.gen
      BY <1>15, <3>1, <3>2, NotAfter
    <3> QED
      BY <1>1, <2>1, <2>4, <3>3 DEF Reached, x
  <2>5. CASE new # Absent /\ tomb.seq > n
    <3>1. PICK t \in 1..Len(l) : t = tomb.seq /\ l[t].id = e /\ l[t].gen = tomb.gen
      BY <1>1, <1>4, <1>5, <2>5
    <3>2. i <= t
      BY <1>1, <1>15, <2>1, <2>5, <3>1
    <3>3. l[i].gen <= l[t].gen
      BY <1>15, <3>1, <3>2, InLogOrder
    <3> QED
      BY <1>1, <1>9, <2>1, <3>1, <3>3 DEF Ended, Reached
  <2> QED
    BY <1>8, <2>2, <2>3, <2>4, <2>5
<1>16. Reached(l, rep2, e, old.gen)
  <2>1. CASE old = Absent
    BY <1>2, <1>5, <2>1 DEF Reached, x
  <2>2. CASE old # Absent /\ old.seq <= n
    <3>1. PICK k \in 1..Len(l) : k = old.seq /\ l[k].id = e /\ l[k].gen = old.gen
      BY <1>3, <2>2, ShownFields
    <3> QED
      BY <1>15, <2>2, <3>1
  <2>3. CASE old # Absent /\ old.seq > n
    <3>1. x = old
      BY <1>1, <1>8, <2>3
    <3> QED
      BY <1>1, <3>1 DEF Reached, x
  <2> QED
    BY <1>1, <2>1, <2>2, <2>3
<1>17. ASSUME NEW g \in Nat, g <= old.gen PROVE x.gen >= g \/ Ended(l, rep2, e, g)
  <2>1. x.gen >= old.gen \/ Ended(l, rep2, e, old.gen)
    BY <1>16 DEF Reached, x
  <2>2. Ended(l, rep2, e, old.gen) => Ended(l, rep2, e, g)
    BY <1>1, <1>17, EndedLess
  <2> QED
    BY <1>1, <1>2, <1>17, <2>1, <2>2
<1>18. ASSUME NEW g \in Nat, Reached(l, rep, e, g) PROVE Reached(l, rep2, e, g)
  BY <1>1, <1>11, <1>17, <1>18 DEF Reached, old, x
<1>19. ASSUME NEW g \in Nat, Left(l, rep, e, g) PROVE Left(l, rep2, e, g)
  <2>1. CASE old.gen > g
    <3>1. x.gen >= old.gen \/ Ended(l, rep2, e, old.gen)
      BY <1>16 DEF Reached, x
    <3>2. Ended(l, rep2, e, old.gen) => Ended(l, rep2, e, g)
      BY <1>1, <2>1, EndedLess
    <3> QED
      BY <1>1, <1>2, <2>1, <3>1, <3>2 DEF Left, x
  <2> QED
    BY <1>11, <1>19, <2>1 DEF Left, old
<1>20. x.gen = old.gen => x.ver >= old.ver
  <2> SUFFICES ASSUME x.gen = old.gen PROVE x.ver >= old.ver
    OBVIOUS
  <2>1. CASE old = Absent
    BY <1>2, <1>5, <2>1
  <2>2. CASE x = Absent /\ old # Absent
    BY <1>3, <1>5, <2>2, ShownFields
  <2>3. CASE x = old
    BY <1>1, <2>3
  <2>4. CASE x = new /\ new # Absent /\ old # Absent /\ old.seq <= n
    <3>1. PICK k \in 1..Len(l) : k = old.seq /\ l[k].id = e /\ l[k].gen = old.gen /\ l[k].ver = old.ver
      BY <1>3, <2>4, ShownFields
    <3>2. l[k].gen = new.gen => l[k].ver <= new.ver
      BY <1>7, <2>4, <3>1, PresentAfter
    <3> QED
      BY <1>1, <1>10, <2>4, <3>1, <3>2
  <2> QED
    BY <1>13, <2>1, <2>2, <2>3, <2>4
<1>21. CopyOf(l, rep2, e)
  BY <1>4, <1>9, <1>14, <1>15 DEF CopyOf, x
<1> QED
  BY <1>11, <1>18, <1>19, <1>20, <1>21 DEF Advanced, x, old

\* A snapshot of the owner never contradicts the copies: what the copy shows
\* or has buried is no newer than what the snapshot brings.
LEMMA NeverContradicts ==
    ASSUME NEW l, Orderly(l), NEW rep, CopyInv(l, rep), NEW snap \in Snapshots,
           snap.seq <= Len(l), Accurate(l, snap.seq, snap.ents)
    PROVE  SnapshotVerdict(rep, snap) # "invalid"
<1> SUFFICES ASSUME NEW e \in Entities, NEW new, NEW old, NEW tomb,
                    new = snap.ents[e], old = rep.ents[e], tomb = rep.tombs[e], new # Absent,
                    \/ new.seq > snap.seq
                    \/ /\ old # Absent /\ old.seq <= snap.seq
                       /\ old.gen > new.gen \/ (old.gen = new.gen /\ old.ver > new.ver)
                    \/ tomb # NoTomb /\ tomb.seq <= snap.seq /\ tomb.gen >= new.gen
             PROVE  FALSE
  BY DEF SnapshotVerdict
<1>1. rep \in Copies /\ CopyOf(l, rep, e)
  BY DEF CopyInv
<1>2. PICK n \in Nat : n = snap.seq
  BY ConstantsAssumption DEF Snapshots
<1>3. n <= Len(l) /\ Present(l, e, n, new)
  BY <1>2 DEF Accurate
<1>4. Shows(l, e, new) /\ new.seq <= n /\ new.gen \in Nat /\ new.ver \in Nat /\ new.seq \in Nat
  BY <1>3, ShownFields DEF Present
<1>5. old = Absent \/ Shows(l, e, old)
  BY <1>1 DEF CopyOf
<1>6. tomb = NoTomb \/ (tomb.seq \in 1..Len(l) /\ l[tomb.seq].id = e /\ l[tomb.seq].kind = "leave" /\ l[tomb.seq].gen = tomb.gen)
  BY <1>1 DEF CopyOf
<1>7. CASE new.seq > snap.seq
  BY <1>2, <1>4, <1>7
<1>8. CASE old # Absent /\ old.seq <= snap.seq /\ (old.gen > new.gen \/ (old.gen = new.gen /\ old.ver > new.ver))
  <2>1. PICK k \in 1..Len(l) : k = old.seq /\ l[k].id = e /\ l[k].gen = old.gen /\ l[k].ver = old.ver
    BY <1>5, <1>8, ShownFields
  <2>2. l[k].gen \in Nat /\ l[k].ver \in Nat
    BY EventFields
  <2>4. k <= n /\ l[k].id = e
    BY <1>2, <1>8, <2>1
  <2>3. l[k].gen <= new.gen /\ (l[k].gen = new.gen => l[k].ver <= new.ver)
    BY <1>3, <2>4, PresentAfter
  <2> QED
    BY <1>4, <1>8, <2>1, <2>2, <2>3
<1>9. CASE tomb # NoTomb /\ tomb.seq <= snap.seq /\ tomb.gen >= new.gen
  <2>1. PICK k \in 1..Len(l) : k = tomb.seq /\ l[k].id = e /\ l[k].gen = tomb.gen /\ l[k].kind = "leave"
    BY <1>6, <1>9
  <2>2. l[k].gen \in Nat
    BY EventFields
  <2>4. k <= n /\ l[k].id = e /\ l[k].kind = "leave"
    BY <1>2, <1>9, <2>1
  <2>3. l[k].gen < new.gen
    BY <1>3, <2>4, PresentAfter
  <2> QED
    BY <1>4, <1>9, <2>1, <2>2, <2>3
<1> QED
  BY <1>7, <1>8, <1>9

-----------------------------------------------------------------------------
(* The log grows.                                                          *)

\* Log m continues log l.
Continues(l, m) == Len(l) <= Len(m) /\ \A i \in 1..Len(l) : m[i] = l[i]

\* What is said of the past stays true.
LEMMA PastStays ==
    ASSUME NEW l, NEW m, Orderly(l), Orderly(m), Continues(l, m), NEW e
    PROVE  /\ \A s : Shows(l, e, s) => Shows(m, e, s)
           /\ \A n \in Nat : \A s : n <= Len(l) /\ Present(l, e, n, s) => Present(m, e, n, s)
           /\ \A n \in Nat : n <= Len(l) /\ Vacant(l, e, n) => Vacant(m, e, n)
           /\ \A n \in Int : \A g : n <= Len(l) => (LeftBy(m, n, e, g) <=> LeftBy(l, n, e, g))
<1>1. Len(l) \in Nat /\ Len(m) \in Nat /\ Len(l) <= Len(m) /\ \A i \in 1..Len(l) : i \in 1..Len(m) /\ m[i] = l[i]
  BY DEF Orderly, Continues
<1>2. ASSUME NEW s, Shows(l, e, s) PROVE Shows(m, e, s)
  BY <1>1, <1>2 DEF Shows
<1>3. ASSUME NEW n \in Nat, NEW s, n <= Len(l), Present(l, e, n, s) PROVE Present(m, e, n, s)
  <2>1. \A i \in 1..n : m[i] = l[i]
    BY <1>1, <1>3
  <2> QED
    BY <1>2, <1>3, <2>1 DEF Present
<1>4. ASSUME NEW n \in Nat, n <= Len(l), Vacant(l, e, n) PROVE Vacant(m, e, n)
  <2>1. \A i \in 1..n : m[i] = l[i]
    BY <1>1, <1>4
  <2> QED
    BY <1>4, <2>1 DEF Vacant
<1>5. ASSUME NEW n \in Int, NEW g, n <= Len(l) PROVE LeftBy(m, n, e, g) <=> LeftBy(l, n, e, g)
  <2>1. ASSUME NEW j \in 1..Len(m), j <= n PROVE j \in 1..Len(l) /\ m[j] = l[j]
    BY <1>1, <1>5, <2>1
  <2> QED
    BY <1>1, <2>1 DEF LeftBy
<1> QED
  BY <1>2, <1>3, <1>4, <1>5

\* The same of what the copies have seen.
LEMMA CopyStays ==
    ASSUME NEW l, NEW m, Orderly(l), Orderly(m), Continues(l, m), NEW rep, CopyInv(l, rep)
    PROVE  /\ CopyInv(m, rep)
           /\ \A e \in Entities : \A g : /\ (Ended(l, rep, e, g) <=> Ended(m, rep, e, g))
                                     /\ (Reached(l, rep, e, g) <=> Reached(m, rep, e, g))
                                     /\ (Left(l, rep, e, g) <=> Left(m, rep, e, g))
<1>1. rep \in Copies /\ rep.water <= Len(l) /\ rep.water \in Int /\ \A e \in Entities : CopyOf(l, rep, e)
  BY ConstantsAssumption DEF CopyInv, Copies
<1>2. Len(l) \in Nat /\ Len(m) \in Nat /\ Len(l) <= Len(m) /\ \A i \in 1..Len(l) : i \in 1..Len(m) /\ m[i] = l[i]
  BY DEF Orderly, Continues
<1>3. \A e \in Entities : \A g : Ended(m, rep, e, g) <=> Ended(l, rep, e, g)
  BY <1>1, PastStays DEF Ended
<1>4. \A e \in Entities : \A g : Reached(m, rep, e, g) <=> Reached(l, rep, e, g)
  BY <1>3 DEF Reached
<1>5. \A e \in Entities : \A g : Left(m, rep, e, g) <=> Left(l, rep, e, g)
  BY <1>3 DEF Left
<1>6. ASSUME NEW e \in Entities PROVE CopyOf(m, rep, e)
  <2>1. CopyOf(l, rep, e)
    BY <1>1
  <2>2. rep.ents[e] = Absent \/ (Shows(m, e, rep.ents[e]) /\ ~Ended(m, rep, e, rep.ents[e].gen))
    BY <1>3, <2>1, PastStays DEF CopyOf
  <2>3. rep.tombs[e] = NoTomb \/ (/\ rep.tombs[e].seq \in 1..Len(m)
                                  /\ m[rep.tombs[e].seq].id = e /\ m[rep.tombs[e].seq].kind = "leave"
                                  /\ m[rep.tombs[e].seq].gen = rep.tombs[e].gen)
    BY <1>2, <2>1 DEF CopyOf
  <2>4. ASSUME NEW i \in 1..Len(m), i <= rep.water, m[i].id = e PROVE Reached(m, rep, e, m[i].gen)
    <3>1. i \in 1..Len(l)
      BY <1>1, <1>2, <2>4
    <3>2. m[i] = l[i]
      BY <1>2, <3>1
    <3>3. Reached(l, rep, e, l[i].gen)
      BY <2>1, <2>4, <3>1, <3>2 DEF CopyOf
    <3> QED
      BY <1>4, <3>2, <3>3
  <2> QED
    BY <2>2, <2>3, <2>4 DEF CopyOf
<1>7. rep.water <= Len(m)
  BY <1>1, <1>2
<1> QED
  BY <1>1, <1>3, <1>4, <1>5, <1>6, <1>7 DEF CopyInv

\* What a snapshot says stays true.
LEMMA AccurateStays ==
    ASSUME NEW l, NEW m, Orderly(l), Orderly(m), Continues(l, m), NEW n \in Nat, n <= Len(l), NEW ents, Accurate(l, n, ents)
    PROVE  Accurate(m, n, ents)
<1> SUFFICES ASSUME NEW e \in Entities PROVE IF ents[e] = Absent THEN Vacant(m, e, n) ELSE Present(m, e, n, ents[e])
  BY DEF Accurate
<1>1. IF ents[e] = Absent THEN Vacant(l, e, n) ELSE Present(l, e, n, ents[e])
  BY DEF Accurate
<1> QED
  BY <1>1, PastStays

\* The owner's next event may follow the log.
Follows(l, ev) ==
    /\ ev \in Events /\ ev.seq = Len(l) + 1 /\ Len(l) < MaxSeq
    /\ ev.kind = "entry" \/ \E k \in 1..Len(l) : l[k].id = ev.id /\ l[k].gen = ev.gen /\ l[k].kind = "entry"
    /\ \A i \in 1..Len(l) : l[i].id = ev.id => Before(l[i], ev)

\* m is s with x at the end.
Longer(s, x, m) == m = Append(s, x)

\* The owner applies one more event: the log stays orderly.
LEMMA LogGrows ==
    ASSUME NEW l, Orderly(l), NEW ev, Follows(l, ev), NEW m, Longer(l, ev, m)
    PROVE  Orderly(m) /\ Continues(l, m) /\ Len(m) = Len(l) + 1 /\ m[Len(m)] = ev
<1>1. l \in Seq(Events) /\ Len(l) \in Nat /\ Len(l) < MaxSeq /\ MaxSeq \in Nat /\ ev \in Events
  BY ConstantsAssumption DEF Orderly, Follows
<1>2. m \in Seq(Events) /\ Len(m) = Len(l) + 1 /\ m[Len(l) + 1] = ev /\ \A i \in 1..Len(l) : m[i] = l[i]
  BY <1>1 DEF Longer
<1>3. \A i \in 1..Len(m) : i \in 1..Len(l) \/ i = Len(m)
  BY <1>1, <1>2
<1>4. \A i \in 1..Len(l) : i \in 1..Len(m) /\ i \in Nat
  BY <1>1, <1>2
<1>5. Numbered(m)
  BY <1>2, <1>3 DEF Orderly, Numbered, Follows
<1>6. Started(m)
  <2> SUFFICES ASSUME NEW i \in 1..Len(m)
               PROVE  \E k \in 1..i : m[k].id = m[i].id /\ m[k].gen = m[i].gen /\ m[k].kind = "entry"
    BY DEF Started
  <2>1. CASE i \in 1..Len(l)
    <3>1. PICK k \in 1..i : l[k].id = l[i].id /\ l[k].gen = l[i].gen /\ l[k].kind = "entry"
      BY <2>1 DEF Orderly, Started
    <3>2. k \in 1..Len(l)
      BY <1>1, <2>1
    <3> QED
      BY <1>2, <2>1, <3>1, <3>2
  <2>2. CASE i = Len(m) /\ ev.kind = "entry"
    <3>1. i \in 1..i /\ m[i] = ev
      BY <1>1, <1>2, <2>2
    <3> QED
      BY <2>2, <3>1
  <2>3. CASE i = Len(m) /\ ev.kind # "entry"
    <3>1. PICK k \in 1..Len(l) : l[k].id = ev.id /\ l[k].gen = ev.gen /\ l[k].kind = "entry"
      BY <2>3 DEF Follows
    <3>2. k \in 1..i /\ m[k] = l[k] /\ m[i] = ev
      BY <1>1, <1>2, <2>3
    <3> QED
      BY <3>1, <3>2
  <2> QED
    BY <1>3, <2>1, <2>2, <2>3
<1>7. Sorted(m)
  <2> SUFFICES ASSUME NEW i \in 1..Len(m), NEW j \in 1..Len(m), i < j, m[i].id = m[j].id PROVE Before(m[i], m[j])
    BY DEF Sorted
  <2>1. i \in 1..Len(l) /\ m[i] = l[i]
    BY <1>1, <1>2
  <2>2. CASE j \in 1..Len(l)
    BY <1>2, <2>1, <2>2 DEF Orderly, Sorted
  <2>3. CASE j = Len(m)
    BY <1>2, <2>1, <2>3 DEF Follows
  <2> QED
    BY <1>3, <2>2, <2>3
<1> QED
  BY <1>1, <1>2, <1>5, <1>6, <1>7 DEF Orderly, Continues

\* An event that ends the state of an entity, or replaces it, may follow.
LEMMA NextVersion ==
    ASSUME NEW l, Orderly(l), Len(l) < MaxSeq, NEW e \in Entities, NEW s, Present(l, e, Len(l), s),
           NEW ev \in Events, ev.seq = Len(l) + 1, ev.id = e, ev.gen = s.gen, ev.ver = s.ver + 1
    PROVE  Follows(l, ev)
<1>1. Len(l) \in Nat
  BY DEF Orderly
<1>2. Shows(l, e, s)
  BY DEF Present
<1>3. PICK k \in 1..Len(l) : k = s.seq /\ l[k].id = e /\ l[k].gen = s.gen /\ l[k].ver = s.ver /\ l[k].kind # "leave"
  BY <1>2, ShownFields
<1>4. \E j \in 1..Len(l) : l[j].id = e /\ l[j].gen = s.gen /\ l[j].kind = "entry"
  <2>1. PICK j \in 1..k : l[j].id = l[k].id /\ l[j].gen = l[k].gen /\ l[j].kind = "entry"
    BY DEF Orderly, Started
  <2>2. j \in 1..Len(l)
    BY <1>1
  <2> QED
    BY <1>3, <2>1, <2>2
<1>5. ASSUME NEW i \in 1..Len(l), l[i].id = e PROVE Before(l[i], ev)
  <2>1. l[i].gen \in Nat /\ l[i].ver \in Nat /\ l[k].gen \in Nat /\ l[k].ver \in Nat
    BY EventFields
  <2>2. i <= k
    BY <1>3, <1>5 DEF Present
  <2>3. /\ l[i].gen <= l[k].gen
        /\ l[i].kind = "leave" /\ i # k => l[i].gen < l[k].gen
        /\ l[i].gen = l[k].gen => l[i].ver <= l[k].ver
    BY <1>3, <1>5, <2>2, InLogOrder
  <2> QED
    BY <1>3, <2>1, <2>3 DEF Before
<1> QED
  BY <1>1, <1>4, <1>5 DEF Follows

\* What the log says of an entity after its next event.
LEMMA NextPresent ==
    ASSUME NEW l, Orderly(l), NEW m, Orderly(m), Continues(l, m), Len(m) = Len(l) + 1, NEW e \in Entities, NEW s
    PROVE  /\ m[Len(m)].id # e /\ Present(l, e, Len(l), s) => Present(m, e, Len(m), s)
           /\ m[Len(m)].id # e /\ Vacant(l, e, Len(l)) => Vacant(m, e, Len(m))
           /\ m[Len(m)].id = e /\ m[Len(m)].kind # "leave" /\ s = StateOf(m[Len(m)]) => Present(m, e, Len(m), s)
           /\ m[Len(m)].id = e /\ m[Len(m)].kind = "leave" => Vacant(m, e, Len(m))
<1> DEFINE n == Len(l)  ev == m[Len(m)]
<1>1. n \in Nat /\ Len(m) = n + 1 /\ n + 1 \in 1..Len(m) /\ \A i \in 1..Len(m) : i = n + 1 \/ i \in 1..n
  BY DEF Orderly
<1>2. \A i \in 1..n : m[i] = l[i] /\ i \in 1..Len(m)
  BY <1>1 DEF Continues
<1>3. ev = m[n + 1] /\ ev.seq = n + 1 /\ ev.gen \in Nat
  BY <1>1, EventFields
<1> HIDE DEF n, ev
<1>4. ASSUME ev.id # e, Present(l, e, n, s) PROVE Present(m, e, Len(m), s)
  <2>1. Shows(m, e, s) /\ s.seq <= n /\ s.seq \in Nat
    BY <1>4, PastStays, ShownFields DEF Present
  <2>2. ASSUME NEW i \in 1..Len(m), m[i].id = e PROVE i <= s.seq
    <3>1. i \in 1..n
      BY <1>1, <1>3, <1>4, <2>2
    <3> QED
      BY <1>2, <1>4, <2>2, <3>1 DEF Present
  <2>3. s.seq <= Len(m)
    BY <1>1, <2>1
  <2> QED
    BY <2>1, <2>2, <2>3 DEF Present
<1>5. ASSUME ev.id # e, Vacant(l, e, n) PROVE Vacant(m, e, Len(m))
  <2> SUFFICES ASSUME NEW i \in 1..Len(m), m[i].id = e
               PROVE  \E j \in 1..Len(m) : m[j].id = e /\ m[j].kind = "leave" /\ m[j].gen >= m[i].gen
    BY DEF Vacant
  <2>1. i \in 1..n /\ l[i].id = e
    BY <1>1, <1>2, <1>3, <1>5
  <2>2. PICK j \in 1..n : l[j].id = e /\ l[j].kind = "leave" /\ l[j].gen >= l[i].gen
    BY <1>5, <2>1 DEF Vacant
  <2> QED
    BY <1>2, <2>1, <2>2
<1>6. ASSUME ev.id = e, ev.kind # "leave", s = StateOf(ev) PROVE Present(m, e, Len(m), s)
  <2>1. s.seq = n + 1 /\ s.gen = ev.gen /\ s.ver = ev.ver /\ s.pos = ev.pos
    BY <1>3, <1>6 DEF StateOf
  <2>2. Shows(m, e, s)
    BY <1>1, <1>3, <1>6, <2>1 DEF Shows
  <2> QED
    BY <1>1, <2>1, <2>2 DEF Present
<1>7. ASSUME ev.id = e, ev.kind = "leave" PROVE Vacant(m, e, Len(m))
  <2> SUFFICES ASSUME NEW i \in 1..Len(m), m[i].id = e
               PROVE  \E j \in 1..Len(m) : m[j].id = e /\ m[j].kind = "leave" /\ m[j].gen >= m[i].gen
    BY DEF Vacant
  <2>1. m[i].gen \in Nat /\ i \in Nat /\ i <= n + 1
    BY <1>1, EventFields
  <2>2. m[i].gen <= m[n + 1].gen
    BY <1>1, <1>3, <1>7, <2>1, InLogOrder
  <2> QED
    BY <1>1, <1>3, <1>7, <2>1, <2>2
<1> QED
  BY <1>4, <1>5, <1>6, <1>7 DEF n, ev

-----------------------------------------------------------------------------
(* The inductive invariant.                                                *)

\* What is under way repeats the log.
IsEvent(l, m) == m.seq \in 1..Len(l) /\ m = l[m.seq]
IsSnapshot(l, m) == m \in Snapshots /\ m.seq <= Len(l) /\ Accurate(l, m.seq, m.ents)
PublishesOK(l, p) == p \in Seq(Publications) /\ \A k \in 1..Len(p) : IsEvent(l, p[k].event)
InboxOK(l, q) == q \in Seq(Events \cup Snapshots) /\ \A k \in 1..Len(q) : IsEvent(l, q[k]) \/ IsSnapshot(l, q[k])
AnswerOK(l, a) == a = NoAnswer \/ IsSnapshot(l, a)
MovesOK(l, mv) == /\ mv \in [Entities -> Events \cup {NoMove}]
                  /\ \A e \in Entities : mv[e] = NoMove \/ (IsEvent(l, mv[e]) /\ mv[e].kind = "move" /\ mv[e].id = e)

\* The owner's entities are what the log leaves behind.
OwnerOK(l, own, ge) ==
    /\ own \in [Entities -> States] /\ ge \in [Entities -> Nat]
    /\ Accurate(l, Len(l), own)
    /\ \A e \in Entities : own[e] = Absent \/ own[e].gen = ge[e]
    /\ \A i \in 1..Len(l) : l[i].gen <= ge[l[i].id]

\* Every event waits to be sent to r, waits in r's queue, or r's copies are
\* at least as far: an entry is reached and a leave is past.
Waiting(ev, r, p) == \E k \in 1..Len(p) : p[k].event = ev /\ r \in p[k].remaining
Queued(ev, q) == \E k \in 1..Len(q) : q[k] = ev
Heeded(l, rep, ev) == /\ ev.kind = "entry" => Reached(l, rep, ev.id, ev.gen)
                      /\ ev.kind = "leave" => Left(l, rep, ev.id, ev.gen)
Delivery(l, r, p, q, rep) ==
    \A i \in 1..Len(l) : Waiting(l[i], r, p) \/ Queued(l[i], q) \/ Heeded(l, rep, l[i])

\* A generation that r has stopped showing is past.
GoneOK(l, rep, go) == /\ go \in [Entities -> Nat]
                      /\ \A e \in Entities : go[e] = 0 \/ Left(l, rep, e, go[e])

RemoteOK(l, r, p, a, q, rep, mv, go) ==
    /\ AnswerOK(l, a) /\ InboxOK(l, q) /\ MovesOK(l, mv)
    /\ CopyInv(l, rep) /\ Delivery(l, r, p, q, rep) /\ GoneOK(l, rep, go)

Shapes ==
    /\ answers \in [Remotes -> Snapshots \cup {NoAnswer}]
    /\ requests \in [Remotes -> 0..MaxRequests]
    /\ inbox \in [Remotes -> Seq(Events \cup Snapshots)]
    /\ replica \in [Remotes -> Copies]
    /\ moves \in [Remotes -> [Entities -> Events \cup {NoMove}]]
    /\ needs \in [Remotes -> BOOLEAN]
    /\ gone \in [Remotes -> [Entities -> Nat]]

IInv ==
    /\ Orderly(log) /\ OwnerOK(log, owned, generation) /\ PublishesOK(log, publishes) /\ Shapes
    /\ \A r \in Remotes :
         RemoteOK(log, r, publishes, answers[r], inbox[r], replica[r], moves[r], gone[r])

-----------------------------------------------------------------------------
(* The owner's steps.                                                      *)

\* Events, snapshots and moves of the past stay what they are.
LEMMA WordsStay ==
    ASSUME NEW l, NEW m, Orderly(l), Orderly(m), Continues(l, m)
    PROVE  /\ \A x : IsEvent(l, x) => IsEvent(m, x)
           /\ \A x : IsSnapshot(l, x) => IsSnapshot(m, x)
           /\ \A x : AnswerOK(l, x) => AnswerOK(m, x)
           /\ \A x : InboxOK(l, x) => InboxOK(m, x)
           /\ \A x : MovesOK(l, x) => MovesOK(m, x)
<1>1. Len(l) \in Nat /\ Len(m) \in Nat /\ Len(l) <= Len(m) /\ \A i \in 1..Len(l) : i \in 1..Len(m) /\ m[i] = l[i]
  BY DEF Orderly, Continues
<1>2. \A x : IsEvent(l, x) => IsEvent(m, x)
  BY <1>1 DEF IsEvent
<1>3. ASSUME NEW x, IsSnapshot(l, x) PROVE IsSnapshot(m, x)
  <2>1. x \in Snapshots /\ x.seq <= Len(l) /\ Accurate(l, x.seq, x.ents)
    BY <1>3 DEF IsSnapshot
  <2>2. PICK n \in Nat : n = x.seq
    BY <2>1, ConstantsAssumption DEF Snapshots
  <2>3. Accurate(m, n, x.ents)
    BY <2>1, <2>2, AccurateStays
  <2>4. x.seq <= Len(m)
    BY <1>1, <2>1, <2>2
  <2> QED
    BY <2>1, <2>2, <2>3, <2>4 DEF IsSnapshot
<1>4. \A x : AnswerOK(l, x) => AnswerOK(m, x)
  BY <1>3 DEF AnswerOK
<1>5. \A x : InboxOK(l, x) => InboxOK(m, x)
  BY <1>2, <1>3 DEF InboxOK
<1>6. \A x : MovesOK(l, x) => MovesOK(m, x)
  BY <1>2 DEF MovesOK
<1> QED
  BY <1>2, <1>3, <1>4, <1>5, <1>6

\* Every remote keeps its part when the log grows by an event that is
\* waiting to be sent to all of them.
LEMMA RemoteWaits ==
    ASSUME NEW l, NEW m, Orderly(l), Orderly(m), Continues(l, m), Len(m) = Len(l) + 1,
           NEW r \in Remotes, NEW p \in Seq(Publications), NEW p2,
           Longer(p, [event |-> m[Len(m)], remaining |-> Remotes], p2),
           NEW a, NEW q, NEW rep, NEW mv, NEW go, RemoteOK(l, r, p, a, q, rep, mv, go)
    PROVE  RemoteOK(m, r, p2, a, q, rep, mv, go)
<1>1. /\ AnswerOK(l, a) /\ InboxOK(l, q) /\ MovesOK(l, mv)
      /\ CopyInv(l, rep) /\ Delivery(l, r, p, q, rep) /\ GoneOK(l, rep, go)
  BY DEF RemoteOK
<1>2. AnswerOK(m, a) /\ InboxOK(m, q) /\ MovesOK(m, mv)
  BY <1>1, WordsStay
<1>3. /\ CopyInv(m, rep)
      /\ \A e \in Entities : \A g : /\ (Ended(l, rep, e, g) <=> Ended(m, rep, e, g))
                                    /\ (Reached(l, rep, e, g) <=> Reached(m, rep, e, g))
                                    /\ (Left(l, rep, e, g) <=> Left(m, rep, e, g))
  BY <1>1, CopyStays
<1>4. GoneOK(m, rep, go)
  BY <1>1, <1>3 DEF GoneOK
<1>5. Len(l) \in Nat /\ Len(p) \in Nat /\ \A i \in 1..Len(l) : m[i] = l[i]
  BY DEF Orderly, Continues
<1>6. PICK new : new = [event |-> m[Len(m)], remaining |-> Remotes]
  OBVIOUS
<1>7. new.event = m[Len(m)] /\ r \in new.remaining
  BY <1>6
<1>8. new \in Publications
  <2>1. m[Len(m)] \in Events
    BY <1>5, EventFields
  <2> QED
    BY <1>6, <2>1 DEF Publications
<1>9. Len(p2) = Len(p) + 1 /\ p2[Len(p) + 1] = new /\ \A k \in 1..Len(p) : p2[k] = p[k]
  BY <1>6, <1>8 DEF Longer
<1>10. ASSUME NEW i \in 1..Len(m) PROVE Waiting(m[i], r, p2) \/ Queued(m[i], q) \/ Heeded(m, rep, m[i])
  <2>1. CASE i = Len(m)
    <3>1. Len(p) + 1 \in 1..Len(p2)
      BY <1>5, <1>9
    <3> QED
      BY <1>7, <1>9, <2>1, <3>1 DEF Waiting
  <2>2. CASE i \in 1..Len(l)
    <3>1. m[i] = l[i] /\ l[i].id \in Entities
      BY <1>5, <2>2, EventFields
    <3>2. Waiting(l[i], r, p) => Waiting(l[i], r, p2)
      <4>1. \A k \in 1..Len(p) : k \in 1..Len(p2)
        BY <1>5, <1>9
      <4> QED
        BY <1>9, <4>1 DEF Waiting
    <3>3. Heeded(l, rep, l[i]) => Heeded(m, rep, l[i])
      BY <1>3, <3>1 DEF Heeded
    <3>4. Waiting(l[i], r, p) \/ Queued(l[i], q) \/ Heeded(l, rep, l[i])
      BY <1>1, <2>2 DEF Delivery
    <3> QED
      BY <3>1, <3>2, <3>3, <3>4
  <2>3. i = Len(m) \/ i \in 1..Len(l)
    BY <1>5
  <2> QED
    BY <2>1, <2>2, <2>3
<1>11. Delivery(m, r, p2, q, rep)
  BY <1>10 DEF Delivery
<1> QED
  BY <1>2, <1>3, <1>4, <1>11 DEF RemoteOK

\* ApplyLocal of an event that may follow the log.
LEMMA AppliedLocally ==
    ASSUME IInv, NEW kind, NEW e \in Entities, NEW gen, NEW ver, NEW pos, ApplyLocal(kind, e, gen, ver, pos),
           Follows(log, Event(kind, e, gen, ver, pos, Len(log) + 1)),
           generation' \in [Entities -> Nat], generation'[e] = gen,
           \A x \in Entities : generation'[x] >= generation[x] /\ (x # e => generation'[x] = generation[x]),
           UNCHANGED <<answers, requests, inbox, remoteVars>>
    PROVE  IInv'
<1>1. PICK ev : ev = Event(kind, e, gen, ver, pos, Len(log) + 1)
  OBVIOUS
<1>2. /\ Follows(log, ev) /\ log' = Append(log, ev)
      /\ owned' = [owned EXCEPT ![e] = IF kind = "leave" THEN Absent ELSE StateOf(ev)]
      /\ publishes' = Append(publishes, [event |-> ev, remaining |-> Remotes])
  BY <1>1 DEF ApplyLocal, ownerSeq
<1>3. Orderly(log) /\ OwnerOK(log, owned, generation) /\ PublishesOK(log, publishes) /\ Shapes
  BY DEF IInv
<1>4. PICK m : m = log'
  OBVIOUS
<1>5. Orderly(m) /\ Continues(log, m) /\ Len(m) = Len(log) + 1 /\ m[Len(m)] = ev
  <2>1. Orderly(log) /\ Follows(log, ev) /\ Longer(log, ev, m)
    BY <1>2, <1>3, <1>4 DEF Longer
  <2> QED
    BY <2>1, LogGrows
<1>6. ev \in Events /\ ev.kind = kind /\ ev.id = e /\ ev.gen = gen /\ ev.seq = Len(log) + 1
  BY <1>1, <1>2 DEF Event, Follows
<1>7. Len(log) \in Nat /\ Len(m) \in 1..Len(m) /\ \A i \in 1..Len(m) : i = Len(m) \/ i \in 1..Len(log)
  BY <1>3, <1>5 DEF Orderly
<1>8. StateOf(ev) \in States
  BY <1>6 DEF StateOf, States, Events
<1>9. Absent \in States
  BY ConstantsAssumption DEF Absent, States
<1>10. owned \in [Entities -> States] /\ owned' \in [Entities -> States]
  BY <1>2, <1>3, <1>8, <1>9 DEF OwnerOK
<1>11. /\ owned'[e] = IF kind = "leave" THEN Absent ELSE StateOf(ev)
       /\ \A x \in Entities : x # e => owned'[x] = owned[x]
  BY <1>2, <1>10
<1>12. StateOf(ev).gen = gen /\ StateOf(ev).gen # Absent.gen
  BY <1>6 DEF StateOf, Absent, Events
<1>13. Accurate(m, Len(m), owned')
  <2> SUFFICES ASSUME NEW x \in Entities
               PROVE  IF owned'[x] = Absent THEN Vacant(m, x, Len(m)) ELSE Present(m, x, Len(m), owned'[x])
    BY DEF Accurate
  <2>1. IF owned[x] = Absent THEN Vacant(log, x, Len(log)) ELSE Present(log, x, Len(log), owned[x])
    BY <1>3 DEF OwnerOK, Accurate
  <2>2. CASE x # e
    BY <1>3, <1>5, <1>6, <1>11, <2>1, <2>2, NextPresent
  <2>3. CASE x = e /\ kind = "leave"
    <3>1. Vacant(m, x, Len(m))
      BY <1>3, <1>5, <1>6, <2>3, NextPresent
    <3> QED
      BY <1>11, <2>3, <3>1
  <2>4. CASE x = e /\ kind # "leave"
    <3>1. Present(m, x, Len(m), StateOf(ev))
      BY <1>3, <1>5, <1>6, <2>4, NextPresent
    <3> QED
      BY <1>11, <1>12, <2>4, <3>1
  <2> QED
    BY <2>2, <2>3, <2>4
<1>14. \A x \in Entities : owned'[x] = Absent \/ owned'[x].gen = generation'[x]
  BY <1>3, <1>11, <1>12 DEF OwnerOK
<1>15. ASSUME NEW i \in 1..Len(m) PROVE m[i].gen <= generation'[m[i].id]
  <2>1. CASE i = Len(m)
    BY <1>5, <1>6, <2>1
  <2>2. CASE i \in 1..Len(log)
    <3>1. m[i] = log[i] /\ log[i].id \in Entities /\ log[i].gen \in Nat
      BY <1>3, <1>5, <2>2, EventFields DEF Continues
    <3>2. log[i].gen <= generation[log[i].id] /\ generation \in [Entities -> Nat]
      BY <1>3, <2>2 DEF OwnerOK
    <3>3. PICK x \in Entities : x = log[i].id
      BY <3>1
    <3>4. generation'[x] >= generation[x] /\ generation'[x] \in Nat /\ generation[x] \in Nat /\ log[i].gen <= generation[x]
      BY <3>2, <3>3
    <3>5. log[i].gen <= generation'[x]
      BY <3>1, <3>4
    <3> QED
      BY <3>1, <3>3, <3>5
  <2> QED
    BY <1>7, <2>1, <2>2
<1>16. OwnerOK(m, owned', generation')
  BY <1>10, <1>13, <1>14, <1>15 DEF OwnerOK
<1>17. publishes \in Seq(Publications) /\ Len(publishes) \in Nat /\ \A k \in 1..Len(publishes) : IsEvent(log, publishes[k].event)
  BY <1>3 DEF PublishesOK
<1>18. PICK new : new = [event |-> ev, remaining |-> Remotes]
  OBVIOUS
<1>19. new \in Publications /\ new.event = ev
  BY <1>6, <1>18 DEF Publications
<1>20. /\ publishes' \in Seq(Publications) /\ Len(publishes') = Len(publishes) + 1 /\ publishes'[Len(publishes) + 1] = new
       /\ \A k \in 1..Len(publishes) : publishes'[k] = publishes[k]
  BY <1>2, <1>17, <1>18, <1>19
<1>21. IsEvent(m, ev)
  BY <1>5, <1>6, <1>7 DEF IsEvent
<1>22. PublishesOK(m, publishes')
  <2>1. \A k \in 1..Len(publishes') : k \in 1..Len(publishes) \/ k = Len(publishes) + 1
    BY <1>17, <1>20
  <2>2. \A k \in 1..Len(publishes') : IsEvent(m, publishes'[k].event)
    BY <1>3, <1>5, <1>17, <1>19, <1>20, <1>21, <2>1, WordsStay
  <2> QED
    BY <1>20, <2>2 DEF PublishesOK
<1>23. Shapes'
  BY <1>3 DEF Shapes, remoteVars
<1>24. ASSUME NEW r \in Remotes
       PROVE  RemoteOK(m, r, publishes', answers[r], inbox[r], replica[r], moves[r], gone[r])
  <2>1. RemoteOK(log, r, publishes, answers[r], inbox[r], replica[r], moves[r], gone[r])
    BY DEF IInv
  <2>2. PICK p2 : p2 = publishes'
    OBVIOUS
  <2>3. Longer(publishes, [event |-> m[Len(m)], remaining |-> Remotes], p2)
    BY <1>2, <1>5, <2>2 DEF Longer
  <2>4. Orderly(log) /\ publishes \in Seq(Publications)
    BY <1>3, <1>17
  <2>5. RemoteOK(m, r, p2, answers[r], inbox[r], replica[r], moves[r], gone[r])
    BY <1>5, <2>1, <2>3, <2>4, RemoteWaits
  <2> QED
    BY <2>2, <2>5
<1> QED
  BY <1>4, <1>5, <1>16, <1>22, <1>23, <1>24 DEF IInv, remoteVars

\* OnEntityEnter.
LEMMA EnterStep ==
    ASSUME IInv, NEW e \in Entities, NEW pos \in Positions, Enter(e, pos)
    PROVE  IInv'
<1>1. /\ Orderly(log) /\ OwnerOK(log, owned, generation)
      /\ ApplyLocal("entry", e, generation[e] + 1, 1, pos)
      /\ generation' = [generation EXCEPT ![e] = @ + 1]
      /\ UNCHANGED <<answers, requests, inbox, remoteVars>>
  BY DEF IInv, Enter
<1>2. generation \in [Entities -> Nat] /\ \A i \in 1..Len(log) : log[i].gen <= generation[log[i].id]
  BY <1>1 DEF OwnerOK
<1>3. /\ generation' \in [Entities -> Nat] /\ generation'[e] = generation[e] + 1 /\ generation[e] + 1 \in Nat \ {0}
      /\ \A x \in Entities : generation'[x] >= generation[x] /\ (x # e => generation'[x] = generation[x])
  BY <1>1, <1>2
<1>4. PICK ev : ev = Event("entry", e, generation[e] + 1, 1, pos, Len(log) + 1)
  OBVIOUS
<1>5. Len(log) \in Nat /\ Len(log) < MaxSeq /\ MaxSeq \in Nat /\ Len(log) + 1 \in 1..MaxSeq
  BY <1>1, ConstantsAssumption DEF ApplyLocal, ownerSeq, Orderly
<1>6. ev \in Events /\ ev.kind = "entry" /\ ev.id = e /\ ev.gen = generation[e] + 1 /\ ev.seq = Len(log) + 1
  BY <1>3, <1>4, <1>5 DEF Event, Events, Kinds
<1>7. ASSUME NEW i \in 1..Len(log), log[i].id = e PROVE Before(log[i], ev)
  <2>1. log[i].gen \in Nat /\ log[i].gen <= generation[e] /\ generation[e] \in Nat
    BY <1>1, <1>2, <1>7, EventFields
  <2> QED
    BY <1>6, <2>1 DEF Before
<1>8. Follows(log, ev)
  BY <1>5, <1>6, <1>7 DEF Follows
<1> QED
  BY <1>1, <1>3, <1>4, <1>8, AppliedLocally

\* What the owner has of an entity that is there.
LEMMA OwnedIsPresent ==
    ASSUME IInv, NEW e \in Entities, owned[e] # Absent
    PROVE  /\ Orderly(log) /\ Present(log, e, Len(log), owned[e]) /\ owned[e].gen = generation[e]
           /\ owned[e].gen \in Nat \ {0} /\ owned[e].ver + 1 \in Nat \ {0} /\ owned[e].pos \in Positions
           /\ generation \in [Entities -> Nat]
<1>1. Orderly(log) /\ OwnerOK(log, owned, generation)
  BY DEF IInv
<1>2. Present(log, e, Len(log), owned[e]) /\ owned[e].gen = generation[e] /\ generation \in [Entities -> Nat]
  BY <1>1 DEF OwnerOK, Accurate
<1>3. Shows(log, e, owned[e])
  BY <1>2 DEF Present
<1>4. owned[e].gen \in Nat /\ owned[e].gen > 0 /\ owned[e].ver \in Nat
  BY <1>1, <1>3, ShownFields
<1>5. owned[e].pos \in Positions
  <2>1. PICK k \in 1..Len(log) : owned[e].pos = log[k].pos
    BY <1>3 DEF Shows
  <2> QED
    BY <1>1, <2>1, EventFields
<1> QED
  BY <1>1, <1>2, <1>4, <1>5

\* The next version of an entity that is there.
LEMMA NextVersionStep ==
    ASSUME IInv, NEW e \in Entities, NEW pos \in Positions, owned[e] # Absent, NEW kind \in {"move", "leave"},
           ApplyLocal(kind, e, owned[e].gen, owned[e].ver + 1, pos),
           UNCHANGED <<generation, answers, requests, inbox, remoteVars>>
    PROVE  IInv'
<1>1. /\ Orderly(log) /\ Present(log, e, Len(log), owned[e]) /\ owned[e].gen = generation[e]
      /\ owned[e].gen \in Nat \ {0} /\ owned[e].ver + 1 \in Nat \ {0}
      /\ generation \in [Entities -> Nat]
  BY OwnedIsPresent
<1>2. PICK ev : ev = Event(kind, e, owned[e].gen, owned[e].ver + 1, pos, Len(log) + 1)
  OBVIOUS
<1>3. Len(log) \in Nat /\ Len(log) < MaxSeq /\ MaxSeq \in Nat /\ Len(log) + 1 \in 1..MaxSeq
  BY <1>1, ConstantsAssumption DEF ApplyLocal, ownerSeq, Orderly
<1>4. kind \in Kinds
  BY DEF Kinds
<1>5. ev \in Events /\ ev.id = e /\ ev.gen = owned[e].gen /\ ev.ver = owned[e].ver + 1 /\ ev.seq = Len(log) + 1
  BY <1>1, <1>2, <1>3, <1>4 DEF Event, Events
<1>6. Follows(log, ev)
  BY <1>1, <1>3, <1>5, NextVersion
<1>7. generation' = generation
  OBVIOUS
<1>8. /\ generation' \in [Entities -> Nat] /\ generation'[e] = owned[e].gen
      /\ \A x \in Entities : generation'[x] >= generation[x] /\ (x # e => generation'[x] = generation[x])
  BY <1>1, <1>7
<1>9. UNCHANGED <<answers, requests, inbox, remoteVars>>
  OBVIOUS
<1> QED
  BY <1>2, <1>6, <1>8, <1>9, AppliedLocally

\* OnLocalEntityMoved and OnEntityLeave.
LEMMA MoveStep ==
    ASSUME IInv, NEW e \in Entities, NEW pos \in Positions, Move(e, pos)
    PROVE  IInv'
<1>1. /\ owned[e] # Absent /\ ApplyLocal("move", e, owned[e].gen, owned[e].ver + 1, pos)
      /\ UNCHANGED <<generation, answers, requests, inbox, remoteVars>>
  BY DEF Move
<1> QED
  BY <1>1, NextVersionStep

\* OnEntityLeave.
LEMMA LeaveStep ==
    ASSUME IInv, NEW e \in Entities, Leave(e)
    PROVE  IInv'
<1>1. /\ owned[e] # Absent /\ ApplyLocal("leave", e, owned[e].gen, owned[e].ver + 1, owned[e].pos)
      /\ UNCHANGED <<generation, answers, requests, inbox, remoteVars>>
  BY DEF Leave
<1>2. owned[e].pos \in Positions
  BY <1>1, OwnedIsPresent
<1> QED
  BY <1>1, <1>2, NextVersionStep

-----------------------------------------------------------------------------
(* The owner's sends.                                                      *)

\* A tick sends what the targets accept and keeps the rest.
LEMMA TickFacts ==
    ASSUME IInv, NEW accepted \in SUBSET Sends, RetryPublishes(accepted)
    PROVE  /\ PublishesOK(log, publishes') /\ inbox' \in [Remotes -> Seq(Events \cup Snapshots)]
           /\ \A r \in Remotes : InboxOK(log, inbox'[r])
           /\ \A r \in Remotes, i \in 1..Len(log) :
                Waiting(log[i], r, publishes) \/ Queued(log[i], inbox[r]) =>
                Waiting(log[i], r, publishes') \/ Queued(log[i], inbox'[r])
<1> DEFINE n == Len(publishes)
           left == Walked(accepted)
           evs == [i \in 1..n |-> publishes[i].event]
           K(r) == {i \in DOMAIN publishes : <<i, r>> \in accepted}
           M == {i \in DOMAIN left : left[i].remaining # {}}
           got(r) == Delivered(r, accepted)
<1>1. /\ publishes \in Seq(Publications) /\ n \in Nat /\ DOMAIN publishes = 1..n
      /\ \A k \in 1..n : /\ IsEvent(log, publishes[k].event) /\ publishes[k] \in Publications
                         /\ publishes[k].event \in Events /\ publishes[k].remaining \in SUBSET Remotes
  <2>1. publishes \in Seq(Publications) /\ n \in Nat /\ DOMAIN publishes = 1..n /\ \A k \in 1..n : IsEvent(log, publishes[k].event)
    BY DEF IInv, PublishesOK
  <2>2. \A k \in 1..n : publishes[k] \in Publications
    BY <2>1
  <2> QED
    BY <2>1, <2>2 DEF Publications
<1>2. /\ \A r \in Remotes : inbox[r] \in Seq(Events \cup Snapshots) /\ InboxOK(log, inbox[r])
  BY DEF IInv, RemoteOK, Shapes
<1>3. publishes' = Chosen(left, M) /\ inbox' = [r \in Remotes |-> inbox[r] \o got(r)]
  BY DEF RetryPublishes
<1>4. /\ left = [i \in 1..n |-> [publishes[i] EXCEPT !.remaining = Remaining(i, accepted)]]
      /\ \A i \in 1..n : Remaining(i, accepted) = {r \in publishes[i].remaining : <<i, r>> \notin accepted}
  BY DEF Walked, Remaining
<1>5. ASSUME NEW i \in 1..n
      PROVE  /\ left[i] \in Publications /\ left[i].event = publishes[i].event
             /\ left[i].remaining = {r \in publishes[i].remaining : <<i, r>> \notin accepted}
  <2>1. publishes[i] \in Publications /\ Remaining(i, accepted) \in SUBSET Remotes
    BY <1>1, <1>4
  <2>2. left[i] = [publishes[i] EXCEPT !.remaining = Remaining(i, accepted)]
    BY <1>4
  <2> HIDE DEF left
  <2>3. left[i].event = publishes[i].event /\ left[i].remaining = Remaining(i, accepted) /\ left[i] \in Publications
    BY <2>1, <2>2 DEF Publications
  <2> QED
    BY <1>4, <2>3
<1>6. left \in Seq(Publications) /\ Len(left) = n /\ DOMAIN left = 1..n
  <2>1. left \in [1..n -> Publications]
    <3>1. left = [i \in 1..n |-> [publishes[i] EXCEPT !.remaining = Remaining(i, accepted)]]
      BY <1>4
    <3>2. DOMAIN left = 1..n /\ left = [i \in 1..n |-> left[i]]
      BY <3>1
    <3> HIDE DEF left
    <3> QED
      BY <1>5, <3>2
  <2> HIDE DEF left
  <2> QED
    BY <1>1, <2>1
<1>7. evs \in Seq(Events) /\ Len(evs) = n /\ \A i \in 1..n : evs[i] = publishes[i].event
  <2>1. evs \in [1..n -> Events] /\ \A i \in 1..n : evs[i] = publishes[i].event
    BY <1>1
  <2> HIDE DEF evs
  <2> QED
    BY <1>1, <2>1
<1>8. \A r : got(r) = Chosen(evs, K(r))
  BY DEF Delivered
<1>9. M = {i \in 1..n : left[i].remaining # {}} /\ \A r : K(r) = {i \in 1..n : <<i, r>> \in accepted}
  BY <1>1, <1>6
<1> HIDE DEF n, left, evs, K, M, got
\* The publications that stay.
<1>10. PublishesOK(log, publishes')
  <2> DEFINE Y == {x \in Publications : IsEvent(log, x.event)}
  <2>1. \A i \in 1..n : left[i] \in Y
    BY <1>1, <1>5
  <2> HIDE DEF Y
  <2>2. Chosen(left, M) \in Seq(Y)
    BY <1>6, <2>1, ChosenAmong
  <2>3. publishes' \in Seq(Y)
    BY <1>3, <2>2
  <2>4. \A k \in 1..Len(publishes') : publishes'[k] \in Y
    BY <2>3
  <2>5. publishes' \in Seq(Publications)
    BY <2>3 DEF Y
  <2> QED
    BY <2>4, <2>5 DEF Y, PublishesOK
<1>11. ASSUME NEW r \in Remotes
       PROVE  /\ got(r) \in Seq(Events \cup Snapshots) /\ \A k \in 1..Len(got(r)) : IsEvent(log, got(r)[k])
              /\ \A i \in 1..n : <<i, r>> \in accepted => \E j \in 1..Len(got(r)) : got(r)[j] = publishes[i].event
  <2> DEFINE Y == {x \in Events \cup Snapshots : IsEvent(log, x)}
  <2>1. \A i \in 1..n : evs[i] \in Y
    BY <1>1, <1>7
  <2> HIDE DEF Y
  <2>2. PICK g : g = got(r)
    OBVIOUS
  <2>3. g = Chosen(evs, K(r))
    BY <1>8, <2>2
  <2>4. Chosen(evs, K(r)) \in Seq(Y)
    BY <1>7, <2>1, ChosenAmong
  <2>5. g \in Seq(Y)
    BY <2>3, <2>4
  <2>6. \A k \in 1..Len(g) : g[k] \in Y
    BY <2>5
  <2>7. g \in Seq(Events \cup Snapshots)
    BY <2>5 DEF Y
  <2>8. \A i \in 1..n : i \in K(r) => \E j \in 1..Len(Chosen(evs, K(r))) : Chosen(evs, K(r))[j] = evs[i]
    BY <1>7, ChosenAll
  <2>9. \A i \in 1..n : i \in K(r) => \E j \in 1..Len(g) : g[j] = evs[i]
    BY <2>3, <2>8
  <2> QED
    BY <1>7, <1>9, <2>2, <2>6, <2>7, <2>9 DEF Y
<1>12. ASSUME NEW r \in Remotes
       PROVE  /\ inbox'[r] \in Seq(Events \cup Snapshots)
              /\ \A k \in 1..Len(inbox'[r]) : \/ \E j \in 1..Len(inbox[r]) : inbox'[r][k] = inbox[r][j]
                                              \/ \E j \in 1..Len(got(r)) : inbox'[r][k] = got(r)[j]
              /\ \A j \in 1..Len(inbox[r]) : \E k \in 1..Len(inbox'[r]) : inbox'[r][k] = inbox[r][j]
              /\ \A j \in 1..Len(got(r)) : \E k \in 1..Len(inbox'[r]) : inbox'[r][k] = got(r)[j]
  <2>1. PICK c, s, g : c = inbox'[r] /\ s = inbox[r] /\ g = got(r)
    OBVIOUS
  <2>2. /\ Cat(s, g, c) /\ s \in Seq(Events \cup Snapshots) /\ g \in Seq(Events \cup Snapshots)
    BY <1>2, <1>3, <1>11, <2>1 DEF Cat
  <2>3. /\ c \in Seq(Events \cup Snapshots)
        /\ \A i \in DOMAIN c : (\E j \in DOMAIN s : c[i] = s[j]) \/ (\E j \in DOMAIN g : c[i] = g[j])
        /\ \A j \in DOMAIN s : \E i \in DOMAIN c : c[i] = s[j]
        /\ \A j \in DOMAIN g : \E i \in DOMAIN c : c[i] = g[j]
    BY <2>2, CatMembers
  <2>4. DOMAIN c = 1..Len(c) /\ DOMAIN s = 1..Len(s) /\ DOMAIN g = 1..Len(g)
    BY <2>2, <2>3
  <2>5. /\ \A i \in 1..Len(c) : (\E j \in 1..Len(s) : c[i] = s[j]) \/ (\E j \in 1..Len(g) : c[i] = g[j])
        /\ \A j \in 1..Len(s) : \E i \in 1..Len(c) : c[i] = s[j]
        /\ \A j \in 1..Len(g) : \E i \in 1..Len(c) : c[i] = g[j]
    BY <2>3, <2>4
  <2> QED
    BY <2>1, <2>3, <2>5
<1>13. ASSUME NEW r \in Remotes PROVE InboxOK(log, inbox'[r])
  BY <1>2, <1>11, <1>12 DEF InboxOK
<1>14. inbox' \in [Remotes -> Seq(Events \cup Snapshots)]
  BY <1>3, <1>12
<1>15. ASSUME NEW r \in Remotes, NEW i \in 1..Len(log), Queued(log[i], inbox[r]) PROVE Queued(log[i], inbox'[r])
  BY <1>12, <1>15 DEF Queued
<1>16. ASSUME NEW r \in Remotes, NEW i \in 1..Len(log), Waiting(log[i], r, publishes)
       PROVE  Waiting(log[i], r, publishes') \/ Queued(log[i], inbox'[r])
  <2>1. PICK k \in 1..n : publishes[k].event = log[i] /\ r \in publishes[k].remaining
    BY <1>16 DEF Waiting, n
  <2>2. CASE <<k, r>> \in accepted
    <3>1. PICK j \in 1..Len(got(r)) : got(r)[j] = log[i]
      BY <1>11, <2>1, <2>2
    <3> QED
      BY <1>12, <3>1 DEF Queued
  <2>3. CASE <<k, r>> \notin accepted
    <3>1. r \in left[k].remaining /\ left[k].event = log[i]
      BY <1>5, <2>1, <2>3
    <3>2. k \in M /\ k \in 1..Len(left)
      BY <1>6, <1>9, <3>1
    <3>3. PICK j \in 1..Len(Chosen(left, M)) : Chosen(left, M)[j] = left[k]
      BY <1>6, <3>2, ChosenAll
    <3>4. j \in 1..Len(publishes') /\ publishes'[j] = left[k]
      BY <1>3, <3>3
    <3> QED
      BY <3>1, <3>4 DEF Waiting
  <2> QED
    BY <2>2, <2>3
<1> QED
  BY <1>10, <1>13, <1>14, <1>15, <1>16

\* RetryPublishes in one tick.
LEMMA OwnerTickStep ==
    ASSUME IInv, OwnerTick
    PROVE  IInv'
<1>1. PICK accepted \in SUBSET Sends : RetryPublishes(accepted)
  BY DEF OwnerTick
<1>2. UNCHANGED <<owned, generation, log, answers, requests, replica, moves, needs, gone>>
  BY <1>1 DEF RetryPublishes, remoteVars
<1>3. /\ PublishesOK(log, publishes') /\ inbox' \in [Remotes -> Seq(Events \cup Snapshots)]
      /\ \A r \in Remotes : InboxOK(log, inbox'[r])
      /\ \A r \in Remotes, i \in 1..Len(log) :
           Waiting(log[i], r, publishes) \/ Queued(log[i], inbox[r]) =>
           Waiting(log[i], r, publishes') \/ Queued(log[i], inbox'[r])
  BY <1>1, TickFacts
<1>4. ASSUME NEW r \in Remotes
      PROVE  RemoteOK(log, r, publishes', answers[r], inbox'[r], replica[r], moves[r], gone[r])
  <2>1. RemoteOK(log, r, publishes, answers[r], inbox[r], replica[r], moves[r], gone[r])
    BY DEF IInv
  <2>2. Delivery(log, r, publishes', inbox'[r], replica[r])
    BY <1>3, <2>1 DEF RemoteOK, Delivery
  <2> QED
    BY <1>3, <2>1, <2>2 DEF RemoteOK
<1>5. Shapes'
  BY <1>2, <1>3 DEF IInv, Shapes
<1> QED
  BY <1>2, <1>3, <1>4, <1>5 DEF IInv

\* onService for a request: BuildOwnerSnapshot.
LEMMA AnswerRequestStep ==
    ASSUME IInv, NEW r \in Remotes, AnswerRequest(r)
    PROVE  IInv'
<1>1. /\ requests[r] > 0 /\ requests' = [requests EXCEPT ![r] = @ - 1]
      /\ answers' = [answers EXCEPT ![r] = BuildOwnerSnapshot]
      /\ UNCHANGED <<owned, generation, log, publishes, inbox, replica, moves, needs, gone>>
  BY DEF AnswerRequest, ownerVars, remoteVars
<1>2. Orderly(log) /\ OwnerOK(log, owned, generation) /\ Shapes
  BY DEF IInv
<1>3. PICK snap : snap = BuildOwnerSnapshot
  OBVIOUS
<1>4. snap.kind = "snapshot" /\ snap.seq = Len(log) /\ snap.ents = owned /\ snap = [kind |-> "snapshot", seq |-> Len(log), ents |-> owned]
  BY <1>3 DEF BuildOwnerSnapshot, ownerSeq
<1>5. Len(log) \in 0..MaxSeq /\ owned \in [Entities -> States] /\ Accurate(log, Len(log), owned) /\ Len(log) <= Len(log)
  BY <1>2, ConstantsAssumption DEF Orderly, OwnerOK
<1>6. snap \in Snapshots /\ IsSnapshot(log, snap)
  <2>1. snap \in Snapshots
    BY <1>4, <1>5 DEF Snapshots
  <2> QED
    BY <1>4, <1>5, <2>1 DEF IsSnapshot
<1>7. answers \in [Remotes -> Snapshots \cup {NoAnswer}] /\ requests \in [Remotes -> 0..MaxRequests]
  BY <1>2 DEF Shapes
<1>8. /\ answers' \in [Remotes -> Snapshots \cup {NoAnswer}]
      /\ \A x \in Remotes : answers'[x] = IF x = r THEN snap ELSE answers[x]
  BY <1>1, <1>3, <1>6, <1>7
<1>9. requests' \in [Remotes -> 0..MaxRequests]
  BY <1>1, <1>7, ConstantsAssumption
<1>10. Shapes'
  BY <1>1, <1>2, <1>8, <1>9 DEF Shapes
<1>11. ASSUME NEW x \in Remotes PROVE RemoteOK(log, x, publishes, answers'[x], inbox[x], replica[x], moves[x], gone[x])
  <2>1. RemoteOK(log, x, publishes, answers[x], inbox[x], replica[x], moves[x], gone[x])
    BY DEF IInv
  <2>2. AnswerOK(log, answers'[x])
    BY <1>6, <1>8, <2>1 DEF RemoteOK, AnswerOK
  <2> QED
    BY <2>1, <2>2 DEF RemoteOK
<1> QED
  BY <1>1, <1>10, <1>11 DEF IInv

\* advanceAoiRecovery on the owner.
LEMMA SendAnswerStep ==
    ASSUME IInv, NEW r \in Remotes, SendAnswer(r)
    PROVE  IInv'
<1>1. /\ answers[r] # NoAnswer /\ inbox' = [inbox EXCEPT ![r] = Append(@, answers[r])]
      /\ answers' = [answers EXCEPT ![r] = NoAnswer]
      /\ UNCHANGED <<owned, generation, log, publishes, requests, replica, moves, needs, gone>>
  BY DEF SendAnswer, ownerVars, remoteVars
<1>2. /\ answers \in [Remotes -> Snapshots \cup {NoAnswer}] /\ inbox \in [Remotes -> Seq(Events \cup Snapshots)]
  BY DEF IInv, Shapes
<1>3. \A x \in Remotes : RemoteOK(log, x, publishes, answers[x], inbox[x], replica[x], moves[x], gone[x])
  BY DEF IInv
<1>4. PICK snap, q, q2 : snap = answers[r] /\ q = inbox[r] /\ q2 = Append(q, snap)
  OBVIOUS
<1>5. IsSnapshot(log, snap) /\ snap \in Snapshots
  BY <1>1, <1>3, <1>4 DEF RemoteOK, AnswerOK, IsSnapshot
<1>6. q \in Seq(Events \cup Snapshots) /\ Len(q) \in Nat /\ \A k \in 1..Len(q) : IsEvent(log, q[k]) \/ IsSnapshot(log, q[k])
  <2>1. InboxOK(log, q)
    BY <1>3, <1>4 DEF RemoteOK
  <2> QED
    BY <2>1 DEF InboxOK
<1>7. /\ q2 \in Seq(Events \cup Snapshots) /\ Len(q2) = Len(q) + 1 /\ q2[Len(q) + 1] = snap
      /\ \A k \in 1..Len(q) : q2[k] = q[k]
  BY <1>4, <1>5, <1>6
<1>8. \A k \in 1..Len(q) : k \in 1..Len(q2)
  BY <1>6, <1>7
<1>9. \A k \in 1..Len(q2) : k \in 1..Len(q) \/ k = Len(q) + 1
  BY <1>6, <1>7
<1>10. InboxOK(log, q2)
  BY <1>5, <1>6, <1>7, <1>9 DEF InboxOK
<1>11. /\ answers' \in [Remotes -> Snapshots \cup {NoAnswer}]
       /\ \A x \in Remotes : answers'[x] = IF x = r THEN NoAnswer ELSE answers[x]
  BY <1>1, <1>2
<1>12. /\ inbox' \in [Remotes -> Seq(Events \cup Snapshots)]
       /\ \A x \in Remotes : inbox'[x] = IF x = r THEN q2 ELSE inbox[x]
  BY <1>1, <1>2, <1>4, <1>7
<1>13. Shapes'
  BY <1>1, <1>11, <1>12 DEF IInv, Shapes
<1>14. ASSUME NEW x \in Remotes PROVE RemoteOK(log, x, publishes, answers'[x], inbox'[x], replica[x], moves[x], gone[x])
  <2>1. RemoteOK(log, x, publishes, answers[x], inbox[x], replica[x], moves[x], gone[x])
    BY <1>3
  <2>2. AnswerOK(log, answers'[x])
    BY <1>11, <2>1 DEF RemoteOK, AnswerOK
  <2>3. InboxOK(log, inbox'[x])
    BY <1>10, <1>12, <2>1 DEF RemoteOK
  <2>4. ASSUME NEW ev, Queued(ev, inbox[x]) PROVE Queued(ev, inbox'[x])
    <3>1. CASE x # r
      BY <1>12, <2>4, <3>1
    <3>2. CASE x = r
      <4>1. PICK k \in 1..Len(q) : q[k] = ev
        BY <1>4, <2>4, <3>2 DEF Queued
      <4>2. k \in 1..Len(q2) /\ q2[k] = ev
        BY <1>7, <1>8, <4>1
      <4> QED
        BY <1>12, <3>2, <4>2 DEF Queued
    <3> QED
      BY <3>1, <3>2
  <2>5. Delivery(log, x, publishes, inbox'[x], replica[x])
    BY <2>1, <2>4 DEF RemoteOK, Delivery
  <2> QED
    BY <2>1, <2>2, <2>3, <2>5 DEF RemoteOK
<1> QED
  BY <1>1, <1>13, <1>14 DEF IInv

-----------------------------------------------------------------------------
(* The remote's steps.                                                     *)

\* What the remote's changes write.
Writes(rep, ev, rep2) == rep2 = Applied(rep, ev)
Restores(rep, snap, rep2) == rep2 = SnapshotApplied(rep, snap)

\* What AoiReplica::Apply changes: the entity of the event and its tombstone.
LEMMA AppliedFacts ==
    ASSUME NEW rep \in Copies, NEW ev \in Events, NEW rep2, Writes(rep, ev, rep2)
    PROVE  /\ rep2 \in Copies /\ rep2.water = rep.water
           /\ \A x \in Entities : x # ev.id => rep2.ents[x] = rep.ents[x] /\ rep2.tombs[x] = rep.tombs[x]
           /\ ev.kind = "leave" => /\ rep2.ents[ev.id] = Absent
                                   /\ rep2.tombs[ev.id] = [gen |-> ev.gen, seq |-> ev.seq]
           /\ ev.kind # "leave" => rep2.ents[ev.id] = StateOf(ev) /\ rep2.tombs[ev.id] = rep.tombs[ev.id]
<1>1. rep.ents \in [Entities -> States] /\ rep.tombs \in [Entities -> Tombs] /\ ev.id \in Entities
  BY DEF Copies, Events
<1>2. StateOf(ev) \in States /\ Absent \in States /\ [gen |-> ev.gen, seq |-> ev.seq] \in Tombs
  BY ConstantsAssumption DEF StateOf, States, Absent, Tombs, Events
<1>3. CASE ev.kind = "leave"
  <2>1. rep2 = [rep EXCEPT !.ents[ev.id] = Absent, !.tombs[ev.id] = [gen |-> ev.gen, seq |-> ev.seq]]
    BY <1>3 DEF Writes, Applied
  <2>2. PICK t \in Tombs : t = [gen |-> ev.gen, seq |-> ev.seq]
    BY <1>2
  <2>3. PICK ents2 \in [Entities -> States], tombs2 \in [Entities -> Tombs] :
             ents2 = [rep.ents EXCEPT ![ev.id] = Absent] /\ tombs2 = [rep.tombs EXCEPT ![ev.id] = t]
    BY <1>1, <1>2
  <2>4. rep2 = [rep EXCEPT !.ents = ents2, !.tombs = tombs2]
    BY <2>1, <2>2, <2>3
  <2>5. rep2.ents = ents2 /\ rep2.tombs = tombs2 /\ rep2.water = rep.water /\ rep2 \in Copies
    BY <2>4 DEF Copies
  <2> QED
    BY <1>1, <1>3, <2>2, <2>3, <2>5
<1>4. CASE ev.kind # "leave"
  <2>1. rep2 = [rep EXCEPT !.ents[ev.id] = StateOf(ev)]
    BY <1>4 DEF Writes, Applied
  <2>2. /\ rep2.ents = [rep.ents EXCEPT ![ev.id] = StateOf(ev)] /\ rep2.tombs = rep.tombs
        /\ rep2.water = rep.water /\ rep2 \in Copies
    BY <1>1, <1>2, <2>1 DEF Copies
  <2> QED
    BY <1>1, <1>4, <2>2
<1> QED
  BY <1>3, <1>4

\* What ApplyOwnerSnapshot makes of each entity, and of the watermark.
LEMMA SnapshotFacts ==
    ASSUME NEW rep \in Copies, NEW snap \in Snapshots, NEW rep2, Restores(rep, snap, rep2)
    PROVE  /\ rep2 \in Copies /\ rep2.water = snap.seq /\ rep2.tombs = rep.tombs /\ snap.ents \in [Entities -> States]
           /\ \A x \in Entities :
                rep2.ents[x] = IF snap.ents[x] = Absent
                               THEN IF rep.ents[x].seq <= snap.seq THEN Absent ELSE rep.ents[x]
                               ELSE IF rep.ents[x].seq > snap.seq \/ rep.tombs[x].seq > snap.seq
                                    THEN rep.ents[x] ELSE snap.ents[x]
<1>1. rep.ents \in [Entities -> States] /\ snap.ents \in [Entities -> States] /\ snap.seq \in 0..MaxSeq
  BY DEF Copies, Snapshots
<1>2. Absent \in States
  BY ConstantsAssumption DEF States, Absent
<1>3. /\ \A x \in Entities :
           Covered(rep, snap)[x] = IF snap.ents[x] = Absent
                          THEN IF rep.ents[x].seq <= snap.seq THEN Absent ELSE rep.ents[x]
                          ELSE IF rep.ents[x].seq > snap.seq \/ rep.tombs[x].seq > snap.seq
                               THEN rep.ents[x] ELSE snap.ents[x]
      /\ Covered(rep, snap) \in [Entities -> States]
  BY <1>1, <1>2 DEF Covered
<1>4. PICK c \in [Entities -> States] : c = Covered(rep, snap)
  BY <1>3
<1>5. rep2 = [rep EXCEPT !.ents = c, !.water = snap.seq]
  BY <1>4 DEF Restores, SnapshotApplied
<1>6. snap.seq \in -1..MaxSeq
  BY <1>1, ConstantsAssumption
<1>7. rep2 \in Copies /\ rep2.water = snap.seq /\ rep2.tombs = rep.tombs /\ rep2.ents = c
  BY <1>5, <1>6 DEF Copies
<1> QED
  BY <1>1, <1>3, <1>4, <1>7

\* f2 is f but for r, where it is y.
Only(f, f2, r, y) == \A x \in Remotes : f2[x] = IF x = r THEN y ELSE f[x]

\* Note, for one remote.
NoteOf(rep, rep2, go, go2) ==
    \A e \in Entities : go2[e] = IF rep.ents[e].gen > go[e] /\ rep2.ents[e].gen # rep.ents[e].gen
                                 THEN rep.ents[e].gen ELSE go[e]

\* What a remote no longer shows is only noted upwards, and the versions of
\* a generation only grow.
Onward == \A r \in Remotes, e \in Entities :
              /\ gone'[r][e] >= gone[r][e]
              /\ replica'[r].ents[e].gen = replica[r].ents[e].gen => replica'[r].ents[e].ver >= replica[r].ents[e].ver

\* Copies that advance at every entity keep what a remote guarantees.
LEMMA AdvancedKeeps ==
    ASSUME NEW l, Orderly(l), NEW rep, CopyInv(l, rep), NEW rep2 \in Copies, rep2.water <= Len(l),
           \A e \in Entities : Advanced(l, rep, rep2, e),
           NEW go, GoneOK(l, rep, go), NEW go2 \in [Entities -> Nat], NoteOf(rep, rep2, go, go2)
    PROVE  /\ CopyInv(l, rep2) /\ GoneOK(l, rep2, go2)
           /\ \A i \in 1..Len(l) : Heeded(l, rep, l[i]) => Heeded(l, rep2, l[i])
           /\ \A e \in Entities : go2[e] >= go[e]
<1>1. rep \in Copies /\ go \in [Entities -> Nat]
  BY DEF CopyInv, GoneOK
<1>2. CopyInv(l, rep2)
  BY DEF CopyInv, Advanced
<1>3. ASSUME NEW i \in 1..Len(l), Heeded(l, rep, l[i]) PROVE Heeded(l, rep2, l[i])
  <2>1. l[i].id \in Entities /\ l[i].gen \in Nat
    BY EventFields
  <2>2. Advanced(l, rep, rep2, l[i].id)
    BY <2>1
  <2> QED
    BY <1>3, <2>1, <2>2 DEF Heeded, Advanced
<1>4. ASSUME NEW e \in Entities PROVE (go2[e] = 0 \/ Left(l, rep2, e, go2[e])) /\ go2[e] >= go[e]
  <2>1. Advanced(l, rep, rep2, e) /\ go[e] \in Nat /\ go2[e] \in Nat
    BY <1>1
  <2>2. rep.ents[e].gen \in Nat /\ rep2.ents[e].gen \in Nat
    BY <1>1, CopyTypes
  <2>3. CASE rep.ents[e].gen > go[e] /\ rep2.ents[e].gen # rep.ents[e].gen
    <3>1. go2[e] = rep.ents[e].gen
      BY <2>3 DEF NoteOf
    <3>2. Reached(l, rep, e, rep.ents[e].gen)
      BY <2>2 DEF Reached
    <3>3. Reached(l, rep2, e, rep.ents[e].gen)
      BY <2>1, <2>2, <3>2 DEF Advanced
    <3>4. Left(l, rep2, e, rep.ents[e].gen)
      BY <2>2, <2>3, <3>3 DEF Reached, Left
    <3> QED
      BY <2>1, <2>2, <2>3, <3>1, <3>4
  <2>4. CASE ~(rep.ents[e].gen > go[e] /\ rep2.ents[e].gen # rep.ents[e].gen)
    <3>1. go2[e] = go[e]
      BY <2>4 DEF NoteOf
    <3>2. go[e] = 0 \/ Left(l, rep, e, go[e])
      BY DEF GoneOK
    <3>3. go[e] = 0 \/ Left(l, rep2, e, go[e])
      BY <2>1, <3>2 DEF Advanced
    <3> QED
      BY <2>1, <3>1, <3>3
  <2> QED
    BY <2>3, <2>4
<1> QED
  BY <1>2, <1>3, <1>4 DEF GoneOK

\* A step of one remote whose copies advance.
LEMMA RemoteAdvances ==
    ASSUME IInv, Shapes', UNCHANGED <<ownerVars, answers>>, NEW r \in Remotes,
           NEW rep2 \in Copies, Only(replica, replica', r, rep2), rep2.water <= Len(log),
           \A e \in Entities : Advanced(log, replica[r], rep2, e),
           NEW go2 \in [Entities -> Nat], Only(gone, gone', r, go2), NoteOf(replica[r], rep2, gone[r], go2),
           NEW q2, Only(inbox, inbox', r, q2), InboxOK(log, q2),
           \A i \in 1..Len(log) : Queued(log[i], inbox[r]) => Queued(log[i], q2) \/ Heeded(log, rep2, log[i]),
           NEW mv2, Only(moves, moves', r, mv2), MovesOK(log, mv2)
    PROVE  IInv' /\ Onward
<1>1. UNCHANGED <<owned, generation, log, publishes, answers>>
  BY DEF ownerVars
<1>2. Orderly(log) /\ \A x \in Remotes : RemoteOK(log, x, publishes, answers[x], inbox[x], replica[x], moves[x], gone[x])
  BY DEF IInv
<1>3. /\ CopyInv(log, replica[r]) /\ GoneOK(log, replica[r], gone[r]) /\ AnswerOK(log, answers[r])
      /\ Delivery(log, r, publishes, inbox[r], replica[r])
  BY <1>2 DEF RemoteOK
<1>4. /\ CopyInv(log, rep2) /\ GoneOK(log, rep2, go2)
      /\ \A i \in 1..Len(log) : Heeded(log, replica[r], log[i]) => Heeded(log, rep2, log[i])
      /\ \A e \in Entities : go2[e] >= gone[r][e]
  BY <1>2, <1>3, AdvancedKeeps
<1>5. Delivery(log, r, publishes, q2, rep2)
  BY <1>3, <1>4 DEF Delivery
<1>6. RemoteOK(log, r, publishes, answers[r], q2, rep2, mv2, go2)
  BY <1>3, <1>4, <1>5 DEF RemoteOK
<1>7. ASSUME NEW x \in Remotes PROVE RemoteOK(log, x, publishes, answers[x], inbox'[x], replica'[x], moves'[x], gone'[x])
  <2>1. CASE x = r
    BY <1>6, <2>1 DEF Only
  <2>2. CASE x # r
    BY <1>2, <2>2 DEF Only
  <2> QED
    BY <2>1, <2>2
<1>8. IInv'
  BY <1>1, <1>7 DEF IInv
<1>9. ASSUME NEW x \in Remotes, NEW e \in Entities
      PROVE  /\ gone'[x][e] >= gone[x][e]
             /\ replica'[x].ents[e].gen = replica[x].ents[e].gen => replica'[x].ents[e].ver >= replica[x].ents[e].ver
  <2>1. CASE x = r
    <3>1. gone'[x] = go2 /\ replica'[x] = rep2
      BY <2>1 DEF Only
    <3>2. Advanced(log, replica[r], rep2, e)
      OBVIOUS
    <3> QED
      BY <1>4, <2>1, <3>1, <3>2 DEF Advanced
  <2>2. CASE x # r
    <3>1. gone'[x] = gone[x] /\ replica'[x] = replica[x]
      BY <2>2 DEF Only
    <3>2. gone[x][e] \in Nat /\ replica[x] \in Copies
      BY DEF IInv, Shapes
    <3>3. replica[x].ents[e].ver \in Nat
      BY <3>2, CopyTypes
    <3> QED
      BY <3>1, <3>2, <3>3
  <2> QED
    BY <2>1, <2>2
<1> QED
  BY <1>8, <1>9 DEF Onward

\* The first message of a queue is taken.
LEMMA TakenFacts ==
    ASSUME IInv, NEW r \in Remotes, inbox[r] # <<>>, inbox' = [inbox EXCEPT ![r] = Tail(@)]
    PROVE  /\ inbox' \in [Remotes -> Seq(Events \cup Snapshots)] /\ Only(inbox, inbox', r, Tail(inbox[r]))
           /\ InboxOK(log, Tail(inbox[r]))
           /\ IsEvent(log, Head(inbox[r])) \/ IsSnapshot(log, Head(inbox[r]))
           /\ \A ev : Queued(ev, inbox[r]) => ev = Head(inbox[r]) \/ Queued(ev, Tail(inbox[r]))
<1>1. inbox \in [Remotes -> Seq(Events \cup Snapshots)] /\ InboxOK(log, inbox[r])
  BY DEF IInv, Shapes, RemoteOK
<1>2. PICK q, q2, m : q = inbox[r] /\ q2 = Tail(q) /\ m = Head(q)
  OBVIOUS
<1>3. q \in Seq(Events \cup Snapshots) /\ q # <<>> /\ \A k \in 1..Len(q) : IsEvent(log, q[k]) \/ IsSnapshot(log, q[k])
  BY <1>1, <1>2 DEF InboxOK
<1>4. /\ q2 \in Seq(Events \cup Snapshots) /\ Len(q) \in Nat /\ Len(q) > 0 /\ Len(q2) = Len(q) - 1
      /\ \A k \in 1..Len(q2) : q2[k] = q[k + 1]
      /\ m = q[1]
  BY <1>2, <1>3
<1>5. \A k \in 1..Len(q2) : k + 1 \in 1..Len(q)
  BY <1>4
<1>6. InboxOK(log, q2)
  BY <1>3, <1>4, <1>5 DEF InboxOK
<1>7. IsEvent(log, m) \/ IsSnapshot(log, m)
  BY <1>3, <1>4
<1>8. ASSUME NEW ev, Queued(ev, q), ev # m PROVE Queued(ev, q2)
  <2>1. PICK k \in 1..Len(q) : q[k] = ev
    BY <1>8 DEF Queued
  <2>2. k # 1
    BY <1>4, <1>8, <2>1
  <2>3. k - 1 \in 1..Len(q2) /\ (k - 1) + 1 = k
    BY <1>4, <2>2
  <2>4. q2[k - 1] = ev
    BY <1>4, <2>1, <2>3
  <2> QED
    BY <2>3, <2>4 DEF Queued
<1>9. inbox' \in [Remotes -> Seq(Events \cup Snapshots)]
  BY <1>1, <1>2, <1>4
<1>10. Only(inbox, inbox', r, q2)
  BY <1>1, <1>2 DEF Only
<1> QED
  BY <1>2, <1>6, <1>7, <1>8, <1>9, <1>10

\* What one remote has.
LEMMA RemoteFacts ==
    ASSUME IInv, NEW r \in Remotes
    PROVE  /\ Orderly(log) /\ CopyInv(log, replica[r]) /\ replica[r] \in Copies /\ replica[r].water <= Len(log)
           /\ \A e \in Entities : CopyOf(log, replica[r], e)
           /\ MovesOK(log, moves[r]) /\ moves[r] \in [Entities -> Events \cup {NoMove}]
           /\ GoneOK(log, replica[r], gone[r]) /\ gone[r] \in [Entities -> Nat]
           /\ Shapes
  BY DEF IInv, RemoteOK, CopyInv, MovesOK, GoneOK, Shapes

\* Nothing of the copies changes.
LEMMA CopiesStay ==
    ASSUME IInv, NEW r \in Remotes, UNCHANGED <<replica, gone>>
    PROVE  /\ \A e \in Entities : Advanced(log, replica[r], replica[r], e)
           /\ Only(replica, replica', r, replica[r]) /\ Only(gone, gone', r, gone[r])
           /\ NoteOf(replica[r], replica[r], gone[r], gone[r])
<1>1. \A e \in Entities : Advanced(log, replica[r], replica[r], e)
  BY RemoteFacts, Untouched
<1> QED
  BY <1>1 DEF Only, NoteOf

\* A queued move waits for the tick.
LEMMA CoalesceMoveStep ==
    ASSUME IInv, NEW r \in Remotes, inbox[r] # <<>>, inbox' = [inbox EXCEPT ![r] = Tail(@)],
           CoalesceMove(r, Head(inbox[r])), UNCHANGED <<ownerVars, answers, requests>>
    PROVE  IInv' /\ Onward
<1>1. PICK m : m = Head(inbox[r])
  OBVIOUS
<1>2. /\ m.kind = "move" /\ UNCHANGED <<replica, needs, gone>>
      /\ moves' = IF Older(m, moves[r][m.id]) THEN moves ELSE [moves EXCEPT ![r][m.id] = m]
  BY <1>1 DEF CoalesceMove
<1>3. IsEvent(log, m)
  <2>1. IsEvent(log, m) \/ IsSnapshot(log, m)
    BY <1>1, TakenFacts
  <2>2. IsSnapshot(log, m) => m.kind = "snapshot"
    BY DEF IsSnapshot, Snapshots
  <2> QED
    BY <1>2, <2>1, <2>2
<1>4. m \in Events /\ m.id \in Entities
  BY <1>3, RemoteFacts, EventFields DEF IsEvent
<1>5. PICK mv2 : mv2 = IF Older(m, moves[r][m.id]) THEN moves[r] ELSE [moves[r] EXCEPT ![m.id] = m]
  OBVIOUS
<1>6. moves \in [Remotes -> [Entities -> Events \cup {NoMove}]]
  BY DEF IInv, Shapes
<1>7. /\ mv2 \in [Entities -> Events \cup {NoMove}]
      /\ \A e \in Entities : mv2[e] = moves[r][e] \/ (mv2[e] = m /\ e = m.id)
  BY <1>4, <1>5, <1>6
<1>8. Only(moves, moves', r, mv2) /\ moves' \in [Remotes -> [Entities -> Events \cup {NoMove}]]
  BY <1>2, <1>4, <1>5, <1>6 DEF Only
<1>9. MovesOK(log, mv2)
  <2> SUFFICES ASSUME NEW e \in Entities
               PROVE  mv2[e] = NoMove \/ (IsEvent(log, mv2[e]) /\ mv2[e].kind = "move" /\ mv2[e].id = e)
    BY <1>7 DEF MovesOK
  <2> QED
    BY <1>2, <1>3, <1>7, RemoteFacts DEF MovesOK
<1>10. Shapes'
  BY <1>2, <1>8, TakenFacts DEF IInv, Shapes
<1>11. PICK q2 : q2 = Tail(inbox[r])
  OBVIOUS
<1>12. /\ Only(inbox, inbox', r, q2) /\ InboxOK(log, q2)
       /\ \A ev : Queued(ev, inbox[r]) => ev = m \/ Queued(ev, q2)
  BY <1>1, <1>11, TakenFacts
<1>13. Heeded(log, replica[r], m)
  BY <1>2 DEF Heeded
<1>14. \A i \in 1..Len(log) : Queued(log[i], inbox[r]) => Queued(log[i], q2) \/ Heeded(log, replica[r], log[i])
  BY <1>12, <1>13
<1>15. /\ \A e \in Entities : Advanced(log, replica[r], replica[r], e)
       /\ Only(replica, replica', r, replica[r]) /\ Only(gone, gone', r, gone[r])
       /\ NoteOf(replica[r], replica[r], gone[r], gone[r])
       /\ replica[r] \in Copies /\ replica[r].water <= Len(log) /\ gone[r] \in [Entities -> Nat]
  BY <1>2, CopiesStay, RemoteFacts
<1>16. UNCHANGED <<ownerVars, answers>>
  OBVIOUS
<1> QED
  BY <1>8, <1>9, <1>10, <1>12, <1>14, <1>15, <1>16, RemoteAdvances

\* An ignored entry or leave needs nothing: the copies are as far.
LEMMA IgnoredIsHeeded ==
    ASSUME NEW l, Orderly(l), NEW rep, CopyInv(l, rep), NEW i \in 1..Len(l), l[i].kind # "move", Verdict(rep, l[i]) # "applied"
    PROVE  Heeded(l, rep, l[i])
<1> DEFINE e == l[i].id
<1>1. /\ e \in Entities /\ l[i].gen \in Nat /\ l[i].ver \in Nat /\ l[i].seq = i /\ i \in Nat
  BY EventFields
<1>2. rep \in Copies /\ CopyOf(l, rep, e)
  BY <1>1 DEF CopyInv
<1>3. /\ rep.water \in Int /\ rep.ents[e].gen \in Nat /\ rep.ents[e].ver \in Nat /\ rep.tombs[e].gen \in Nat
  BY <1>1, <1>2, CopyTypes
<1>4. i <= rep.water \/ rep.tombs[e].gen >= l[i].gen \/ Older(l[i], rep.ents[e])
  BY <1>1 DEF Verdict
<1> HIDE DEF e
<1>5. CASE i <= rep.water
  <2>1. Reached(l, rep, e, l[i].gen)
    BY <1>2, <1>5 DEF CopyOf, e
  <2>2. l[i].kind = "leave" => LeftBy(l, rep.water, e, l[i].gen)
    BY <1>1, <1>5 DEF LeftBy, e
  <2> QED
    BY <2>1, <2>2 DEF Heeded, Left, Ended, e
<1>6. CASE rep.tombs[e].gen >= l[i].gen
  BY <1>6 DEF Heeded, Reached, Left, Ended, e
<1>7. CASE Older(l[i], rep.ents[e])
  <2>1. rep.ents[e].gen >= l[i].gen
    BY <1>1, <1>3, <1>7 DEF Older
  <2>2. ASSUME l[i].kind = "leave" PROVE rep.ents[e].gen > l[i].gen
    <3>1. l[i].gen > 0 /\ Absent.gen = 0
      BY EventFields DEF Absent
    <3>2. Shows(l, e, rep.ents[e])
      BY <1>1, <1>2, <1>3, <2>1, <3>1 DEF CopyOf
    <3>3. rep.ents[e].seq \in 1..Len(l) /\ rep.ents[e].seq \in Nat
      BY <3>2, ShownFields
    <3>4. CASE i <= rep.ents[e].seq
      BY <1>1, <2>2, <3>2, <3>4, NotAfter DEF e
    <3>5. CASE rep.ents[e].seq < i
      <4>1. rep.ents[e].seq <= i /\ i # rep.ents[e].seq
        BY <1>1, <3>3, <3>5
      <4>2. rep.ents[e].gen <= l[i].gen /\ (rep.ents[e].gen = l[i].gen => rep.ents[e].ver < l[i].ver)
        BY <3>2, <4>1, NotBefore DEF e
      <4> QED
        BY <1>1, <1>3, <1>7, <4>2 DEF Older
    <3> QED
      BY <1>1, <3>3, <3>4, <3>5
  <2> QED
    BY <2>1, <2>2 DEF Heeded, Reached, Left, e
<1> QED
  BY <1>4, <1>5, <1>6, <1>7

\* A queued entry or leave is handled.
LEMMA ApplyEventStep ==
    ASSUME IInv, NEW r \in Remotes, inbox[r] # <<>>, inbox' = [inbox EXCEPT ![r] = Tail(@)],
           ApplyEvent(r, Head(inbox[r])), UNCHANGED <<ownerVars, answers, requests>>
    PROVE  IInv' /\ Onward
<1>1. PICK m : m = Head(inbox[r])
  OBVIOUS
<1>2. /\ m.kind \in {"entry", "leave"} /\ needs' = needs
      /\ IF Verdict(replica[r], m) = "applied"
         THEN LET rep == Applied(replica[r], m) IN
              /\ replica' = [replica EXCEPT ![r] = rep]
              /\ Note(r, rep)
              /\ moves' = IF Supersedes(moves[r][m.id], m)
                          THEN [moves EXCEPT ![r][m.id] = NoMove] ELSE moves
         ELSE UNCHANGED <<replica, moves, gone>>
  BY <1>1 DEF ApplyEvent
<1>3. IsEvent(log, m)
  <2>1. IsEvent(log, m) \/ IsSnapshot(log, m)
    BY <1>1, TakenFacts
  <2>2. IsSnapshot(log, m) => m.kind = "snapshot"
    BY DEF IsSnapshot, Snapshots
  <2> QED
    BY <1>2, <2>1, <2>2
<1>4. PICK i \in 1..Len(log) : m = log[i]
  BY <1>3 DEF IsEvent
<1>5. m \in Events /\ m.id \in Entities /\ m.gen \in Nat
  BY <1>4, RemoteFacts, EventFields
<1>6. PICK q2 : q2 = Tail(inbox[r])
  OBVIOUS
<1>7. /\ Only(inbox, inbox', r, q2) /\ InboxOK(log, q2) /\ inbox' \in [Remotes -> Seq(Events \cup Snapshots)]
      /\ \A ev : Queued(ev, inbox[r]) => ev = m \/ Queued(ev, q2)
  BY <1>1, <1>6, TakenFacts
<1>8. UNCHANGED <<ownerVars, answers>>
  OBVIOUS
<1>9. CASE Verdict(replica[r], m) # "applied"
  <2>1. UNCHANGED <<replica, moves, gone>>
    BY <1>2, <1>9
  <2>2. Heeded(log, replica[r], m)
    BY <1>2, <1>4, <1>9, RemoteFacts, IgnoredIsHeeded
  <2>3. \A k \in 1..Len(log) : Queued(log[k], inbox[r]) => Queued(log[k], q2) \/ Heeded(log, replica[r], log[k])
    BY <1>7, <2>2
  <2>4. /\ \A e \in Entities : Advanced(log, replica[r], replica[r], e)
        /\ Only(replica, replica', r, replica[r]) /\ Only(gone, gone', r, gone[r])
        /\ NoteOf(replica[r], replica[r], gone[r], gone[r])
        /\ replica[r] \in Copies /\ replica[r].water <= Len(log) /\ gone[r] \in [Entities -> Nat]
    BY <2>1, CopiesStay, RemoteFacts
  <2>5. Only(moves, moves', r, moves[r]) /\ MovesOK(log, moves[r])
    BY <2>1, RemoteFacts DEF Only
  <2>6. Shapes'
    BY <1>2, <1>7, <2>1 DEF IInv, Shapes
  <2> QED
    BY <1>7, <1>8, <2>3, <2>4, <2>5, <2>6, RemoteAdvances
<1>10. CASE Verdict(replica[r], m) = "applied"
  <2>1. PICK rep2 : rep2 = Applied(replica[r], m)
    OBVIOUS
  <2>2. /\ replica' = [replica EXCEPT ![r] = rep2] /\ Note(r, rep2)
        /\ moves' = IF Supersedes(moves[r][m.id], m) THEN [moves EXCEPT ![r][m.id] = NoMove] ELSE moves
    BY <1>2, <1>10, <2>1
  <2>3. /\ rep2 \in Copies /\ rep2.water = replica[r].water
        /\ \A x \in Entities : x # m.id => rep2.ents[x] = replica[r].ents[x] /\ rep2.tombs[x] = replica[r].tombs[x]
        /\ m.kind = "leave" => /\ rep2.ents[m.id] = Absent
                               /\ rep2.tombs[m.id] = [gen |-> m.gen, seq |-> m.seq]
        /\ m.kind # "leave" => rep2.ents[m.id] = StateOf(m) /\ rep2.tombs[m.id] = replica[r].tombs[m.id]
    <3>1. Writes(replica[r], m, rep2) /\ replica[r] \in Copies
      BY <2>1, RemoteFacts DEF Writes
    <3> QED
      BY <1>5, <3>1, AppliedFacts
  <2>4. /\ Orderly(log) /\ replica[r] \in Copies /\ replica[r].water <= Len(log) /\ CopyInv(log, replica[r])
        /\ \A e \in Entities : CopyOf(log, replica[r], e)
    BY RemoteFacts
  <2>5. Advanced(log, replica[r], rep2, m.id) /\ Heeded(log, rep2, m)
    <3>1. CASE m.kind = "leave"
      <4>1. Advanced(log, replica[r], rep2, m.id) /\ Ended(log, rep2, m.id, m.gen)
        BY <1>4, <1>5, <1>10, <2>3, <2>4, <3>1, LeaveTaken
      <4> QED
        BY <3>1, <4>1 DEF Heeded, Left
    <3>2. CASE m.kind = "entry"
      <4>1. Advanced(log, replica[r], rep2, m.id) /\ rep2.ents[m.id].gen = m.gen
        BY <1>4, <1>5, <1>10, <2>3, <2>4, <3>2, StateTaken
      <4> QED
        BY <1>5, <3>2, <4>1 DEF Heeded, Reached
    <3> QED
      BY <1>2, <3>1, <3>2
  <2>6. \A e \in Entities : Advanced(log, replica[r], rep2, e)
    <3> SUFFICES ASSUME NEW e \in Entities, e # m.id PROVE Advanced(log, replica[r], rep2, e)
      BY <2>5
    <3> QED
      BY <2>3, <2>4, Untouched
  <2>7. \A k \in 1..Len(log) : Queued(log[k], inbox[r]) => Queued(log[k], q2) \/ Heeded(log, rep2, log[k])
    BY <1>7, <2>5
  <2>8. PICK go2 : go2 = [e \in Entities |->
                            IF replica[r].ents[e].gen > gone[r][e] /\ rep2.ents[e].gen # replica[r].ents[e].gen
                            THEN replica[r].ents[e].gen ELSE gone[r][e]]
    OBVIOUS
  <2>9. gone' = [gone EXCEPT ![r] = go2] /\ gone \in [Remotes -> [Entities -> Nat]]
    BY <2>2, <2>8 DEF Note, IInv, Shapes
  <2>10. go2 \in [Entities -> Nat] /\ NoteOf(replica[r], rep2, gone[r], go2)
    <3>1. \A e \in Entities : replica[r].ents[e].gen \in Nat /\ gone[r][e] \in Nat
      BY <2>4, <2>9, CopyTypes
    <3> QED
      BY <2>8, <3>1 DEF NoteOf
  <2>11. Only(gone, gone', r, go2) /\ gone' \in [Remotes -> [Entities -> Nat]]
    BY <2>9, <2>10 DEF Only
  <2>12. Only(replica, replica', r, rep2) /\ replica' \in [Remotes -> Copies]
    BY <2>2, <2>3 DEF Only, IInv, Shapes
  <2>13. PICK mv2 : mv2 = IF Supersedes(moves[r][m.id], m) THEN [moves[r] EXCEPT ![m.id] = NoMove] ELSE moves[r]
    OBVIOUS
  <2>14. moves \in [Remotes -> [Entities -> Events \cup {NoMove}]]
    BY DEF IInv, Shapes
  <2>15. /\ mv2 \in [Entities -> Events \cup {NoMove}] /\ \A e \in Entities : mv2[e] = moves[r][e] \/ mv2[e] = NoMove
    BY <1>5, <2>13, <2>14
  <2>16. Only(moves, moves', r, mv2) /\ moves' \in [Remotes -> [Entities -> Events \cup {NoMove}]]
    BY <1>5, <2>2, <2>13, <2>14 DEF Only
  <2>17. MovesOK(log, mv2)
    BY <2>15, RemoteFacts DEF MovesOK
  <2>18. Shapes'
    BY <1>2, <1>7, <2>11, <2>12, <2>16 DEF IInv, Shapes
  <2>19. rep2.water <= Len(log)
    BY <2>3, <2>4
  <2> QED
    BY <1>7, <1>8, <2>3, <2>6, <2>7, <2>10, <2>11, <2>12, <2>16, <2>17, <2>18, <2>19, RemoteAdvances
<1> QED
  BY <1>9, <1>10

\* A queued snapshot is handled.
LEMMA ApplySnapshotStep ==
    ASSUME IInv, NEW r \in Remotes, inbox[r] # <<>>, inbox' = [inbox EXCEPT ![r] = Tail(@)],
           ApplySnapshot(r, Head(inbox[r])), UNCHANGED <<ownerVars, answers, requests>>
    PROVE  IInv' /\ Onward
<1>1. PICK m : m = Head(inbox[r])
  OBVIOUS
<1>2. /\ m.kind = "snapshot"
      /\ IF SnapshotVerdict(replica[r], m) = "applied"
         THEN LET rep == SnapshotApplied(replica[r], m) IN
              /\ replica' = [replica EXCEPT ![r] = rep]
              /\ Note(r, rep)
              /\ moves' = [moves EXCEPT ![r] = [e \in Entities |->
                             IF moves[r][e].seq <= m.seq THEN NoMove ELSE moves[r][e]]]
              /\ needs' = [needs EXCEPT ![r] = FALSE]
         ELSE UNCHANGED <<replica, moves, needs, gone>>
  BY <1>1 DEF ApplySnapshot, remoteVars
<1>3. IsSnapshot(log, m)
  <2>1. IsEvent(log, m) \/ IsSnapshot(log, m)
    BY <1>1, TakenFacts
  <2>2. ~IsEvent(log, m)
    <3> SUFFICES ASSUME IsEvent(log, m) PROVE FALSE
      OBVIOUS
    <3>1. PICK i \in 1..Len(log) : m = log[i]
      BY DEF IsEvent
    <3>2. m.kind \in Kinds
      BY <3>1, RemoteFacts, EventFields
    <3> QED
      BY <1>2, <3>2 DEF Kinds
  <2> QED
    BY <2>1, <2>2
<1>4. m \in Snapshots /\ m.seq <= Len(log) /\ Accurate(log, m.seq, m.ents)
  BY <1>3 DEF IsSnapshot
<1>5. PICK q2 : q2 = Tail(inbox[r])
  OBVIOUS
<1>6. /\ Only(inbox, inbox', r, q2) /\ InboxOK(log, q2) /\ inbox' \in [Remotes -> Seq(Events \cup Snapshots)]
      /\ \A ev : Queued(ev, inbox[r]) => ev = m \/ Queued(ev, q2)
  BY <1>1, <1>5, TakenFacts
<1>7. \A k \in 1..Len(log) : log[k] # m
  <2> SUFFICES ASSUME NEW k \in 1..Len(log), log[k] = m PROVE FALSE
    OBVIOUS
  <2>1. m.kind \in Kinds
    BY RemoteFacts, EventFields
  <2> QED
    BY <1>2, <2>1 DEF Kinds
<1>8. \A k \in 1..Len(log) : Queued(log[k], inbox[r]) => Queued(log[k], q2)
  BY <1>6, <1>7
<1>9. UNCHANGED <<ownerVars, answers>>
  OBVIOUS
<1>10. CASE SnapshotVerdict(replica[r], m) # "applied"
  <2>1. UNCHANGED <<replica, moves, needs, gone>>
    BY <1>2, <1>10
  <2>2. \A k \in 1..Len(log) : Queued(log[k], inbox[r]) => Queued(log[k], q2) \/ Heeded(log, replica[r], log[k])
    BY <1>8
  <2>3. /\ \A e \in Entities : Advanced(log, replica[r], replica[r], e)
        /\ Only(replica, replica', r, replica[r]) /\ Only(gone, gone', r, gone[r])
        /\ NoteOf(replica[r], replica[r], gone[r], gone[r])
        /\ replica[r] \in Copies /\ replica[r].water <= Len(log) /\ gone[r] \in [Entities -> Nat]
    BY <2>1, CopiesStay, RemoteFacts
  <2>4. Only(moves, moves', r, moves[r]) /\ MovesOK(log, moves[r])
    BY <2>1, RemoteFacts DEF Only
  <2>5. Shapes'
    BY <1>6, <2>1 DEF IInv, Shapes
  <2> QED
    BY <1>6, <1>9, <2>2, <2>3, <2>4, <2>5, RemoteAdvances
<1>11. CASE SnapshotVerdict(replica[r], m) = "applied"
  <2>1. PICK rep2 : rep2 = SnapshotApplied(replica[r], m)
    OBVIOUS
  <2>2. /\ replica' = [replica EXCEPT ![r] = rep2] /\ Note(r, rep2)
        /\ moves' = [moves EXCEPT ![r] = [e \in Entities |->
                       IF moves[r][e].seq <= m.seq THEN NoMove ELSE moves[r][e]]]
        /\ needs' = [needs EXCEPT ![r] = FALSE]
    BY <1>2, <1>11, <2>1
  <2>3. /\ rep2 \in Copies /\ rep2.water = m.seq /\ rep2.tombs = replica[r].tombs /\ m.ents \in [Entities -> States]
        /\ \A x \in Entities :
             rep2.ents[x] = IF m.ents[x] = Absent
                            THEN IF replica[r].ents[x].seq <= m.seq THEN Absent ELSE replica[r].ents[x]
                            ELSE IF replica[r].ents[x].seq > m.seq \/ replica[r].tombs[x].seq > m.seq
                                 THEN replica[r].ents[x] ELSE m.ents[x]
    <3>1. Restores(replica[r], m, rep2) /\ replica[r] \in Copies
      BY <2>1, RemoteFacts DEF Restores
    <3> QED
      BY <1>4, <3>1, SnapshotFacts
  <2>4. /\ Orderly(log) /\ replica[r] \in Copies /\ replica[r].water <= Len(log) /\ CopyInv(log, replica[r])
        /\ \A e \in Entities : CopyOf(log, replica[r], e)
    BY RemoteFacts
  <2>5. PICK n \in Nat : n = m.seq
    BY <1>4, ConstantsAssumption DEF Snapshots
  <2>6. replica[r].water < n
    <3>1. ~(m.seq <= replica[r].water)
      BY <1>11 DEF SnapshotVerdict
    <3>2. replica[r].water \in Int
      BY <2>4, CopyTypes, ConstantsAssumption
    <3> QED
      BY <2>5, <3>1, <3>2
  <2>7. ASSUME NEW e \in Entities PROVE Advanced(log, replica[r], rep2, e)
    <3>1. PICK new : new = m.ents[e]
      OBVIOUS
    <3>2. new \in States /\ IF new = Absent THEN Vacant(log, e, n) ELSE Present(log, e, n, new)
      BY <1>4, <2>3, <2>5, <3>1 DEF Accurate
    <3>3. rep2.ents[e] = IF new = Absent
                         THEN IF replica[r].ents[e].seq <= n THEN Absent ELSE replica[r].ents[e]
                         ELSE IF replica[r].ents[e].seq > n \/ replica[r].tombs[e].seq > n
                              THEN replica[r].ents[e] ELSE new
      BY <2>3, <2>5, <3>1
    <3>4. rep2.tombs[e] = replica[r].tombs[e] /\ rep2.water = n /\ n <= Len(log)
      BY <1>4, <2>3, <2>5
    <3> QED
      BY <2>3, <2>4, <2>6, <3>2, <3>3, <3>4, SnapshotTaken
  <2>8. PICK go2 : go2 = [e \in Entities |->
                            IF replica[r].ents[e].gen > gone[r][e] /\ rep2.ents[e].gen # replica[r].ents[e].gen
                            THEN replica[r].ents[e].gen ELSE gone[r][e]]
    OBVIOUS
  <2>9. gone' = [gone EXCEPT ![r] = go2] /\ gone \in [Remotes -> [Entities -> Nat]]
    BY <2>2, <2>8 DEF Note, IInv, Shapes
  <2>10. go2 \in [Entities -> Nat] /\ NoteOf(replica[r], rep2, gone[r], go2)
    <3>1. \A e \in Entities : replica[r].ents[e].gen \in Nat /\ gone[r][e] \in Nat
      BY <2>4, <2>9, CopyTypes
    <3> QED
      BY <2>8, <3>1 DEF NoteOf
  <2>11. Only(gone, gone', r, go2) /\ gone' \in [Remotes -> [Entities -> Nat]]
    BY <2>9, <2>10 DEF Only
  <2>12. Only(replica, replica', r, rep2) /\ replica' \in [Remotes -> Copies]
    BY <2>2, <2>3 DEF Only, IInv, Shapes
  <2>13. PICK mv2 : mv2 = [e \in Entities |-> IF moves[r][e].seq <= m.seq THEN NoMove ELSE moves[r][e]]
    OBVIOUS
  <2>14. moves \in [Remotes -> [Entities -> Events \cup {NoMove}]]
    BY DEF IInv, Shapes
  <2>15. /\ mv2 \in [Entities -> Events \cup {NoMove}] /\ \A e \in Entities : mv2[e] = moves[r][e] \/ mv2[e] = NoMove
    BY <2>13, <2>14
  <2>16. Only(moves, moves', r, mv2) /\ moves' \in [Remotes -> [Entities -> Events \cup {NoMove}]]
    BY <2>2, <2>13, <2>14, <2>15 DEF Only
  <2>17. MovesOK(log, mv2)
    BY <2>15, RemoteFacts DEF MovesOK
  <2>18. needs' \in [Remotes -> BOOLEAN]
    BY <2>2 DEF IInv, Shapes
  <2>19. Shapes'
    BY <1>6, <2>11, <2>12, <2>16, <2>18 DEF IInv, Shapes
  <2>20. rep2.water <= Len(log)
    BY <1>4, <2>3
  <2>21. \A k \in 1..Len(log) : Queued(log[k], inbox[r]) => Queued(log[k], q2) \/ Heeded(log, rep2, log[k])
    BY <1>8
  <2> QED
    BY <1>6, <1>9, <2>3, <2>7, <2>10, <2>11, <2>12, <2>16, <2>17, <2>19, <2>20, <2>21, RemoteAdvances
<1> QED
  BY <1>10, <1>11

\* One service message of the owner is handled.
LEMMA ReceiveStep ==
    ASSUME IInv, NEW r \in Remotes, Receive(r)
    PROVE  IInv' /\ Onward
<1>1. /\ inbox[r] # <<>> /\ inbox' = [inbox EXCEPT ![r] = Tail(@)] /\ UNCHANGED <<ownerVars, answers, requests>>
      /\ \/ CoalesceMove(r, Head(inbox[r])) \/ ApplyEvent(r, Head(inbox[r]))
         \/ ApplySnapshot(r, Head(inbox[r]))
  BY DEF Receive
<1>2. CASE CoalesceMove(r, Head(inbox[r]))
  BY <1>1, <1>2, CoalesceMoveStep
<1>3. CASE ApplyEvent(r, Head(inbox[r]))
  BY <1>1, <1>3, ApplyEventStep
<1>4. CASE ApplySnapshot(r, Head(inbox[r]))
  BY <1>1, <1>4, ApplySnapshotStep
<1> QED
  BY <1>1, <1>2, <1>3, <1>4

\* FlushRemoteMoves: the waiting moves are applied, ignored or dropped.
LEMMA FlushStep ==
    ASSUME IInv, NEW r \in Remotes, FlushRemoteMoves(r)
    PROVE  IInv' /\ Onward
<1> DEFINE Waits(e) == moves[r][e] # NoMove
           Says(e) == Verdict(replica[r], moves[r][e])
           Takes(e) == Waits(e) /\ Says(e) = "applied"
<1>1. PICK ents2 : ents2 = [e \in Entities |-> IF Takes(e) THEN StateOf(moves[r][e]) ELSE replica[r].ents[e]]
  OBVIOUS
<1>2. PICK rep2 : rep2 = [replica[r] EXCEPT !.ents = ents2]
  OBVIOUS
<1>3. /\ replica' = [replica EXCEPT ![r] = rep2] /\ moves' = [moves EXCEPT ![r] = [e \in Entities |-> NoMove]]
      /\ needs' = [needs EXCEPT ![r] = @ \/ \E e \in Entities : Waits(e) /\ Says(e) = "needSnapshot"]
      /\ UNCHANGED <<gone, ownerVars, answers, requests, inbox>>
  BY <1>1, <1>2 DEF FlushRemoteMoves
<1>4. /\ Orderly(log) /\ replica[r] \in Copies /\ replica[r].water <= Len(log) /\ MovesOK(log, moves[r])
      /\ \A e \in Entities : CopyOf(log, replica[r], e)
  BY RemoteFacts
<1>5. ASSUME NEW e \in Entities, Waits(e)
      PROVE  \E i \in 1..Len(log) : /\ moves[r][e] = log[i] /\ log[i].id = e /\ log[i].kind # "leave"
                                    /\ StateOf(log[i]) \in States
  <2>1. PICK i \in 1..Len(log) : moves[r][e] = log[i] /\ log[i].id = e /\ log[i].kind = "move"
    BY <1>4, <1>5 DEF MovesOK, IsEvent
  <2>2. log[i] \in Events
    BY <1>4, EventFields
  <2>3. StateOf(log[i]) \in States
    BY <2>2 DEF StateOf, States, Events
  <2> QED
    BY <2>1, <2>3
<1> HIDE DEF Waits, Says
<1>6. replica[r].ents \in [Entities -> States]
  BY <1>4 DEF Copies
<1>7. ents2 \in [Entities -> States]
  BY <1>1, <1>5, <1>6
<1>8. rep2 \in Copies /\ rep2.ents = ents2 /\ rep2.tombs = replica[r].tombs /\ rep2.water = replica[r].water
  BY <1>2, <1>4, <1>7 DEF Copies
<1>9. ASSUME NEW e \in Entities PROVE Advanced(log, replica[r], rep2, e)
  <2>1. CASE Takes(e)
    <3>1. PICK i \in 1..Len(log) : moves[r][e] = log[i] /\ log[i].id = e /\ log[i].kind # "leave"
      BY <1>5, <2>1
    <3>2. Verdict(replica[r], log[i]) = "applied"
      BY <2>1, <3>1 DEF Says
    <3>3. rep2.ents[e] = StateOf(log[i]) /\ rep2.tombs[e] = replica[r].tombs[e]
      BY <1>1, <1>8, <2>1, <3>1
    <3> QED
      BY <1>4, <1>8, <3>1, <3>2, <3>3, StateTaken
  <2>2. CASE ~Takes(e)
    <3>1. rep2.ents[e] = replica[r].ents[e] /\ rep2.tombs[e] = replica[r].tombs[e]
      BY <1>1, <1>8, <2>2
    <3> QED
      BY <1>4, <1>8, <3>1, Untouched
  <2> QED
    BY <2>1, <2>2
<1>10. NoteOf(replica[r], rep2, gone[r], gone[r])
  <2> SUFFICES ASSUME NEW e \in Entities PROVE rep2.ents[e].gen = replica[r].ents[e].gen
    BY DEF NoteOf
  <2>1. CASE Takes(e)
    <3>1. PICK i \in 1..Len(log) : moves[r][e] = log[i] /\ log[i].id = e /\ log[i].kind = "move"
      BY <1>4, <2>1 DEF MovesOK, IsEvent, Waits
    <3>2. Verdict(replica[r], log[i]) = "applied"
      BY <2>1, <3>1 DEF Says
    <3>3. replica[r].ents[e].gen = log[i].gen
      BY <3>1, <3>2, AppliedVerdict
    <3> QED
      BY <1>1, <1>8, <2>1, <3>1, <3>3 DEF StateOf
  <2>2. CASE ~Takes(e)
    BY <1>1, <1>8, <2>2
  <2> QED
    BY <2>1, <2>2
<1>11. Only(gone, gone', r, gone[r]) /\ Only(inbox, inbox', r, inbox[r]) /\ gone[r] \in [Entities -> Nat]
  BY <1>3, RemoteFacts DEF Only
<1>12. Only(replica, replica', r, rep2) /\ replica' \in [Remotes -> Copies]
  BY <1>3, <1>8 DEF Only, IInv, Shapes
<1>13. PICK mv2 : mv2 = [e \in Entities |-> NoMove]
  OBVIOUS
<1>14. mv2 \in [Entities -> Events \cup {NoMove}] /\ MovesOK(log, mv2)
  BY <1>13 DEF MovesOK
<1>15. Only(moves, moves', r, mv2) /\ moves' \in [Remotes -> [Entities -> Events \cup {NoMove}]]
  BY <1>3, <1>13, <1>14 DEF Only, IInv, Shapes
<1>16. needs' \in [Remotes -> BOOLEAN]
  <2>1. PICK b \in BOOLEAN : b = (needs[r] \/ \E e \in Entities : Waits(e) /\ Says(e) = "needSnapshot")
    BY DEF IInv, Shapes
  <2>2. needs' = [needs EXCEPT ![r] = b] /\ needs \in [Remotes -> BOOLEAN]
    BY <1>3, <2>1 DEF IInv, Shapes
  <2> QED
    BY <2>2
<1>17. Shapes'
  BY <1>3, <1>12, <1>15, <1>16 DEF IInv, Shapes
<1>18. InboxOK(log, inbox[r])
  BY DEF IInv, RemoteOK
<1>19. rep2.water <= Len(log)
  BY <1>4, <1>8
<1>20. UNCHANGED <<ownerVars, answers>>
  BY <1>3
<1> QED
  BY <1>8, <1>9, <1>10, <1>11, <1>12, <1>14, <1>15, <1>17, <1>18, <1>19, <1>20, RemoteAdvances

\* advanceAoiRecovery on the remote.
LEMMA RequestSnapshotStep ==
    ASSUME IInv, NEW r \in Remotes, RequestSnapshot(r)
    PROVE  IInv'
<1>1. /\ UnderWay(r) < MaxRequests /\ requests' = [requests EXCEPT ![r] = @ + 1]
      /\ UNCHANGED <<owned, generation, log, publishes, answers, inbox, replica, moves, needs, gone>>
  BY DEF RequestSnapshot, ownerVars, remoteVars
<1>2. requests \in [Remotes -> 0..MaxRequests] /\ inbox[r] \in Seq(Events \cup Snapshots)
  BY DEF IInv, Shapes
<1>3. requests[r] + 1 <= MaxRequests
  <2> DEFINE S == {i \in DOMAIN inbox[r] : inbox[r][i].kind = "snapshot"}
  <2>1. DOMAIN inbox[r] = 1..Len(inbox[r]) /\ Len(inbox[r]) \in Int
    BY <1>2
  <2>2. IsFiniteSet(1..Len(inbox[r]))
    BY <2>1, FS_Interval
  <2>3. S \subseteq 1..Len(inbox[r])
    BY <2>1
  <2> HIDE DEF S
  <2>4. IsFiniteSet(S)
    BY <2>2, <2>3, FS_Subset
  <2>5. Cardinality(S) \in Nat
    BY <2>4, FS_CardinalityType
  <2>6. UnderWay(r) = requests[r] + (IF answers[r] = NoAnswer THEN 0 ELSE 1) + Cardinality(S)
    BY DEF UnderWay, S
  <2> QED
    BY <1>1, <1>2, <2>5, <2>6, ConstantsAssumption
<1>4. requests' \in [Remotes -> 0..MaxRequests]
  BY <1>1, <1>2, <1>3, ConstantsAssumption
<1>5. Shapes'
  BY <1>1, <1>4 DEF IInv, Shapes
<1> QED
  BY <1>1, <1>5 DEF IInv

-----------------------------------------------------------------------------
(* The theorems.                                                           *)

\* The initial states.
LEMMA InitHolds == Init => IInv
<1> SUFFICES ASSUME Init PROVE IInv
  OBVIOUS
<1>1. MaxSeq \in Nat /\ MaxRequests \in Nat
  BY ConstantsAssumption
<1>2. Absent \in States /\ NoTomb \in Tombs /\ Absent.gen = 0
  BY <1>1 DEF Absent, States, NoTomb, Tombs
<1>3. log \in Seq(Events) /\ Len(log) = 0 /\ 1..Len(log) = {}
  BY DEF Init
<1>4. Orderly(log)
  BY <1>1, <1>3 DEF Orderly, Numbered, Started, Sorted
<1>5. OwnerOK(log, owned, generation)
  BY <1>2, <1>3 DEF Init, OwnerOK, Accurate, Vacant
<1>6. PublishesOK(log, publishes)
  BY DEF Init, PublishesOK
<1>7. PICK rep : rep = [ents |-> [e \in Entities |-> Absent], tombs |-> [e \in Entities |-> NoTomb], water |-> -1]
  OBVIOUS
<1>8. rep \in Copies /\ rep.water = -1 /\ \A e \in Entities : rep.ents[e] = Absent /\ rep.tombs[e] = NoTomb
  BY <1>1, <1>2, <1>7 DEF Copies
<1>9. CopyInv(log, rep)
  BY <1>3, <1>8 DEF CopyInv, CopyOf
<1>10. \A r \in Remotes : /\ replica[r] = rep /\ inbox[r] = <<>> /\ answers[r] = NoAnswer
                          /\ moves[r] = [e \in Entities |-> NoMove] /\ gone[r] = [e \in Entities |-> 0]
  BY <1>7 DEF Init
<1>11. ASSUME NEW r \in Remotes
       PROVE  RemoteOK(log, r, publishes, answers[r], inbox[r], replica[r], moves[r], gone[r])
  <2>1. AnswerOK(log, answers[r]) /\ InboxOK(log, inbox[r]) /\ MovesOK(log, moves[r])
    <3>1. <<>> \in Seq(Events \cup Snapshots) /\ Len(<<>>) = 0
      OBVIOUS
    <3>2. InboxOK(log, inbox[r])
      <4>1. \A k \in 1..Len(inbox[r]) : FALSE
        BY <1>10, <3>1
      <4> QED
        BY <1>10, <3>1, <4>1 DEF InboxOK
    <3> QED
      BY <1>10, <3>2 DEF AnswerOK, MovesOK
  <2>2. Delivery(log, r, publishes, inbox[r], replica[r]) /\ GoneOK(log, replica[r], gone[r])
    BY <1>3, <1>10 DEF Delivery, GoneOK
  <2> QED
    BY <1>9, <1>10, <2>1, <2>2 DEF RemoteOK
<1>12. Shapes
  <2>1. /\ requests \in [Remotes -> 0..MaxRequests] /\ needs \in [Remotes -> BOOLEAN]
        /\ gone \in [Remotes -> [Entities -> Nat]] /\ answers \in [Remotes -> Snapshots \cup {NoAnswer}]
        /\ inbox \in [Remotes -> Seq(Events \cup Snapshots)]
        /\ moves \in [Remotes -> [Entities -> Events \cup {NoMove}]]
    BY <1>1 DEF Init
  <2>2. replica \in [Remotes -> Copies]
    BY <1>7, <1>8 DEF Init
  <2> QED
    BY <2>1, <2>2 DEF Shapes
<1> QED
  BY <1>4, <1>5, <1>6, <1>11, <1>12 DEF IInv

\* A step that leaves the copies alone.
LEMMA StillOnward ==
    ASSUME IInv, UNCHANGED <<replica, gone>>
    PROVE  Onward
<1> SUFFICES ASSUME NEW r \in Remotes, NEW e \in Entities
             PROVE  /\ gone'[r][e] >= gone[r][e] /\ replica'[r].ents[e].ver >= replica[r].ents[e].ver
  BY DEF Onward
<1>1. replica[r] \in Copies /\ gone[r][e] \in Nat
  BY DEF IInv, Shapes
<1>2. replica[r].ents[e].ver \in Nat
  BY <1>1, CopyTypes
<1> QED
  BY <1>1, <1>2

\* Every step.
LEMMA StepHolds == IInv /\ [Next]_vars => IInv' /\ Onward
<1> SUFFICES ASSUME IInv, [Next]_vars PROVE IInv' /\ Onward
  OBVIOUS
<1>1. ASSUME NEW e \in Entities, NEW pos \in Positions, Enter(e, pos) PROVE IInv' /\ Onward
  <2>1. UNCHANGED <<replica, gone>>
    BY <1>1 DEF Enter, remoteVars
  <2> QED
    BY <1>1, <2>1, EnterStep, StillOnward
<1>2. ASSUME NEW e \in Entities, NEW pos \in Positions, Move(e, pos) PROVE IInv' /\ Onward
  <2>1. UNCHANGED <<replica, gone>>
    BY <1>2 DEF Move, remoteVars
  <2> QED
    BY <1>2, <2>1, MoveStep, StillOnward
<1>3. ASSUME NEW e \in Entities, Leave(e) PROVE IInv' /\ Onward
  <2>1. UNCHANGED <<replica, gone>>
    BY <1>3 DEF Leave, remoteVars
  <2> QED
    BY <1>3, <2>1, LeaveStep, StillOnward
<1>4. ASSUME OwnerTick PROVE IInv' /\ Onward
  <2>1. UNCHANGED <<replica, gone>>
    BY <1>4 DEF OwnerTick, RetryPublishes, remoteVars
  <2> QED
    BY <1>4, <2>1, OwnerTickStep, StillOnward
<1>5. ASSUME NEW r \in Remotes, AnswerRequest(r) PROVE IInv' /\ Onward
  <2>1. UNCHANGED <<replica, gone>>
    BY <1>5 DEF AnswerRequest, remoteVars
  <2> QED
    BY <1>5, <2>1, AnswerRequestStep, StillOnward
<1>6. ASSUME NEW r \in Remotes, SendAnswer(r) PROVE IInv' /\ Onward
  <2>1. UNCHANGED <<replica, gone>>
    BY <1>6 DEF SendAnswer, remoteVars
  <2> QED
    BY <1>6, <2>1, SendAnswerStep, StillOnward
<1>7. ASSUME NEW r \in Remotes, Receive(r) PROVE IInv' /\ Onward
  BY <1>7, ReceiveStep
<1>8. ASSUME NEW r \in Remotes, FlushRemoteMoves(r) PROVE IInv' /\ Onward
  BY <1>8, FlushStep
<1>9. ASSUME NEW r \in Remotes, RequestSnapshot(r) PROVE IInv' /\ Onward
  <2>1. UNCHANGED <<replica, gone>>
    BY <1>9 DEF RequestSnapshot, remoteVars
  <2> QED
    BY <1>9, <2>1, RequestSnapshotStep, StillOnward
<1>10. CASE UNCHANGED vars
  <2>1. UNCHANGED <<replica, gone>> /\ IInv'
    BY <1>10 DEF vars, ownerVars, remoteVars, IInv, Shapes
  <2> QED
    BY <2>1, StillOnward
<1> QED
  BY <1>1, <1>2, <1>3, <1>4, <1>5, <1>6, <1>7, <1>8, <1>9, <1>10 DEF Next

\* The invariant of every run.
THEOREM Inductive == Spec => []IInv
<1>1. IInv /\ [Next]_vars => IInv'
  BY StepHolds
<1> QED
  BY InitHolds, <1>1, PTL DEF Spec

\* A state that an event left behind was published.
LEMMA ShownIsPublished ==
    ASSUME Orderly(log), NEW e, NEW s \in States, s = Absent \/ Shows(log, e, s)
    PROVE  Published(e, s)
<1> SUFFICES ASSUME Shows(log, e, s), s # Absent
             PROVE  /\ s.seq \in DOMAIN log
                    /\ log[s.seq].id = e /\ log[s.seq].kind # "leave" /\ StateOf(log[s.seq]) = s
  BY DEF Published
<1>1. PICK i : i = s.seq
  OBVIOUS
<1>2. i \in 1..Len(log) /\ log[i].id = e /\ log[i].kind # "leave"
      /\ s.gen = log[i].gen /\ s.ver = log[i].ver /\ s.pos = log[i].pos
  BY <1>1, ShownFields
<1>3. log[i].seq = i /\ DOMAIN log = 1..Len(log)
  BY <1>2, EventFields DEF Orderly
<1>4. PICK t : t = StateOf(log[i])
  OBVIOUS
<1>5. t = [gen |-> s.gen, ver |-> s.ver, pos |-> s.pos, seq |-> s.seq]
  BY <1>1, <1>2, <1>3, <1>4 DEF StateOf
<1>6. s = [gen |-> s.gen, ver |-> s.ver, pos |-> s.pos, seq |-> s.seq]
  BY DEF States
<1> QED
  BY <1>1, <1>2, <1>3, <1>4, <1>5, <1>6

\* When nothing is under way, every event has been heeded.
LEMMA QuietHeeded ==
    ASSUME IInv, NEW r \in Remotes, Quiet(r), NEW i \in 1..Len(log)
    PROVE  Heeded(log, replica[r], log[i])
<1>1. Delivery(log, r, publishes, inbox[r], replica[r]) /\ publishes \in Seq(Publications)
  BY DEF IInv, RemoteOK, PublishesOK
<1>2. ~Waiting(log[i], r, publishes)
  <2>1. DOMAIN publishes = 1..Len(publishes)
    BY <1>1
  <2> QED
    BY <2>1 DEF Quiet, Waiting
<1>3. ~Queued(log[i], inbox[r])
  <2>1. inbox[r] = <<>> /\ Len(<<>>) = 0
    BY DEF Quiet
  <2>2. 1..Len(inbox[r]) = {}
    BY <2>1
  <2> QED
    BY <2>2 DEF Queued
<1> QED
  BY <1>1, <1>2, <1>3 DEF Delivery

\* Then the copies show the owner's generations.
LEMMA QuietMirrors ==
    ASSUME IInv, NEW r \in Remotes, Quiet(r)
    PROVE  Mirrors(r)
<1> SUFFICES ASSUME NEW e \in Entities PROVE replica[r].ents[e].gen = owned[e].gen
  BY DEF Mirrors
<1> DEFINE rep == replica[r]
           s == rep.ents[e]
<1>1. Orderly(log) /\ OwnerOK(log, owned, generation) /\ Len(log) \in Nat
  BY DEF IInv, Orderly
<1>2. rep \in Copies /\ CopyOf(log, rep, e)
  BY RemoteFacts
<1>3. s.gen \in Nat /\ rep.water \in Int /\ rep.tombs[e].gen \in Nat
  BY <1>2, CopyTypes
<1>4. s = Absent \/ (Shows(log, e, s) /\ ~Ended(log, rep, e, s.gen))
  BY <1>2 DEF CopyOf
<1>5. \A i \in 1..Len(log) : Heeded(log, rep, log[i])
  BY QuietHeeded
<1>6. Absent.gen = 0
  BY DEF Absent
<1> HIDE DEF rep
<1>7. CASE owned[e] = Absent
  <2>1. Vacant(log, e, Len(log))
    BY <1>1, <1>7 DEF OwnerOK, Accurate
  <2>2. ASSUME s # Absent PROVE FALSE
    <3>1. PICK k \in 1..Len(log) : k = s.seq /\ log[k].id = e /\ log[k].gen = s.gen
      BY <1>1, <1>4, <2>2, ShownFields
    <3>2. PICK j \in 1..Len(log) : log[j].id = e /\ log[j].kind = "leave" /\ log[j].gen >= log[k].gen
      BY <2>1, <3>1 DEF Vacant
    <3>3. log[j].gen \in Nat /\ log[j].gen >= s.gen
      BY <1>1, <3>1, <3>2, EventFields
    <3>4. Left(log, rep, e, log[j].gen)
      BY <1>5, <3>2 DEF Heeded
    <3>5. Ended(log, rep, e, log[j].gen)
      BY <1>3, <3>3, <3>4 DEF Left
    <3>6. Ended(log, rep, e, s.gen)
      BY <1>1, <1>2, <1>3, <3>3, <3>5, EndedLess
    <3> QED
      BY <1>4, <2>2, <3>6
  <2> QED
    BY <1>6, <1>7, <2>2 DEF rep
<1>8. CASE owned[e] # Absent
  <2>1. PICK own : own = owned[e]
    OBVIOUS
  <2>2. Present(log, e, Len(log), own) /\ Shows(log, e, own)
    BY <1>1, <1>8, <2>1 DEF OwnerOK, Accurate, Present
  <2>3. PICK k \in 1..Len(log) : k = own.seq /\ log[k].id = e /\ log[k].gen = own.gen /\ own.gen \in Nat /\ own.gen > 0
    BY <1>1, <2>2, ShownFields
  <2>4. PICK j \in 1..k : log[j].id = log[k].id /\ log[j].gen = log[k].gen /\ log[j].kind = "entry"
    BY <1>1 DEF Orderly, Started
  <2>5. j \in 1..Len(log)
    BY <1>1
  <2>6. Reached(log, rep, e, own.gen)
    BY <1>5, <2>3, <2>4, <2>5 DEF Heeded
  <2>7. ~Ended(log, rep, e, own.gen)
    <3>1. Len(log) <= Len(log)
      BY <1>1
    <3>2. ~LeftBy(log, Len(log), e, own.gen)
      BY <1>1, <2>2, <3>1, PresentNotLeft
    <3>3. ~LeftBy(log, rep.water, e, own.gen)
      <4>1. \A x \in 1..Len(log) : x <= Len(log)
        BY <1>1
      <4> QED
        BY <3>2, <4>1 DEF LeftBy
    <3>4. ~(rep.tombs[e].gen >= own.gen)
      <4> SUFFICES ASSUME rep.tombs[e].gen >= own.gen PROVE FALSE
        OBVIOUS
      <4>1. rep.tombs[e] # NoTomb
        BY <2>3 DEF NoTomb
      <4>2. PICK t \in 1..Len(log) : log[t].id = e /\ log[t].kind = "leave" /\ log[t].gen = rep.tombs[e].gen
        BY <1>2, <4>1 DEF CopyOf
      <4>3. t <= Len(log)
        BY <1>1
      <4> QED
        BY <3>2, <4>2, <4>3 DEF LeftBy
    <3> QED
      BY <3>3, <3>4 DEF Ended
  <2>8. s.gen >= own.gen
    BY <2>6, <2>7 DEF Reached
  <2>9. Shows(log, e, s)
    BY <1>3, <1>4, <1>6, <2>3, <2>8
  <2>10. PICK i \in 1..Len(log) : i = s.seq /\ log[i].id = e /\ log[i].gen = s.gen
    BY <1>1, <2>9, ShownFields
  <2>11. i <= own.seq
    BY <2>2, <2>10 DEF Present
  <2>12. log[i].gen <= own.gen
    BY <1>1, <2>2, <2>10, <2>11, NotAfter
  <2> QED
    BY <1>3, <2>1, <2>3, <2>8, <2>10, <2>12 DEF rep
<1> QED
  BY <1>7, <1>8

\* What the inductive invariant says of the properties.
LEMMA InvariantImplies == IInv => ReplicaInv
<1> SUFFICES ASSUME IInv PROVE ReplicaInv
  OBVIOUS
<1>1. Orderly(log) /\ OwnerOK(log, owned, generation) /\ Shapes /\ Len(log) \in Nat /\ Len(log) <= MaxSeq
  BY DEF IInv, Orderly
<1>2. TypeOK
  <2>1. owned \in [Entities -> States] /\ generation \in [Entities -> Nat]
    BY <1>1 DEF OwnerOK
  <2> QED
    BY <1>1, <2>1 DEF TypeOK, Shapes, Copies, Tombs
<1>3. ASSUME NEW e \in Entities PROVE Published(e, owned[e]) /\ owned[e].gen \in {0, generation[e]}
  <2>1. owned[e] \in States
    BY <1>1 DEF OwnerOK
  <2>2. owned[e] = Absent \/ Shows(log, e, owned[e])
    BY <1>1 DEF OwnerOK, Accurate, Present
  <2>3. owned[e].gen \in {0, generation[e]}
    BY <1>1 DEF OwnerOK, Absent
  <2> QED
    BY <1>1, <2>1, <2>2, <2>3, ShownIsPublished
<1>4. ASSUME NEW r \in Remotes, NEW e \in Entities
      PROVE  /\ Published(e, replica[r].ents[e])
             /\ replica[r].tombs[e] # NoTomb =>
                  /\ log[replica[r].tombs[e].seq].id = e /\ log[replica[r].tombs[e].seq].kind = "leave"
                  /\ log[replica[r].tombs[e].seq].gen = replica[r].tombs[e].gen
  <2>1. replica[r] \in Copies /\ CopyOf(log, replica[r], e)
    BY RemoteFacts
  <2>2. replica[r].ents[e] \in States
    BY <2>1, CopyTypes
  <2>3. Published(e, replica[r].ents[e])
    BY <1>1, <2>1, <2>2, ShownIsPublished DEF CopyOf
  <2> QED
    BY <2>1, <2>3 DEF CopyOf
<1>5. ASSUME NEW r \in Remotes, NEW i \in DOMAIN inbox[r], inbox[r][i].kind = "snapshot"
      PROVE  /\ \A e \in Entities : Published(e, inbox[r][i].ents[e])
             /\ SnapshotVerdict(replica[r], inbox[r][i]) # "invalid"
  <2>1. PICK m : m = inbox[r][i]
    OBVIOUS
  <2>2. IsEvent(log, m) \/ IsSnapshot(log, m)
    <3>1. InboxOK(log, inbox[r])
      BY DEF IInv, RemoteOK
    <3>2. i \in 1..Len(inbox[r])
      BY <3>1 DEF InboxOK
    <3> QED
      BY <2>1, <3>1, <3>2 DEF InboxOK
  <2>3. ~IsEvent(log, m)
    <3> SUFFICES ASSUME IsEvent(log, m) PROVE FALSE
      OBVIOUS
    <3>1. PICK k \in 1..Len(log) : m = log[k]
      BY DEF IsEvent
    <3>2. m.kind \in Kinds
      BY <1>1, <3>1, EventFields
    <3> QED
      BY <1>5, <2>1, <3>2 DEF Kinds
  <2>4. m \in Snapshots /\ m.seq <= Len(log) /\ Accurate(log, m.seq, m.ents)
    BY <2>2, <2>3 DEF IsSnapshot
  <2>5. ASSUME NEW e \in Entities PROVE Published(e, m.ents[e])
    <3>1. m.ents[e] \in States
      BY <2>4 DEF Snapshots
    <3>2. m.ents[e] = Absent \/ Shows(log, e, m.ents[e])
      BY <2>4 DEF Accurate, Present
    <3> QED
      BY <1>1, <3>1, <3>2, ShownIsPublished
  <2>6. SnapshotVerdict(replica[r], m) # "invalid"
    BY <1>1, <2>4, RemoteFacts, NeverContradicts
  <2> QED
    BY <2>1, <2>5, <2>6
<1>6. \A r \in Remotes : Quiet(r) => Mirrors(r)
  BY QuietMirrors
<1> QED
  BY <1>2, <1>3, <1>4, <1>5, <1>6 DEF ReplicaInv

\* What a worker shows is exactly what one event of the owner published,
\* snapshots never contradict their receiver, and when nothing is under way
\* a worker shows exactly the owner's entities: AoiReplica::Apply,
\* ApplyOwnerSnapshot and the recovery around them, for any entities,
\* positions, workers and bounds.
THEOREM CopiesAgree == Spec => []ReplicaInv
BY Inductive, InvariantImplies, PTL

\* A worker never shows a generation again that it has stopped showing, nor
\* an older version of the one it shows: the verdicts of AoiReplica::Apply
\* and the kept entries of ApplyOwnerSnapshot.
THEOREM CopiesNeverGoBack == Spec => NeverBackwards
<1> DEFINE Forwards == \A r \in Remotes, e \in Entities :
              LET a == replica[r].ents[e]  b == replica'[r].ents[e] IN
              b.gen # 0 => b.gen > gone[r][e] /\ (b.gen = a.gen => b.ver >= a.ver)
<1>1. ASSUME IInv, [Next]_vars PROVE Forwards
  <2> SUFFICES ASSUME NEW r \in Remotes, NEW e \in Entities, replica'[r].ents[e].gen # 0
               PROVE  /\ replica'[r].ents[e].gen > gone[r][e]
                      /\ replica'[r].ents[e].gen = replica[r].ents[e].gen =>
                           replica'[r].ents[e].ver >= replica[r].ents[e].ver
    OBVIOUS
  <2>1. IInv' /\ Onward
    BY <1>1, StepHolds
  <2>2. PICK l, rep, go : l = log' /\ rep = replica'[r] /\ go = gone'[r]
    OBVIOUS
  <2>3. Orderly(l) /\ CopyInv(l, rep) /\ GoneOK(l, rep, go)
    BY <2>1, <2>2 DEF IInv, RemoteOK
  <2>4. go[e] \in Nat /\ (go[e] = 0 \/ Left(l, rep, e, go[e])) /\ rep \in Copies /\ CopyOf(l, rep, e)
    BY <2>3 DEF GoneOK, CopyInv
  <2>5. rep.ents[e].gen \in Nat /\ rep.ents[e].gen # 0
    BY <2>2, <2>4, CopyTypes
  <2>6. ~Ended(l, rep, e, rep.ents[e].gen)
    BY <2>4, <2>5 DEF CopyOf, Absent
  <2>7. rep.ents[e].gen > go[e]
    <3> SUFFICES ASSUME rep.ents[e].gen <= go[e] PROVE FALSE
      BY <2>4, <2>5
    <3>1. Left(l, rep, e, go[e])
      BY <2>4, <2>5
    <3>2. Ended(l, rep, e, go[e])
      BY <2>4, <2>5, <3>1 DEF Left
    <3> QED
      BY <2>3, <2>4, <2>5, <2>6, <3>2, EndedLess
  <2>8. gone[r][e] \in Nat /\ go[e] >= gone[r][e]
    BY <1>1, <2>1, <2>2 DEF IInv, Shapes, Onward
  <2> QED
    BY <2>1, <2>2, <2>4, <2>5, <2>7, <2>8 DEF Onward
<1> QED
  BY <1>1, Inductive, PTL DEF Spec, NeverBackwards
=============================================================================
