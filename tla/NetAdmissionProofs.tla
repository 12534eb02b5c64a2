------------------------- MODULE NetAdmissionProofs -------------------------
(***************************************************************************)
(* Proofs about NetAdmission, for any players, workers, limits and sizes:  *)
(* the books of the network thread agree, a worker that has drained what   *)
(* is on its way knows what the client index says, business reaches it     *)
(* only inside its binding, and what it knows of a player never goes back. *)
(*                                                                         *)
(* The argument follows one player's messages through the two queues they  *)
(* wait in, the worker's and the pending one behind it: each message fits  *)
(* what the worker knows when it arrives (InOrder), and what it knows      *)
(* after the last one is what the index says (EndsKnown).  Only business   *)
(* ever leaves a queue from the middle, which tells the worker nothing.    *)
(***************************************************************************)
EXTENDS NetAdmission, FiniteSetTheorems, SequenceTheorems, WellFoundedInduction, TLAPS

-----------------------------------------------------------------------------
(* Induction, and functions defined by recursion.                          *)

\* Induction on the naturals, for a set.
LEMMA NatSetInduction ==
    ASSUME NEW T \in SUBSET Nat, 0 \in T, \A n \in T : n + 1 \in T
    PROVE  T = Nat
<1> SUFFICES ASSUME Nat \ T # {} PROVE FALSE
  OBVIOUS
<1> DEFINE R == OpToRel(<, Nat)
<1>1. IsWellFoundedOn(R, Nat)
  BY NatLessThanWellFounded
<1>2. PICK x \in Nat \ T : \A y \in Nat \ T : ~ (<<y, x>> \in R)
  <2> HIDE DEF R
  <2> QED BY <1>1, WFMin
<1>3. \A y \in Nat : y < x => <<y, x>> \in R
  BY DEF OpToRel
<1> HIDE DEF R
<1>4. x # 0 /\ x - 1 \in Nat /\ (x - 1) + 1 = x /\ x - 1 < x
  OBVIOUS
<1>5. x - 1 \notin Nat \ T
  BY <1>2, <1>3, <1>4
<1> QED
  BY <1>2, <1>4, <1>5

\* g follows the steps T[1], ... T[m].
Steps(T, g, m) == \A n \in 1..m : g[n] = T[n][g[n - 1]]

\* A recursion over the first m numbers has a solution.
LEMMA RecursionExists ==
    ASSUME NEW X, NEW x0 \in X, NEW N \in Nat, NEW T \in [1..N -> [X -> X]]
    PROVE  \E g \in [0..N -> X] : g[0] = x0 /\ Steps(T, g, N)
<1> DEFINE Good(m) == m <= N => \E g \in [0..m -> X] : g[0] = x0 /\ Steps(T, g, m)
           S == {m \in Nat : Good(m)}
<1>1. 0 \in S
  <2>1. [i \in 0..0 |-> x0] \in [0..0 -> X] /\ [i \in 0..0 |-> x0][0] = x0
    OBVIOUS
  <2>2. Steps(T, [i \in 0..0 |-> x0], 0)
    BY DEF Steps
  <2> QED
    BY <2>1, <2>2
<1>2. ASSUME NEW m \in S PROVE m + 1 \in S
  <2> SUFFICES ASSUME m + 1 <= N
               PROVE \E h \in [0..(m + 1) -> X] : h[0] = x0 /\ Steps(T, h, m + 1)
    OBVIOUS
  <2>1. m \in Nat /\ m <= N /\ Good(m)
    OBVIOUS
  <2>2. PICK g \in [0..m -> X] : g[0] = x0 /\ Steps(T, g, m)
    BY <2>1
  <2> HIDE DEF Good, S
  <2> DEFINE h == [i \in 0..(m + 1) |-> IF i <= m THEN g[i] ELSE T[m + 1][g[m]]]
  <2>3. m + 1 \in 1..N /\ m \in 0..m
    BY <2>1
  <2>4. T[m + 1][g[m]] \in X
    BY <2>3
  <2>5. h \in [0..(m + 1) -> X]
    BY <2>1, <2>4
  <2>6. h[0] = x0
    BY <2>1, <2>2
  <2>7. ASSUME NEW n \in 1..(m + 1) PROVE h[n] = T[n][h[n - 1]]
    <3>1. n - 1 \in 0..m /\ n - 1 <= m /\ n \in 0..(m + 1) /\ n - 1 \in 0..(m + 1)
      BY <2>1
    <3>2. h[n - 1] = g[n - 1]
      BY <3>1
    <3>3. CASE n <= m
      <4>1. n \in 1..m /\ h[n] = g[n]
        BY <2>1, <3>1, <3>3
      <4> HIDE DEF h
      <4> QED
        BY <2>2, <3>2, <4>1 DEF Steps
    <3>4. CASE ~ (n <= m)
      <4>1. n = m + 1 /\ n - 1 = m
        BY <2>1, <3>4
      <4>2. h[n] = T[m + 1][g[m]]
        BY <3>1, <3>4
      <4> HIDE DEF h
      <4> QED
        BY <3>2, <4>1, <4>2
    <3> QED
      BY <3>3, <3>4
  <2> HIDE DEF h
  <2> QED
    BY <2>5, <2>6, <2>7 DEF Steps
<1>3. S = Nat
  <2> HIDE DEF Good
  <2>1. S \in SUBSET Nat
    OBVIOUS
  <2> HIDE DEF S
  <2> QED
    BY <1>1, <1>2, <2>1, NatSetInduction
<1>4. N \in S
  BY <1>3
<1> QED
  BY <1>4

\* Two solutions of one recursion agree as far as both go.
LEMMA RecursionAgrees ==
    ASSUME NEW T, NEW U, NEW g, NEW h, NEW m \in Nat, g[0] = h[0], Steps(T, g, m), Steps(U, h, m),
           \A n \in 1..m : T[n] = U[n]
    PROVE  \A n \in 0..m : g[n] = h[n]
<1> DEFINE S == {n \in Nat : n <= m => g[n] = h[n]}
<1>1. 0 \in S
  OBVIOUS
<1>2. ASSUME NEW n \in S PROVE n + 1 \in S
  <2> SUFFICES ASSUME n + 1 <= m PROVE g[n + 1] = h[n + 1]
    OBVIOUS
  <2>1. n + 1 \in 1..m /\ (n + 1) - 1 = n /\ n <= m
    OBVIOUS
  <2>2. g[n] = h[n]
    BY <2>1
  <2> HIDE DEF S
  <2>3. g[n + 1] = T[n + 1][g[n]] /\ h[n + 1] = U[n + 1][h[n]]
    BY <2>1 DEF Steps
  <2> QED
    BY <2>1, <2>2, <2>3
<1>3. S = Nat
  <2>1. S \in SUBSET Nat
    OBVIOUS
  <2> HIDE DEF S
  <2> QED
    BY <1>1, <1>2, <2>1, NatSetInduction
<1> QED
  BY <1>3

-----------------------------------------------------------------------------
(* Entries and Bytes.                                                      *)

EntrySteps(X, s, K) == [n \in 1..Len(s) |-> [x \in Seq(X) |-> IF n \in K THEN Append(x, s[n]) ELSE x]]
EntryRecurs(s, K, g) ==
    g = [n \in 0..Len(s) |-> IF n = 0 THEN <<>> ELSE IF n \in K THEN Append(g[n - 1], s[n]) ELSE g[n - 1]]

\* The recursion of Entries, as steps.
LEMMA EntryRecursSteps ==
    ASSUME NEW X, NEW s \in Seq(X), NEW K, NEW g, EntryRecurs(s, K, g)
    PROVE  /\ g[0] = <<>> /\ \A n \in 0..Len(s) : g[n] \in Seq(X)
           /\ Steps(EntrySteps(X, s, K), g, Len(s))
<1> DEFINE f == [n \in 0..Len(s) |-> IF n = 0 THEN <<>> ELSE IF n \in K THEN Append(g[n - 1], s[n]) ELSE g[n - 1]]
<1>1. g = f
  BY DEF EntryRecurs
<1>2. f[0] = <<>> /\ \A n \in 1..Len(s) : f[n] = IF n \in K THEN Append(g[n - 1], s[n]) ELSE g[n - 1]
  OBVIOUS
<1> HIDE DEF f
<1>3. g[0] = <<>> /\ \A n \in 1..Len(s) : g[n] = IF n \in K THEN Append(g[n - 1], s[n]) ELSE g[n - 1]
  BY <1>1, <1>2
<1> DEFINE S == {n \in Nat : n <= Len(s) => g[n] \in Seq(X)}
<1>4. 0 \in S
  <2>1. <<>> \in Seq(X)
    OBVIOUS
  <2>2. g[0] \in Seq(X)
    BY <1>3, <2>1
  <2> QED
    BY <2>2
<1>5. ASSUME NEW n \in S PROVE n + 1 \in S
  <2> SUFFICES ASSUME n + 1 <= Len(s) PROVE g[n + 1] \in Seq(X)
    OBVIOUS
  <2>1. n + 1 \in 1..Len(s) /\ (n + 1) - 1 = n /\ n <= Len(s) /\ n \in Nat /\ Len(s) \in Nat
    OBVIOUS
  <2>2. g[n] \in Seq(X) /\ s[n + 1] \in X
    BY <2>1, ElementOfSeq
  <2>3. g[n + 1] = IF n + 1 \in K THEN Append(g[n], s[n + 1]) ELSE g[n]
    BY <1>3, <2>1
  <2>4. Append(g[n], s[n + 1]) \in Seq(X)
    BY <2>2, AppendProperties
  <2> QED
    BY <2>2, <2>3, <2>4
<1>6. S = Nat
  <2>1. S \in SUBSET Nat
    OBVIOUS
  <2> HIDE DEF S
  <2> QED
    BY <1>4, <1>5, <2>1, NatSetInduction
<1>7. \A n \in 0..Len(s) : g[n] \in Seq(X)
  BY <1>6
<1>8. ASSUME NEW n \in 1..Len(s) PROVE g[n] = EntrySteps(X, s, K)[n][g[n - 1]]
  <2>1. n - 1 \in 0..Len(s)
    OBVIOUS
  <2>2. g[n - 1] \in Seq(X)
    BY <1>7, <2>1
  <2>3. EntrySteps(X, s, K)[n] = [x \in Seq(X) |-> IF n \in K THEN Append(x, s[n]) ELSE x]
    BY DEF EntrySteps
  <2>4. EntrySteps(X, s, K)[n][g[n - 1]] = IF n \in K THEN Append(g[n - 1], s[n]) ELSE g[n - 1]
    BY <2>2, <2>3
  <2> QED
    BY <1>3, <2>4
<1> QED
  BY <1>3, <1>7, <1>8 DEF Steps

\* What Entries is: the last value of the recursion.
LEMMA EntriesAre ==
    ASSUME NEW X, NEW s \in Seq(X), NEW K
    PROVE  \E g : /\ g[0] = <<>> /\ \A n \in 0..Len(s) : g[n] \in Seq(X)
                  /\ Steps(EntrySteps(X, s, K), g, Len(s)) /\ Entries(s, K) = g[Len(s)]
<1>1. Len(s) \in Nat
  OBVIOUS
<1>2. EntrySteps(X, s, K) \in [1..Len(s) -> [Seq(X) -> Seq(X)]]
  <2> SUFFICES ASSUME NEW n \in 1..Len(s), NEW x \in Seq(X) PROVE Append(x, s[n]) \in Seq(X)
    BY DEF EntrySteps
  <2>1. s[n] \in X
    BY ElementOfSeq
  <2> QED
    BY <2>1, AppendProperties
<1>3. <<>> \in Seq(X)
  OBVIOUS
<1>4. \E h \in [0..Len(s) -> Seq(X)] : h[0] = <<>> /\ Steps(EntrySteps(X, s, K), h, Len(s))
  BY <1>1, <1>2, <1>3, RecursionExists
<1>5. PICK h \in [0..Len(s) -> Seq(X)] : h[0] = <<>> /\ Steps(EntrySteps(X, s, K), h, Len(s))
  BY <1>4
<1> DEFINE f == [n \in 0..Len(s) |-> IF n = 0 THEN <<>> ELSE IF n \in K THEN Append(h[n - 1], s[n]) ELSE h[n - 1]]
<1>6. ASSUME NEW n \in 0..Len(s) PROVE f[n] = h[n]
  <2>1. CASE n = 0
    BY <1>5, <2>1
  <2>2. CASE n # 0
    <3>1. n \in 1..Len(s) /\ n - 1 \in 0..Len(s)
      BY <1>1, <2>2
    <3>2. h[n - 1] \in Seq(X)
      BY <3>1
    <3>3. f[n] = IF n \in K THEN Append(h[n - 1], s[n]) ELSE h[n - 1]
      BY <2>2
    <3> HIDE DEF f
    <3>4. EntrySteps(X, s, K)[n] = [x \in Seq(X) |-> IF n \in K THEN Append(x, s[n]) ELSE x]
      BY <3>1 DEF EntrySteps
    <3>5. EntrySteps(X, s, K)[n][h[n - 1]] = IF n \in K THEN Append(h[n - 1], s[n]) ELSE h[n - 1]
      BY <3>2, <3>4
    <3> QED
      BY <1>5, <3>1, <3>3, <3>5 DEF Steps
  <2> QED
    BY <2>1, <2>2
<1>7. DOMAIN f = 0..Len(s) /\ f = [n \in 0..Len(s) |-> f[n]] /\ h = [n \in 0..Len(s) |-> h[n]]
  OBVIOUS
<1>8. EntryRecurs(s, K, h)
  <2> HIDE DEF f
  <2>1. h = f
    BY <1>6, <1>7
  <2> QED
    BY <2>1 DEF EntryRecurs, f
<1> DEFINE g == CHOOSE k : EntryRecurs(s, K, k)
<1>9. EntryRecurs(s, K, g)
  <2> HIDE DEF f
  <2> QED BY <1>8
<1>10. Entries(s, K) = g[Len(s)]
  BY Zenon DEF Entries, EntryRecurs
<1> HIDE DEF g, f
<1>11. /\ g[0] = <<>> /\ \A n \in 0..Len(s) : g[n] \in Seq(X)
       /\ Steps(EntrySteps(X, s, K), g, Len(s))
  BY <1>9, EntryRecursSteps
<1> QED
  BY <1>10, <1>11

\* The entries of a longer sequence.
LEMMA EntriesGrow ==
    ASSUME NEW X, NEW s \in Seq(X), NEW y \in X, NEW K
    PROVE  Entries(Append(s, y), K) = IF Len(s) + 1 \in K THEN Append(Entries(s, K), y) ELSE Entries(s, K)
<1> DEFINE t == Append(s, y)
<1>1. t \in Seq(X) /\ Len(t) = Len(s) + 1 /\ Len(s) \in Nat /\ t[Len(s) + 1] = y /\ \A n \in 1..Len(s) : t[n] = s[n]
  BY AppendProperties
<1> HIDE DEF t
<1>2. PICK g : /\ g[0] = <<>> /\ \A n \in 0..Len(s) : g[n] \in Seq(X)
               /\ Steps(EntrySteps(X, s, K), g, Len(s)) /\ Entries(s, K) = g[Len(s)]
  BY EntriesAre
<1>3. PICK h : /\ h[0] = <<>> /\ \A n \in 0..Len(t) : h[n] \in Seq(X)
               /\ Steps(EntrySteps(X, t, K), h, Len(t)) /\ Entries(t, K) = h[Len(t)]
  BY <1>1, EntriesAre
<1>4. \A n \in 1..Len(s) : EntrySteps(X, s, K)[n] = EntrySteps(X, t, K)[n]
  <2> SUFFICES ASSUME NEW n \in 1..Len(s) PROVE EntrySteps(X, s, K)[n] = EntrySteps(X, t, K)[n]
    OBVIOUS
  <2>1. n \in 1..Len(t) /\ t[n] = s[n]
    BY <1>1
  <2> QED
    BY <2>1 DEF EntrySteps
<1>5. Steps(EntrySteps(X, t, K), h, Len(s))
  <2>1. \A n \in 1..Len(s) : n \in 1..Len(t)
    BY <1>1
  <2> QED
    BY <1>3, <2>1 DEF Steps
<1>6. g[Len(s)] = h[Len(s)]
  <2>1. \A n \in 0..Len(s) : g[n] = h[n]
    BY <1>1, <1>2, <1>3, <1>4, <1>5, RecursionAgrees
  <2> QED
    BY <1>1, <2>1
<1>7. h[Len(t)] = IF Len(s) + 1 \in K THEN Append(h[Len(s)], y) ELSE h[Len(s)]
  <2>1. Len(t) \in 1..Len(t) /\ Len(t) - 1 = Len(s) /\ Len(s) \in 0..Len(t)
    BY <1>1
  <2>2. h[Len(t)] = EntrySteps(X, t, K)[Len(t)][h[Len(s)]]
    BY <1>3, <2>1 DEF Steps
  <2>3. EntrySteps(X, t, K)[Len(t)] = [x \in Seq(X) |-> IF Len(t) \in K THEN Append(x, t[Len(t)]) ELSE x]
    BY <2>1 DEF EntrySteps
  <2>4. h[Len(s)] \in Seq(X)
    BY <1>3, <2>1
  <2> QED
    BY <1>1, <2>2, <2>3, <2>4
<1> QED
  BY <1>2, <1>3, <1>6, <1>7 DEF t

\* Nothing is kept of an empty sequence.
LEMMA EntriesNothing == \A K : Entries(<<>>, K) = <<>>
<1> SUFFICES ASSUME NEW K PROVE Entries(<<>>, K) = <<>>
  OBVIOUS
<1>1. PICK s : s = <<>>
  OBVIOUS
<1>2. s \in Seq({}) /\ Len(s) = 0
  BY <1>1
<1>3. Entries(s, K) = <<>>
  BY <1>2, EntriesAre
<1> QED
  BY <1>1, <1>3

\* What is kept of a sequence is a sequence of the same kind.
LEMMA EntriesType ==
    ASSUME NEW X, NEW s \in Seq(X), NEW K
    PROVE  Entries(s, K) \in Seq(X)
<1>1. Len(s) \in 0..Len(s)
  OBVIOUS
<1> QED
  BY <1>1, EntriesAre

SizeSteps(s) == [n \in 1..Len(s) |-> [x \in Nat |-> x + s[n].size]]
SizeRecurs(s, g) == g = [n \in 0..Len(s) |-> IF n = 0 THEN 0 ELSE g[n - 1] + s[n].size]

\* The recursion of Bytes, as steps.
LEMMA SizeRecursSteps ==
    ASSUME NEW s, Len(s) \in Nat, \A n \in 1..Len(s) : s[n].size \in Nat, NEW g, SizeRecurs(s, g)
    PROVE  /\ g[0] = 0 /\ \A n \in 0..Len(s) : g[n] \in Nat
           /\ Steps(SizeSteps(s), g, Len(s))
<1> DEFINE f == [n \in 0..Len(s) |-> IF n = 0 THEN 0 ELSE g[n - 1] + s[n].size]
<1>1. g = f
  BY DEF SizeRecurs
<1>2. f[0] = 0 /\ \A n \in 1..Len(s) : f[n] = g[n - 1] + s[n].size
  OBVIOUS
<1> HIDE DEF f
<1>3. g[0] = 0 /\ \A n \in 1..Len(s) : g[n] = g[n - 1] + s[n].size
  BY <1>1, <1>2
<1> DEFINE S == {n \in Nat : n <= Len(s) => g[n] \in Nat}
<1>4. 0 \in S
  BY <1>3
<1>5. ASSUME NEW n \in S PROVE n + 1 \in S
  <2> SUFFICES ASSUME n + 1 <= Len(s) PROVE g[n + 1] \in Nat
    OBVIOUS
  <2>1. n + 1 \in 1..Len(s) /\ (n + 1) - 1 = n /\ n <= Len(s) /\ n \in Nat
    OBVIOUS
  <2>2. g[n] \in Nat
    BY <2>1
  <2> QED
    BY <1>3, <2>1, <2>2
<1>6. S = Nat
  <2>1. S \in SUBSET Nat
    OBVIOUS
  <2> HIDE DEF S
  <2> QED
    BY <1>4, <1>5, <2>1, NatSetInduction
<1>7. \A n \in 0..Len(s) : g[n] \in Nat
  BY <1>6
<1>8. ASSUME NEW n \in 1..Len(s) PROVE g[n] = SizeSteps(s)[n][g[n - 1]]
  <2>1. n - 1 \in 0..Len(s)
    OBVIOUS
  <2>2. g[n - 1] \in Nat
    BY <1>7, <2>1
  <2>3. SizeSteps(s)[n] = [x \in Nat |-> x + s[n].size]
    BY DEF SizeSteps
  <2>4. SizeSteps(s)[n][g[n - 1]] = g[n - 1] + s[n].size
    BY <2>2, <2>3
  <2> QED
    BY <1>3, <2>4
<1> QED
  BY <1>3, <1>7, <1>8 DEF Steps

\* What Bytes is: the last value of the recursion.
LEMMA BytesAre ==
    ASSUME NEW s, Len(s) \in Nat, \A n \in 1..Len(s) : s[n].size \in Nat
    PROVE  \E g : /\ g[0] = 0 /\ \A n \in 0..Len(s) : g[n] \in Nat
                  /\ Steps(SizeSteps(s), g, Len(s)) /\ Bytes(s) = g[Len(s)]
<1>1. SizeSteps(s) \in [1..Len(s) -> [Nat -> Nat]]
  BY DEF SizeSteps
<1>2. \E h \in [0..Len(s) -> Nat] : h[0] = 0 /\ Steps(SizeSteps(s), h, Len(s))
  <2>1. 0 \in Nat
    OBVIOUS
  <2> QED
    BY <1>1, <2>1, RecursionExists
<1>3. PICK h \in [0..Len(s) -> Nat] : h[0] = 0 /\ Steps(SizeSteps(s), h, Len(s))
  BY <1>2
<1> DEFINE f == [n \in 0..Len(s) |-> IF n = 0 THEN 0 ELSE h[n - 1] + s[n].size]
<1>4. ASSUME NEW n \in 0..Len(s) PROVE f[n] = h[n]
  <2>1. CASE n = 0
    BY <1>3, <2>1
  <2>2. CASE n # 0
    <3>1. n \in 1..Len(s) /\ n - 1 \in 0..Len(s)
      BY <2>2
    <3>2. h[n - 1] \in Nat
      BY <3>1
    <3>3. f[n] = h[n - 1] + s[n].size
      BY <2>2
    <3> HIDE DEF f
    <3>4. SizeSteps(s)[n] = [x \in Nat |-> x + s[n].size]
      BY <3>1 DEF SizeSteps
    <3>5. SizeSteps(s)[n][h[n - 1]] = h[n - 1] + s[n].size
      BY <3>2, <3>4
    <3> QED
      BY <1>3, <3>1, <3>3, <3>5 DEF Steps
  <2> QED
    BY <2>1, <2>2
<1>5. f = [n \in 0..Len(s) |-> f[n]] /\ h = [n \in 0..Len(s) |-> h[n]]
  OBVIOUS
<1>6. SizeRecurs(s, h)
  <2> HIDE DEF f
  <2>1. h = f
    BY <1>4, <1>5
  <2> QED
    BY <2>1 DEF SizeRecurs, f
<1> DEFINE g == CHOOSE k : SizeRecurs(s, k)
<1>7. SizeRecurs(s, g)
  <2> HIDE DEF f
  <2> QED BY <1>6
<1>8. Bytes(s) = g[Len(s)]
  BY Zenon DEF Bytes, SizeRecurs
<1> HIDE DEF g, f
<1>9. g[0] = 0 /\ (\A n \in 0..Len(s) : g[n] \in Nat) /\ Steps(SizeSteps(s), g, Len(s))
  BY <1>7, SizeRecursSteps
<1> QED
  BY <1>8, <1>9

\* Messages of a queue have sizes.
Sized(X) == \A x \in X : x.size \in Nat

\* The sizes of a longer sequence.
LEMMA BytesGrow ==
    ASSUME NEW X, Sized(X), NEW s \in Seq(X), NEW y \in X
    PROVE  Bytes(s) \in Nat /\ Bytes(Append(s, y)) = Bytes(s) + y.size
<1> DEFINE t == Append(s, y)
<1>1. t \in Seq(X) /\ Len(t) = Len(s) + 1 /\ Len(s) \in Nat /\ t[Len(s) + 1] = y /\ \A n \in 1..Len(s) : t[n] = s[n]
  BY AppendProperties
<1>2. \A n \in 1..Len(s) : s[n].size \in Nat
  BY ElementOfSeq DEF Sized
<1>3. Len(t) \in Nat /\ \A n \in 1..Len(t) : t[n].size \in Nat
  BY <1>1, ElementOfSeq DEF Sized
<1> HIDE DEF t
<1>4. PICK g : /\ g[0] = 0 /\ \A n \in 0..Len(s) : g[n] \in Nat
               /\ Steps(SizeSteps(s), g, Len(s)) /\ Bytes(s) = g[Len(s)]
  BY <1>1, <1>2, BytesAre
<1>5. PICK h : /\ h[0] = 0 /\ \A n \in 0..Len(t) : h[n] \in Nat
               /\ Steps(SizeSteps(t), h, Len(t)) /\ Bytes(t) = h[Len(t)]
  BY <1>3, BytesAre
<1>6. \A n \in 1..Len(s) : SizeSteps(s)[n] = SizeSteps(t)[n]
  <2> SUFFICES ASSUME NEW n \in 1..Len(s) PROVE SizeSteps(s)[n] = SizeSteps(t)[n]
    OBVIOUS
  <2>1. n \in 1..Len(t) /\ t[n] = s[n]
    BY <1>1
  <2> QED
    BY <2>1 DEF SizeSteps
<1>7. Steps(SizeSteps(t), h, Len(s))
  <2>1. \A n \in 1..Len(s) : n \in 1..Len(t)
    BY <1>1
  <2> QED
    BY <1>5, <2>1 DEF Steps
<1>8. g[Len(s)] = h[Len(s)]
  <2>1. g[0] = h[0] /\ Steps(SizeSteps(s), g, Len(s)) /\ Len(s) \in Nat
    BY <1>1, <1>4, <1>5
  <2>2. \A n \in 0..Len(s) : g[n] = h[n]
    BY <1>6, <1>7, <2>1, RecursionAgrees
  <2> QED
    BY <1>1, <2>2
<1>9. h[Len(t)] = h[Len(s)] + y.size
  <2>1. Len(t) \in 1..Len(t) /\ Len(t) - 1 = Len(s) /\ Len(s) \in 0..Len(t)
    BY <1>1
  <2>2. h[Len(t)] = SizeSteps(t)[Len(t)][h[Len(s)]]
    BY <1>5, <2>1 DEF Steps
  <2>3. SizeSteps(t)[Len(t)] = [x \in Nat |-> x + t[Len(t)].size]
    BY <2>1 DEF SizeSteps
  <2>4. h[Len(s)] \in Nat
    BY <1>5, <2>1
  <2> QED
    BY <1>1, <2>2, <2>3, <2>4
<1>10. Bytes(s) \in Nat
  <2>1. Len(s) \in 0..Len(s)
    BY <1>1
  <2> QED
    BY <1>4, <2>1
<1> QED
  BY <1>4, <1>5, <1>8, <1>9, <1>10 DEF t

\* An empty sequence has no bytes.
LEMMA BytesNothing == Bytes(<<>>) = 0
<1>1. PICK s : s = <<>>
  OBVIOUS
<1>2. Len(s) = 0
  BY <1>1
<1>3. Len(s) \in Nat /\ \A n \in 1..Len(s) : s[n].size \in Nat
  BY <1>2
<1>4. Bytes(s) = 0
  BY <1>2, <1>3, BytesAre
<1> QED
  BY <1>1, <1>4

\* Induction on sequences, for a set.
LEMMA SeqSetInduction ==
    ASSUME NEW X, NEW T \in SUBSET Seq(X), <<>> \in T, \A s \in T : \A y \in X : Append(s, y) \in T
    PROVE  T = Seq(X)
<1> DEFINE S == {n \in Nat : \A s \in Seq(X) : Len(s) = n => s \in T}
<1>1. 0 \in S
  <2> SUFFICES ASSUME NEW s \in Seq(X), Len(s) = 0 PROVE s \in T
    OBVIOUS
  <2>1. s = <<>>
    BY EmptySeq
  <2> QED
    BY <2>1
<1>2. ASSUME NEW n \in S PROVE n + 1 \in S
  <2> SUFFICES ASSUME NEW s \in Seq(X), Len(s) = n + 1 PROVE s \in T
    OBVIOUS
  <2>1. n \in Nat /\ \A r \in Seq(X) : Len(r) = n => r \in T
    OBVIOUS
  <2> HIDE DEF S
  <2>2. s # <<>>
    <3>1. Len(s) # 0
      BY <2>1
    <3> QED
      BY <3>1, EmptySeq
  <2>3. PICK f \in Seq(X), l \in X : s = Append(f, l)
    BY <2>2, SequenceEmptyOrAppend
  <2>4. Len(s) = Len(f) + 1 /\ Len(f) \in Nat
    BY <2>3, AppendProperties
  <2>5. Len(f) = n
    BY <2>1, <2>4
  <2>6. f \in T
    BY <2>1, <2>3, <2>5
  <2> QED
    BY <2>3, <2>6
<1>3. S = Nat
  <2>1. S \in SUBSET Nat
    OBVIOUS
  <2> HIDE DEF S
  <2> QED
    BY <1>1, <1>2, <2>1, NatSetInduction
<1>4. ASSUME NEW s \in Seq(X) PROVE s \in T
  <2>1. Len(s) \in Nat
    OBVIOUS
  <2> QED
    BY <1>3, <2>1
<1> QED
  BY <1>4

\* A sequence as it was appended to.
LEMMA Grown ==
    ASSUME NEW X, NEW s \in Seq(X), NEW y \in X
    PROVE  /\ Append(s, y) \in Seq(X) /\ Len(Append(s, y)) = Len(s) + 1 /\ Len(s) \in Nat
           /\ Append(s, y)[Len(s) + 1] = y /\ \A i \in 1..Len(s) : Append(s, y)[i] = s[i]
  BY AppendProperties

\* Only the positions of the sequence matter.
LEMMA EntriesSame ==
    ASSUME NEW X, NEW s \in Seq(X), NEW K, NEW J, \A n \in 1..Len(s) : n \in K <=> n \in J
    PROVE  Entries(s, K) = Entries(s, J)
<1> DEFINE T == {r \in Seq(X) : (\A n \in 1..Len(r) : n \in K <=> n \in J) => Entries(r, K) = Entries(r, J)}
<1>1. T \in SUBSET Seq(X)
  OBVIOUS
<1>2. <<>> \in T
  BY EntriesNothing
<1>3. ASSUME NEW r \in T, NEW y \in X PROVE Append(r, y) \in T
  <2>1. r \in Seq(X) /\ ((\A n \in 1..Len(r) : n \in K <=> n \in J) => Entries(r, K) = Entries(r, J))
    OBVIOUS
  <2>2. Append(r, y) \in Seq(X) /\ Len(Append(r, y)) = Len(r) + 1 /\ Len(r) \in Nat
    BY <2>1, Grown
  <2>3. ASSUME \A n \in 1..Len(Append(r, y)) : n \in K <=> n \in J PROVE Entries(Append(r, y), K) = Entries(Append(r, y), J)
    <3>1. (\A n \in 1..Len(r) : n \in K <=> n \in J) /\ (Len(r) + 1 \in K <=> Len(r) + 1 \in J)
      <4>1. \A n \in 1..Len(r) : n \in 1..Len(Append(r, y))
        BY <2>2
      <4>2. Len(r) + 1 \in 1..Len(Append(r, y))
        BY <2>2
      <4> QED
        BY <2>3, <4>1, <4>2
    <3>2. Entries(r, K) = Entries(r, J)
      BY <2>1, <3>1
    <3>3. Entries(Append(r, y), K) = IF Len(r) + 1 \in K THEN Append(Entries(r, K), y) ELSE Entries(r, K)
      BY <2>1, EntriesGrow
    <3>4. Entries(Append(r, y), J) = IF Len(r) + 1 \in J THEN Append(Entries(r, J), y) ELSE Entries(r, J)
      BY <2>1, EntriesGrow
    <3> QED
      BY <3>1, <3>2, <3>3, <3>4
  <2> QED
    BY <2>2, <2>3
<1>4. T = Seq(X)
  <2> HIDE DEF T
  <2> QED
    BY <1>1, <1>2, <1>3, SeqSetInduction
<1>5. s \in T
  BY <1>4
<1> QED
  BY <1>5

\* What is kept of a sequence is among what stands at the positions.
LEMMA EntriesAmong ==
    ASSUME NEW X, NEW s \in Seq(X), NEW K, NEW Y, \A n \in 1..Len(s) : n \in K => s[n] \in Y
    PROVE  Entries(s, K) \in Seq(Y)
<1> DEFINE T == {r \in Seq(X) : (\A n \in 1..Len(r) : n \in K => r[n] \in Y) => Entries(r, K) \in Seq(Y)}
<1>1. T \in SUBSET Seq(X)
  OBVIOUS
<1>2. <<>> \in T
  <2>1. <<>> \in Seq(X) /\ <<>> \in Seq(Y)
    OBVIOUS
  <2>2. Entries(<<>>, K) = <<>>
    BY EntriesNothing
  <2>3. Entries(<<>>, K) \in Seq(Y)
    BY <2>1, <2>2, Zenon
  <2> QED
    BY <2>1, <2>3
<1>3. ASSUME NEW r \in T, NEW y \in X PROVE Append(r, y) \in T
  <2>1. r \in Seq(X) /\ ((\A n \in 1..Len(r) : n \in K => r[n] \in Y) => Entries(r, K) \in Seq(Y))
    OBVIOUS
  <2>2. PICK q : q = Append(r, y)
    OBVIOUS
  <2>3. q \in Seq(X) /\ Len(q) = Len(r) + 1 /\ Len(r) \in Nat /\ q[Len(r) + 1] = y /\ \A i \in 1..Len(r) : q[i] = r[i]
    BY <2>1, <2>2, Grown
  <2>4. ASSUME \A n \in 1..Len(q) : n \in K => q[n] \in Y PROVE Entries(q, K) \in Seq(Y)
    <3>1. (\A n \in 1..Len(r) : n \in K => r[n] \in Y) /\ (Len(r) + 1 \in K => y \in Y)
      <4>1. \A n \in 1..Len(r) : n \in 1..Len(q)
        BY <2>3
      <4>2. Len(r) + 1 \in 1..Len(q)
        BY <2>3
      <4> QED
        BY <2>3, <2>4, <4>1, <4>2
    <3>2. Entries(r, K) \in Seq(Y)
      BY <2>1, <3>1
    <3>3. Entries(q, K) = IF Len(r) + 1 \in K THEN Append(Entries(r, K), y) ELSE Entries(r, K)
      BY <2>1, <2>2, EntriesGrow
    <3>4. y \in Y => Append(Entries(r, K), y) \in Seq(Y)
      BY <3>2, AppendProperties
    <3> QED
      BY <3>1, <3>2, <3>3, <3>4
  <2> QED
    BY <2>2, <2>3, <2>4
<1>4. T = Seq(X)
  <2> HIDE DEF T
  <2> QED
    BY <1>1, <1>2, <1>3, SeqSetInduction
<1>5. s \in T
  BY <1>4
<1> QED
  BY <1>5

\* Business of a longer queue.
LEMMA BusinessGrows ==
    ASSUME NEW X, NEW s \in Seq(X), NEW y \in X
    PROVE  /\ Business(s) \in Seq(X)
           /\ Business(Append(s, y)) = IF Lifecycle(y) THEN Business(s) ELSE Append(Business(s), y)
<1> DEFINE K == {i \in DOMAIN s : ~Lifecycle(s[i])}
           J == {i \in DOMAIN Append(s, y) : ~Lifecycle(Append(s, y)[i])}
<1>1. /\ Append(s, y) \in Seq(X) /\ Len(Append(s, y)) = Len(s) + 1 /\ Len(s) \in Nat
      /\ Append(s, y)[Len(s) + 1] = y /\ \A i \in 1..Len(s) : Append(s, y)[i] = s[i]
  BY Grown
<1>2. DOMAIN s = 1..Len(s) /\ DOMAIN Append(s, y) = 1..(Len(s) + 1)
  BY <1>1
<1>3. \A n \in 1..Len(s) : n \in J <=> n \in K
  BY <1>1, <1>2
<1>4. Len(s) + 1 \in J <=> ~Lifecycle(y)
  BY <1>1, <1>2
<1>5. Business(s) = Entries(s, K) /\ Business(Append(s, y)) = Entries(Append(s, y), J)
  BY DEF Business
<1> HIDE DEF J, K
<1>6. Entries(Append(s, y), J) = IF Len(s) + 1 \in J THEN Append(Entries(s, J), y) ELSE Entries(s, J)
  BY EntriesGrow
<1>7. Entries(s, J) = Entries(s, K)
  BY <1>3, EntriesSame
<1>8. Entries(s, K) \in Seq(X)
  BY EntriesType
<1> QED
  BY <1>4, <1>5, <1>6, <1>7, <1>8

\* An empty queue has no business.
LEMMA BusinessNothing == Business(<<>>) = <<>>
  BY EntriesNothing DEF Business

\* The business of a queue: how much, and of what size.
Load(s) == Len(Business(s))
Weight(s) == Bytes(Business(s))

\* One message more, and how much business the queue then has.
LEMMA LoadGrows ==
    ASSUME NEW X, Sized(X), NEW s \in Seq(X), NEW y \in X
    PROVE  /\ Load(s) \in Nat /\ Weight(s) \in Nat
           /\ Load(Append(s, y)) = IF Lifecycle(y) THEN Load(s) ELSE Load(s) + 1
           /\ Weight(Append(s, y)) = IF Lifecycle(y) THEN Weight(s) ELSE Weight(s) + y.size
<1>1. PICK b : b = Business(s)
  OBVIOUS
<1>2. b \in Seq(X) /\ Business(Append(s, y)) = IF Lifecycle(y) THEN b ELSE Append(b, y)
  BY <1>1, BusinessGrows
<1>3. Bytes(b) \in Nat /\ Bytes(Append(b, y)) = Bytes(b) + y.size
  BY <1>2, BytesGrow
<1>4. Len(b) \in Nat /\ Len(Append(b, y)) = Len(b) + 1
  BY <1>2, Grown
<1> QED
  BY <1>1, <1>2, <1>3, <1>4 DEF Load, Weight

\* An empty queue has no load.
LEMMA LoadNothing == Load(<<>>) = 0 /\ Weight(<<>>) = 0
<1>1. Len(<<>>) = 0
  OBVIOUS
<1> QED
  BY <1>1, BusinessNothing, BytesNothing DEF Load, Weight

\* Where nothing but business is taken out of a queue, what is taken out and what stays make up the queue.
Parts(s, J, G) == \A n \in 1..Len(s) : (n \in J <=> n \notin G) /\ (n \in G => ~Lifecycle(s[n]))

\* Positions split of a longer queue are split of the shorter one.
LEMMA PartsGrow ==
    ASSUME NEW X, NEW s \in Seq(X), NEW y \in X, NEW J, NEW G, Parts(Append(s, y), J, G)
    PROVE  /\ Parts(s, J, G)
           /\ Len(s) + 1 \in J <=> Len(s) + 1 \notin G
           /\ Len(s) + 1 \in G => ~Lifecycle(y)
<1>1. PICK q : q = Append(s, y)
  OBVIOUS
<1>2. Len(q) = Len(s) + 1 /\ Len(s) \in Nat /\ q[Len(s) + 1] = y /\ \A i \in 1..Len(s) : q[i] = s[i]
  BY <1>1, Grown
<1>3. Parts(q, J, G)
  BY <1>1
<1>4. Len(s) + 1 \in 1..Len(q) /\ \A i \in 1..Len(s) : i \in 1..Len(q)
  BY <1>2
<1>5. /\ Len(s) + 1 \in J <=> Len(s) + 1 \notin G
      /\ Len(s) + 1 \in G => ~Lifecycle(y)
  BY <1>2, <1>3, <1>4 DEF Parts
<1>6. ASSUME NEW i \in 1..Len(s) PROVE (i \in J <=> i \notin G) /\ (i \in G => ~Lifecycle(s[i]))
  <2>1. i \in 1..Len(q) /\ q[i] = s[i]
    BY <1>2, <1>4
  <2> QED
    BY <1>3, <2>1 DEF Parts
<1> QED
  BY <1>5, <1>6 DEF Parts

Balanced(s, J, G) ==
    /\ Load(s) = Load(Entries(s, J)) + Len(Entries(s, G))
    /\ Weight(s) = Weight(Entries(s, J)) + Bytes(Entries(s, G))
    /\ Len(s) = Len(Entries(s, J)) + Len(Entries(s, G))

\* Business taken out of a queue (RemoveBusiness): what stays and what is gone add up.
LEMMA TakenOut ==
    ASSUME NEW X, Sized(X), NEW s \in Seq(X), NEW J, NEW G, Parts(s, J, G)
    PROVE  Balanced(s, J, G)
<1> DEFINE T == {r \in Seq(X) : Parts(r, J, G) => Balanced(r, J, G)}
<1>1. T \in SUBSET Seq(X)
  OBVIOUS
<1>2. <<>> \in T
  <2>1. <<>> \in Seq(X) /\ Len(<<>>) = 0
    OBVIOUS
  <2>2. Entries(<<>>, J) = <<>> /\ Entries(<<>>, G) = <<>>
    BY EntriesNothing
  <2>3. Load(<<>>) = 0 /\ Weight(<<>>) = 0 /\ Bytes(<<>>) = 0
    BY LoadNothing, BytesNothing
  <2>4. Balanced(<<>>, J, G)
    BY <2>1, <2>2, <2>3 DEF Balanced
  <2> QED
    BY <2>1, <2>4
<1>3. ASSUME NEW r \in T, NEW y \in X PROVE Append(r, y) \in T
  <2>1. r \in Seq(X) /\ (Parts(r, J, G) => Balanced(r, J, G))
    OBVIOUS
  <2>2. PICK q : q = Append(r, y)
    OBVIOUS
  <2>3. q \in Seq(X) /\ Len(q) = Len(r) + 1 /\ Len(r) \in Nat
    BY <2>1, <2>2, Grown
  <2>4. ASSUME Parts(q, J, G) PROVE Balanced(q, J, G)
    <3>1. /\ Parts(r, J, G)
          /\ Len(r) + 1 \in J <=> Len(r) + 1 \notin G
          /\ Len(r) + 1 \in G => ~Lifecycle(y)
      BY <2>1, <2>2, <2>4, PartsGrow
    <3>2. Balanced(r, J, G)
      BY <2>1, <3>1
    <3>3. PICK ej, eg, qj, qg : ej = Entries(r, J) /\ eg = Entries(r, G) /\ qj = Entries(q, J) /\ qg = Entries(q, G)
      OBVIOUS
    <3>4. ej \in Seq(X) /\ eg \in Seq(X)
      BY <2>1, <3>3, EntriesType
    <3>5. /\ qj = IF Len(r) + 1 \in J THEN Append(ej, y) ELSE ej
          /\ qg = IF Len(r) + 1 \in G THEN Append(eg, y) ELSE eg
      BY <2>1, <2>2, <3>3, EntriesGrow
    <3>6. /\ Load(r) \in Nat /\ Weight(r) \in Nat
          /\ Load(q) = IF Lifecycle(y) THEN Load(r) ELSE Load(r) + 1
          /\ Weight(q) = IF Lifecycle(y) THEN Weight(r) ELSE Weight(r) + y.size
      BY <2>1, <2>2, LoadGrows
    <3>7. /\ Load(ej) \in Nat /\ Weight(ej) \in Nat
          /\ Load(Append(ej, y)) = IF Lifecycle(y) THEN Load(ej) ELSE Load(ej) + 1
          /\ Weight(Append(ej, y)) = IF Lifecycle(y) THEN Weight(ej) ELSE Weight(ej) + y.size
      BY <3>4, LoadGrows
    <3>8. Bytes(eg) \in Nat /\ Bytes(Append(eg, y)) = Bytes(eg) + y.size
      BY <3>4, BytesGrow
    <3>9. Len(Append(ej, y)) = Len(ej) + 1 /\ Len(Append(eg, y)) = Len(eg) + 1 /\ Len(ej) \in Nat /\ Len(eg) \in Nat
      BY <3>4, Grown
    <3>10. y.size \in Nat
      BY DEF Sized
    <3>11. /\ Load(r) = Load(ej) + Len(eg) /\ Weight(r) = Weight(ej) + Bytes(eg) /\ Len(r) = Len(ej) + Len(eg)
      BY <3>2, <3>3 DEF Balanced
    <3>12. CASE Len(r) + 1 \in G
      <4>1. qj = ej /\ qg = Append(eg, y) /\ ~Lifecycle(y)
        BY <3>1, <3>5, <3>12
      <4>2. Load(q) = Load(qj) + Len(qg)
        BY <3>6, <3>7, <3>9, <3>11, <4>1
      <4>3. Weight(q) = Weight(qj) + Bytes(qg)
        <5>1. Weight(q) = Weight(r) + y.size
          BY <3>6, <4>1
        <5>2. Weight(qj) = Weight(ej) /\ Bytes(qg) = Bytes(eg) + y.size
          BY <3>8, <4>1
        <5> QED
          BY <3>7, <3>8, <3>10, <3>11, <5>1, <5>2
      <4>4. Len(q) = Len(qj) + Len(qg)
        BY <2>3, <3>9, <3>11, <4>1
      <4> QED
        BY <3>3, <4>2, <4>3, <4>4 DEF Balanced
    <3>13. CASE Len(r) + 1 \notin G
      <4>1. qj = Append(ej, y) /\ qg = eg
        BY <3>1, <3>5, <3>13
      <4>2. Load(q) = Load(qj) + Len(qg)
        BY <3>6, <3>7, <3>9, <3>11, <4>1
      <4>3. Weight(q) = Weight(qj) + Bytes(qg)
        <5>1. Bytes(qg) = Bytes(eg)
          BY <4>1
        <5>2. CASE Lifecycle(y)
          <6>1. Weight(q) = Weight(r) /\ Weight(qj) = Weight(ej)
            BY <3>6, <3>7, <4>1, <5>2
          <6> QED
            BY <3>11, <5>1, <6>1
        <5>3. CASE ~Lifecycle(y)
          <6>1. Weight(q) = Weight(r) + y.size /\ Weight(qj) = Weight(ej) + y.size
            BY <3>6, <3>7, <4>1, <5>3
          <6> QED
            BY <3>7, <3>8, <3>10, <3>11, <5>1, <6>1
        <5> QED
          BY <5>2, <5>3
      <4>4. Len(q) = Len(qj) + Len(qg)
        BY <2>3, <3>9, <3>11, <4>1
      <4> QED
        BY <3>3, <4>2, <4>3, <4>4 DEF Balanced
    <3> QED
      BY <3>12, <3>13
  <2> QED
    BY <2>2, <2>3, <2>4
<1>4. T = Seq(X)
  <2> HIDE DEF T
  <2> QED
    BY <1>1, <1>2, <1>3, SeqSetInduction
<1>5. s \in T
  BY <1>4
<1> QED
  BY <1>5

\* The head of a queue and what follows it.
LEMMA LoadOfHead ==
    ASSUME NEW X, Sized(X), NEW s \in Seq(X), s # <<>>
    PROVE  /\ Load(Tail(s)) \in Nat /\ Weight(Tail(s)) \in Nat
           /\ Load(s) = IF Lifecycle(Head(s)) THEN Load(Tail(s)) ELSE Load(Tail(s)) + 1
           /\ Weight(s) = IF Lifecycle(Head(s)) THEN Weight(Tail(s)) ELSE Weight(Tail(s)) + Head(s).size
<1> DEFINE P(r) == /\ Load(Tail(r)) \in Nat /\ Weight(Tail(r)) \in Nat
                   /\ Load(r) = IF Lifecycle(Head(r)) THEN Load(Tail(r)) ELSE Load(Tail(r)) + 1
                   /\ Weight(r) = IF Lifecycle(Head(r)) THEN Weight(Tail(r)) ELSE Weight(Tail(r)) + Head(r).size
           T == {r \in Seq(X) : r # <<>> => P(r)}
<1>1. T \in SUBSET Seq(X)
  OBVIOUS
<1>2. <<>> \in T
  <2>1. <<>> \in Seq(X)
    OBVIOUS
  <2> HIDE DEF P
  <2> QED
    BY <2>1
<1>3. ASSUME NEW r \in T, NEW y \in X PROVE Append(r, y) \in T
  <2>1. r \in Seq(X) /\ (r # <<>> => P(r))
    OBVIOUS
  <2>2. PICK q : q = Append(r, y)
    OBVIOUS
  <2>3. q \in Seq(X)
    BY <2>1, <2>2, Grown
  <2>4. /\ Head(q) = IF r = <<>> THEN y ELSE Head(r)
        /\ Tail(q) = IF r = <<>> THEN <<>> ELSE Append(Tail(r), y)
    BY <2>1, <2>2, HeadTailAppend
  <2>5. y.size \in Nat
    BY DEF Sized
  <2>6. /\ Load(q) = IF Lifecycle(y) THEN Load(r) ELSE Load(r) + 1
        /\ Weight(q) = IF Lifecycle(y) THEN Weight(r) ELSE Weight(r) + y.size
    BY <2>1, <2>2, LoadGrows
  <2>7. P(q)
    <3>1. CASE r = <<>>
      <4>1. Load(r) = 0 /\ Weight(r) = 0
        BY <3>1, LoadNothing
      <4>2. Load(Tail(q)) = 0 /\ Weight(Tail(q)) = 0 /\ Head(q) = y
        BY <2>4, <3>1, LoadNothing
      <4> QED
        BY <2>5, <2>6, <4>1, <4>2
    <3>2. CASE r # <<>>
      <4>1. PICK h, t : h = Head(r) /\ t = Tail(r)
        OBVIOUS
      <4>2. t \in Seq(X) /\ h \in X
        BY <2>1, <3>2, <4>1, HeadTailProperties
      <4>3. Head(q) = h /\ Tail(q) = Append(t, y)
        BY <2>4, <3>2, <4>1
      <4>4. /\ Load(t) \in Nat /\ Weight(t) \in Nat
            /\ Load(Append(t, y)) = IF Lifecycle(y) THEN Load(t) ELSE Load(t) + 1
            /\ Weight(Append(t, y)) = IF Lifecycle(y) THEN Weight(t) ELSE Weight(t) + y.size
        BY <4>2, LoadGrows
      <4>5. /\ Load(r) = IF Lifecycle(h) THEN Load(t) ELSE Load(t) + 1
            /\ Weight(r) = IF Lifecycle(h) THEN Weight(t) ELSE Weight(t) + h.size
        BY <2>1, <3>2, <4>1
      <4>6. h.size \in Nat
        BY <4>2 DEF Sized
      <4>7. PICK u : u = Append(t, y)
        OBVIOUS
      <4>8. Load(u) \in Nat /\ Weight(u) \in Nat
        BY <2>5, <4>4, <4>7
      <4>9. Load(q) = IF Lifecycle(h) THEN Load(u) ELSE Load(u) + 1
        BY <2>6, <4>4, <4>5, <4>7
      <4>10. Weight(q) = IF Lifecycle(h) THEN Weight(u) ELSE Weight(u) + h.size
        BY <2>5, <2>6, <4>4, <4>5, <4>6, <4>7
      <4> QED
        BY <4>3, <4>7, <4>8, <4>9, <4>10
    <3> QED
      BY <3>1, <3>2
  <2> HIDE DEF P
  <2> QED
    BY <2>2, <2>3, <2>7
<1>4. T = Seq(X)
  <2> HIDE DEF T
  <2> QED
    BY <1>1, <1>2, <1>3, SeqSetInduction
<1>5. s \in T
  BY <1>4
<1> QED
  BY <1>5

-----------------------------------------------------------------------------
(* What a worker has heard of a player.                                    *)

\* What is known of p, at first v, after the first k messages of s.
Heard(v, p, s, k) ==
    LET past == {i \in 1..k : Mine(p, s[i]) /\ Lifecycle(s[i])}
    IN IF past = {} THEN v ELSE Told(s[Max(past)])
After(v, p, s) == Heard(v, p, s, Len(s))

\* Knowledge never goes back, and business is of the binding that is known.
Rises(old, new) ==
    \/ new.data.epoch > old.data.epoch
    \/ new = old
    \/ old.online /\ new = [old EXCEPT !.online = FALSE]
Fits(v, m) ==
    IF Lifecycle(m) THEN Rises(v, Told(m)) ELSE v.online /\ v.data = m.data /\ v.session = m.session
Follows(v, p, s) == \A k \in 1..Len(s) : Mine(p, s[k]) => Fits(Heard(v, p, s, k - 1), s[k])

\* What m changes.
Hears(v, p, m) == IF Mine(p, m) /\ Lifecycle(m) THEN Told(m) ELSE v

\* After no message all is known that was known before.
LEMMA HeardNothing == \A v, p, s : Heard(v, p, s, 0) = v
<1> SUFFICES ASSUME NEW v, NEW p, NEW s PROVE Heard(v, p, s, 0) = v
  OBVIOUS
<1>1. {i \in 1..0 : Mine(p, s[i]) /\ Lifecycle(s[i])} = {}
  OBVIOUS
<1> QED
  BY <1>1 DEF Heard

\* What one message more tells.
LEMMA HeardMore ==
    ASSUME NEW v, NEW p, NEW s, NEW k \in Nat
    PROVE  Heard(v, p, s, k + 1) = Hears(Heard(v, p, s, k), p, s[k + 1])
<1> DEFINE Told1(i) == Mine(p, s[i]) /\ Lifecycle(s[i])
           A == {i \in 1..k : Told1(i)}
           B == {i \in 1..(k + 1) : Told1(i)}
<1>1. /\ Heard(v, p, s, k) = IF A = {} THEN v ELSE Told(s[Max(A)])
      /\ Heard(v, p, s, k + 1) = IF B = {} THEN v ELSE Told(s[Max(B)])
  BY DEF Heard
<1>2. Told1(k + 1) <=> Mine(p, s[k + 1]) /\ Lifecycle(s[k + 1])
  OBVIOUS
<1> HIDE DEF Told1
<1>3. CASE Told1(k + 1)
  <2>1. k + 1 \in B /\ \A j \in B : k + 1 >= j
    BY <1>3
  <2>2. \A x \in B : (\A j \in B : x >= j) => x = k + 1
    <3> SUFFICES ASSUME NEW x \in B, \A j \in B : x >= j PROVE x = k + 1
      OBVIOUS
    <3>1. x >= k + 1 /\ k + 1 >= x
      BY <2>1
    <3>2. x \in Int
      OBVIOUS
    <3> QED
      BY <3>1, <3>2
  <2> HIDE DEF B
  <2>3. Max(B) = k + 1
    BY <2>1, <2>2 DEF Max
  <2>4. B # {}
    BY <2>1
  <2> HIDE DEF A
  <2>5. Heard(v, p, s, k + 1) = Told(s[k + 1])
    BY <1>1, <2>3, <2>4
  <2> QED
    BY <1>2, <1>3, <2>5 DEF Hears
<1>4. CASE ~Told1(k + 1)
  <2>1. A = B
    BY <1>4
  <2> HIDE DEF A, B
  <2>2. Heard(v, p, s, k + 1) = Heard(v, p, s, k)
    BY <1>1, <2>1
  <2> QED
    BY <1>2, <1>4, <2>2 DEF Hears
<1> QED
  BY <1>3, <1>4

\* Only the first k messages count.
LEMMA HeardSame ==
    ASSUME NEW v, NEW p, NEW s, NEW t, NEW k \in Nat, \A i \in 1..k : s[i] = t[i]
    PROVE  Heard(v, p, s, k) = Heard(v, p, t, k)
<1> DEFINE S == {n \in Nat : n <= k => Heard(v, p, s, n) = Heard(v, p, t, n)}
<1>1. S \in SUBSET Nat
  OBVIOUS
<1>2. 0 \in S
  BY HeardNothing
<1>3. ASSUME NEW n \in S PROVE n + 1 \in S
  <2> SUFFICES ASSUME n + 1 <= k PROVE Heard(v, p, s, n + 1) = Heard(v, p, t, n + 1)
    OBVIOUS
  <2>1. n \in Nat /\ n + 1 \in 1..k /\ Heard(v, p, s, n) = Heard(v, p, t, n)
    OBVIOUS
  <2>2. s[n + 1] = t[n + 1]
    BY <2>1
  <2> HIDE DEF S
  <2>3. Heard(v, p, s, n + 1) = Hears(Heard(v, p, s, n), p, s[n + 1])
    BY <2>1, HeardMore
  <2>4. Heard(v, p, t, n + 1) = Hears(Heard(v, p, t, n), p, t[n + 1])
    BY <2>1, HeardMore
  <2> QED
    BY <2>1, <2>2, <2>3, <2>4
<1>4. S = Nat
  <2> HIDE DEF S
  <2> QED
    BY <1>1, <1>2, <1>3, NatSetInduction
<1> QED
  BY <1>4

\* An empty queue tells nothing and is in order.
LEMMA AfterNothing == \A v, p : After(v, p, <<>>) = v /\ Follows(v, p, <<>>)
<1> SUFFICES ASSUME NEW v, NEW p PROVE After(v, p, <<>>) = v /\ Follows(v, p, <<>>)
  OBVIOUS
<1>1. Len(<<>>) = 0
  OBVIOUS
<1>2. After(v, p, <<>>) = v
  BY <1>1, HeardNothing DEF After
<1>3. Follows(v, p, <<>>)
  <2>1. \A k \in 1..Len(<<>>) : FALSE
    BY <1>1
  <2> QED
    BY <2>1 DEF Follows
<1> QED
  BY <1>2, <1>3

\* One message more at the end.
LEMMA AfterMore ==
    ASSUME NEW X, NEW s \in Seq(X), NEW y \in X, NEW v, NEW p
    PROVE  /\ After(v, p, Append(s, y)) = Hears(After(v, p, s), p, y)
           /\ Follows(v, p, Append(s, y)) <=> Follows(v, p, s) /\ (Mine(p, y) => Fits(After(v, p, s), y))
<1>1. PICK q : q = Append(s, y)
  OBVIOUS
<1>2. q \in Seq(X) /\ Len(q) = Len(s) + 1 /\ Len(s) \in Nat /\ q[Len(s) + 1] = y /\ \A i \in 1..Len(s) : q[i] = s[i]
  BY <1>1, Grown
<1>3. ASSUME NEW k \in 0..Len(s) PROVE Heard(v, p, q, k) = Heard(v, p, s, k)
  <2>1. k \in Nat /\ \A i \in 1..k : q[i] = s[i]
    BY <1>2
  <2> QED
    BY <2>1, HeardSame
<1>4. Heard(v, p, q, Len(s)) = After(v, p, s)
  BY <1>2, <1>3 DEF After
<1>5. After(v, p, q) = Hears(After(v, p, s), p, y)
  <2>1. Heard(v, p, q, Len(s) + 1) = Hears(Heard(v, p, q, Len(s)), p, q[Len(s) + 1])
    BY <1>2, HeardMore
  <2> QED
    BY <1>2, <1>4, <2>1 DEF After
<1>6. ASSUME Follows(v, p, q) PROVE Follows(v, p, s) /\ (Mine(p, y) => Fits(After(v, p, s), y))
  <2>1. ASSUME NEW k \in 1..Len(s), Mine(p, s[k]) PROVE Fits(Heard(v, p, s, k - 1), s[k])
    <3>1. k \in 1..Len(q) /\ q[k] = s[k] /\ k - 1 \in 0..Len(s)
      BY <1>2
    <3>2. Fits(Heard(v, p, q, k - 1), q[k])
      BY <1>6, <2>1, <3>1 DEF Follows
    <3> QED
      BY <1>3, <3>1, <3>2
  <2>2. ASSUME Mine(p, y) PROVE Fits(After(v, p, s), y)
    <3>1. Len(s) + 1 \in 1..Len(q) /\ (Len(s) + 1) - 1 = Len(s)
      BY <1>2
    <3>2. Fits(Heard(v, p, q, (Len(s) + 1) - 1), q[Len(s) + 1])
      BY <1>2, <1>6, <2>2, <3>1 DEF Follows
    <3> QED
      BY <1>2, <1>4, <3>1, <3>2
  <2> QED
    BY <2>1, <2>2 DEF Follows
<1>7. ASSUME Follows(v, p, s), Mine(p, y) => Fits(After(v, p, s), y) PROVE Follows(v, p, q)
  <2> SUFFICES ASSUME NEW k \in 1..Len(q), Mine(p, q[k]) PROVE Fits(Heard(v, p, q, k - 1), q[k])
    BY DEF Follows
  <2>1. CASE k = Len(s) + 1
    <3>1. k - 1 = Len(s) /\ q[k] = y
      BY <1>2, <2>1
    <3> QED
      BY <1>4, <1>7, <3>1
  <2>2. CASE k # Len(s) + 1
    <3>1. k \in 1..Len(s) /\ k - 1 \in 0..Len(s)
      BY <1>2, <2>2
    <3>2. q[k] = s[k]
      BY <1>2, <3>1
    <3>3. Fits(Heard(v, p, s, k - 1), s[k])
      BY <1>7, <3>1, <3>2 DEF Follows
    <3> QED
      BY <1>3, <3>1, <3>2, <3>3
  <2> QED
    BY <2>1, <2>2
<1> QED
  BY <1>1, <1>5, <1>6, <1>7

\* The head of a queue, then what follows it.
LEMMA AfterHead ==
    ASSUME NEW X, NEW s \in Seq(X), s # <<>>, NEW v, NEW p
    PROVE  /\ After(v, p, s) = After(Hears(v, p, Head(s)), p, Tail(s))
           /\ Follows(v, p, s) <=> (Mine(p, Head(s)) => Fits(v, Head(s))) /\ Follows(Hears(v, p, Head(s)), p, Tail(s))
<1> DEFINE P(r) == /\ After(v, p, r) = After(Hears(v, p, Head(r)), p, Tail(r))
                   /\ Follows(v, p, r) <=> (Mine(p, Head(r)) => Fits(v, Head(r))) /\ Follows(Hears(v, p, Head(r)), p, Tail(r))
           T == {r \in Seq(X) : r # <<>> => P(r)}
<1>1. T \in SUBSET Seq(X)
  OBVIOUS
<1>2. <<>> \in T
  <2>1. <<>> \in Seq(X)
    OBVIOUS
  <2> HIDE DEF P
  <2> QED
    BY <2>1
<1>3. ASSUME NEW r \in T, NEW y \in X PROVE Append(r, y) \in T
  <2>1. r \in Seq(X) /\ (r # <<>> => P(r))
    OBVIOUS
  <2>2. PICK q : q = Append(r, y)
    OBVIOUS
  <2>3. q \in Seq(X)
    BY <2>1, <2>2, Grown
  <2>4. /\ Head(q) = IF r = <<>> THEN y ELSE Head(r)
        /\ Tail(q) = IF r = <<>> THEN <<>> ELSE Append(Tail(r), y)
    BY <2>1, <2>2, HeadTailAppend
  <2>5. /\ After(v, p, q) = Hears(After(v, p, r), p, y)
        /\ Follows(v, p, q) <=> Follows(v, p, r) /\ (Mine(p, y) => Fits(After(v, p, r), y))
    BY <2>1, <2>2, AfterMore
  <2>6. P(q)
    <3>1. CASE r = <<>>
      <4>1. After(v, p, r) = v /\ Follows(v, p, r)
        BY <3>1, AfterNothing
      <4>2. Head(q) = y /\ Tail(q) = <<>>
        BY <2>4, <3>1
      <4>3. After(Hears(v, p, y), p, <<>>) = Hears(v, p, y) /\ Follows(Hears(v, p, y), p, <<>>)
        BY AfterNothing
      <4> QED
        BY <2>5, <4>1, <4>2, <4>3
    <3>2. CASE r # <<>>
      <4>1. PICK h, t, u : h = Head(r) /\ t = Tail(r) /\ u = Hears(v, p, Head(r))
        OBVIOUS
      <4>2. t \in Seq(X) /\ h \in X
        BY <2>1, <3>2, <4>1, HeadTailProperties
      <4>3. Head(q) = h /\ Tail(q) = Append(t, y)
        BY <2>4, <3>2, <4>1
      <4>4. /\ After(u, p, Append(t, y)) = Hears(After(u, p, t), p, y)
            /\ Follows(u, p, Append(t, y)) <=> Follows(u, p, t) /\ (Mine(p, y) => Fits(After(u, p, t), y))
        BY <4>2, AfterMore
      <4>5. /\ After(v, p, r) = After(u, p, t)
            /\ Follows(v, p, r) <=> (Mine(p, h) => Fits(v, h)) /\ Follows(u, p, t)
        BY <2>1, <3>2, <4>1
      <4> QED
        BY <2>5, <4>1, <4>3, <4>4, <4>5
    <3> QED
      BY <3>1, <3>2
  <2> HIDE DEF P
  <2> QED
    BY <2>2, <2>3, <2>6
<1>4. T = Seq(X)
  <2> HIDE DEF T
  <2> QED
    BY <1>1, <1>2, <1>3, SeqSetInduction
<1>5. s \in T
  BY <1>4
<1> QED
  BY <1>5

\* Business taken out of a queue changes nothing of what the rest says.
LEMMA AfterRemoval ==
    ASSUME NEW X, NEW s \in Seq(X), NEW J, NEW G, Parts(s, J, G), NEW v, NEW p
    PROVE  After(v, p, Entries(s, J)) = After(v, p, s) /\ (Follows(v, p, s) => Follows(v, p, Entries(s, J)))
<1> DEFINE P(r) == After(v, p, Entries(r, J)) = After(v, p, r) /\ (Follows(v, p, r) => Follows(v, p, Entries(r, J)))
           T == {r \in Seq(X) : Parts(r, J, G) => P(r)}
<1>1. T \in SUBSET Seq(X)
  OBVIOUS
<1>2. <<>> \in T
  <2>1. <<>> \in Seq(X)
    OBVIOUS
  <2>2. Entries(<<>>, J) = <<>>
    BY EntriesNothing
  <2>3. P(<<>>)
    BY <2>2
  <2> HIDE DEF P
  <2> QED
    BY <2>1, <2>3
<1>3. ASSUME NEW r \in T, NEW y \in X PROVE Append(r, y) \in T
  <2>1. r \in Seq(X) /\ (Parts(r, J, G) => P(r))
    OBVIOUS
  <2>2. PICK q : q = Append(r, y)
    OBVIOUS
  <2>3. q \in Seq(X)
    BY <2>1, <2>2, Grown
  <2>4. ASSUME Parts(q, J, G) PROVE P(q)
    <3>1. /\ Parts(r, J, G)
          /\ Len(r) + 1 \in J <=> Len(r) + 1 \notin G
          /\ Len(r) + 1 \in G => ~Lifecycle(y)
      BY <2>1, <2>2, <2>4, PartsGrow
    <3>2. PICK e, qe : e = Entries(r, J) /\ qe = Entries(q, J)
      OBVIOUS
    <3>3. e \in Seq(X)
      BY <2>1, <3>2, EntriesType
    <3>4. After(v, p, e) = After(v, p, r) /\ (Follows(v, p, r) => Follows(v, p, e))
      BY <2>1, <3>1, <3>2
    <3>5. qe = IF Len(r) + 1 \in J THEN Append(e, y) ELSE e
      BY <2>1, <2>2, <3>2, EntriesGrow
    <3>6. /\ After(v, p, q) = Hears(After(v, p, r), p, y)
          /\ Follows(v, p, q) <=> Follows(v, p, r) /\ (Mine(p, y) => Fits(After(v, p, r), y))
      BY <2>1, <2>2, AfterMore
    <3>7. /\ After(v, p, Append(e, y)) = Hears(After(v, p, e), p, y)
          /\ Follows(v, p, Append(e, y)) <=> Follows(v, p, e) /\ (Mine(p, y) => Fits(After(v, p, e), y))
      BY <3>3, AfterMore
    <3>8. CASE Len(r) + 1 \in G
      <4>1. qe = e /\ Hears(After(v, p, r), p, y) = After(v, p, r)
        BY <3>1, <3>5, <3>8 DEF Hears
      <4> QED
        BY <3>2, <3>4, <3>6, <4>1
    <3>9. CASE Len(r) + 1 \notin G
      <4>1. qe = Append(e, y)
        BY <3>1, <3>5, <3>9
      <4> QED
        BY <3>2, <3>4, <3>6, <3>7, <4>1
    <3> QED
      BY <3>8, <3>9
  <2> HIDE DEF P
  <2> QED
    BY <2>2, <2>3, <2>4
<1>4. T = Seq(X)
  <2> HIDE DEF T
  <2> QED
    BY <1>1, <1>2, <1>3, SeqSetInduction
<1>5. s \in T
  BY <1>4
<1> QED
  BY <1>5

\* One queue after another.
Cat(s, r) == s \o r

\* One queue after another tells what the second tells after the first.
LEMMA AfterBoth ==
    ASSUME NEW X, NEW s \in Seq(X), NEW r \in Seq(X), NEW v, NEW p
    PROVE  /\ After(v, p, Cat(s, r)) = After(After(v, p, s), p, r)
           /\ Follows(v, p, Cat(s, r)) <=> Follows(v, p, s) /\ Follows(After(v, p, s), p, r)
<1> DEFINE P(t) == /\ After(v, p, Cat(s, t)) = After(After(v, p, s), p, t)
                   /\ Follows(v, p, Cat(s, t)) <=> Follows(v, p, s) /\ Follows(After(v, p, s), p, t)
           T == {t \in Seq(X) : P(t)}
<1>1. T \in SUBSET Seq(X)
  OBVIOUS
<1>2. <<>> \in T
  <2>1. <<>> \in Seq(X)
    OBVIOUS
  <2>2. Cat(s, <<>>) = s
    BY ConcatEmptySeq DEF Cat
  <2>3. P(<<>>)
    BY <2>2, AfterNothing
  <2> HIDE DEF P
  <2> QED
    BY <2>1, <2>3
<1>3. ASSUME NEW t \in T, NEW y \in X PROVE Append(t, y) \in T
  <2>1. t \in Seq(X) /\ P(t)
    OBVIOUS
  <2>2. Append(t, y) \in Seq(X)
    BY <2>1, Grown
  <2>3. PICK c : c = Cat(s, t)
    OBVIOUS
  <2>4. c \in Seq(X)
    BY <2>1, <2>3, ConcatProperties DEF Cat
  <2>5. Cat(s, Append(t, y)) = Append(c, y)
    BY <2>1, <2>3 DEF Cat
  <2>6. /\ After(v, p, Append(c, y)) = Hears(After(v, p, c), p, y)
        /\ Follows(v, p, Append(c, y)) <=> Follows(v, p, c) /\ (Mine(p, y) => Fits(After(v, p, c), y))
    BY <2>4, AfterMore
  <2>7. PICK u : u = After(v, p, s)
    OBVIOUS
  <2>8. /\ After(u, p, Append(t, y)) = Hears(After(u, p, t), p, y)
        /\ Follows(u, p, Append(t, y)) <=> Follows(u, p, t) /\ (Mine(p, y) => Fits(After(u, p, t), y))
    BY <2>1, AfterMore
  <2>9. After(v, p, c) = After(u, p, t) /\ (Follows(v, p, c) <=> Follows(v, p, s) /\ Follows(u, p, t))
    BY <2>1, <2>3, <2>7
  <2>10. P(Append(t, y))
    BY <2>5, <2>6, <2>7, <2>8, <2>9
  <2> HIDE DEF P
  <2> QED
    BY <2>2, <2>10
<1>4. T = Seq(X)
  <2> HIDE DEF T
  <2> QED
    BY <1>1, <1>2, <1>3, SeqSetInduction
<1>5. r \in T
  BY <1>4
<1> QED
  BY <1>5

-----------------------------------------------------------------------------
(* Messages.                                                               *)

Received == Messages \cup {Other}

\* What a message of the queues is.
LEMMA MessageFacts ==
    ASSUME NEW m \in Messages
    PROVE  /\ m = Message(m.kind, m.data, m.session, m.size)
           /\ m.kind \in {"online", "offline", "business"}
           /\ m.data \in Bindings /\ m.data.player \in Players
           /\ m.session \in Sessions /\ m.size \in Nat
           /\ Lifecycle(m) <=> m.kind # "business"
<1>1. CASE m \in {Message(k, d, c, 0) : k \in {"online", "offline"}, d \in Bindings, c \in Sessions}
  <2>1. PICK k \in {"online", "offline"}, d \in Bindings, c \in Sessions : m = Message(k, d, c, 0)
    BY <1>1
  <2>2. d.player \in Players
    BY BindingsAssumption DEF ClientData
  <2> QED
    BY <2>1, <2>2 DEF Message, Lifecycle
<1>2. CASE m \in {Message("business", d, c, b) : d \in Bindings, c \in Sessions, b \in Sizes}
  <2>1. PICK d \in Bindings, c \in Sessions, b \in Sizes : m = Message("business", d, c, b)
    BY <1>2
  <2>2. d.player \in Players /\ b \in Nat
    BY BindingsAssumption, LimitsAssumption DEF ClientData
  <2> QED
    BY <2>1, <2>2 DEF Message, Lifecycle
<1> QED
  BY <1>1, <1>2 DEF Messages

\* A message made of its parts is one of the queues.
LEMMA MessageMade ==
    /\ \A d \in Bindings, c \in Sessions : Message("online", d, c, 0) \in Messages /\ Message("offline", d, c, 0) \in Messages
    /\ \A d \in Bindings, c \in Sessions, b \in Sizes : Message("business", d, c, b) \in Messages
<1>1. ASSUME NEW d \in Bindings, NEW c \in Sessions, NEW k \in {"online", "offline"}
      PROVE  Message(k, d, c, 0) \in {Message(l, e, f, 0) : l \in {"online", "offline"}, e \in Bindings, f \in Sessions}
  OBVIOUS
<1>2. ASSUME NEW d \in Bindings, NEW c \in Sessions, NEW b \in Sizes
      PROVE  Message("business", d, c, b) \in {Message("business", e, f, g) : e \in Bindings, f \in Sessions, g \in Sizes}
  OBVIOUS
<1> QED
  BY <1>1, <1>2 DEF Messages

\* What a message of no player is.
LEMMA OtherFacts == Other.kind = "other" /\ ~Lifecycle(Other) /\ Other.size \in Nat /\ \A p : ~Mine(p, Other)
  BY DEF Other, Message, Lifecycle, Mine

\* Messages have sizes.
LEMMA QueuesSized == Sized(Messages)
  BY MessageFacts DEF Sized

\* A message of a player is of no other.
LEMMA MineFacts ==
    ASSUME NEW m \in Messages, NEW p
    PROVE  Mine(p, m) <=> m.data.player = p
  BY MessageFacts DEF Mine

-----------------------------------------------------------------------------
(* A player's way to its worker: the queue a of sendToWorker, then the     *)
(* pending tasks b.                                                        *)

End(v, p, a, b) == After(After(v, p, a), p, b)
Order(v, p, a, b) == Follows(v, p, a) /\ Follows(After(v, p, a), p, b)

\* A message is appended to the pending tasks.
LEMMA PendingMore ==
    ASSUME NEW v, NEW p, NEW a, NEW b \in Seq(Messages), NEW m \in Messages
    PROVE  /\ End(v, p, a, Append(b, m)) = Hears(End(v, p, a, b), p, m)
           /\ Order(v, p, a, b) /\ (Mine(p, m) => Fits(End(v, p, a, b), m)) => Order(v, p, a, Append(b, m))
<1>1. PICK u : u = After(v, p, a)
  OBVIOUS
<1>2. /\ After(u, p, Append(b, m)) = Hears(After(u, p, b), p, m)
      /\ Follows(u, p, Append(b, m)) <=> Follows(u, p, b) /\ (Mine(p, m) => Fits(After(u, p, b), m))
  BY AfterMore
<1> QED
  BY <1>1, <1>2 DEF End, Order

\* A message is sent to a worker that has no pending tasks.
LEMMA InboxMore ==
    ASSUME NEW v, NEW p, NEW a \in Seq(Received), NEW b, b = <<>>, NEW m \in Received
    PROVE  /\ End(v, p, Append(a, m), b) = Hears(End(v, p, a, b), p, m)
           /\ Order(v, p, a, b) /\ (Mine(p, m) => Fits(End(v, p, a, b), m)) => Order(v, p, Append(a, m), b)
<1>1. /\ After(v, p, Append(a, m)) = Hears(After(v, p, a), p, m)
      /\ Follows(v, p, Append(a, m)) <=> Follows(v, p, a) /\ (Mine(p, m) => Fits(After(v, p, a), m))
  BY AfterMore
<1>2. \A u : After(u, p, b) = u /\ Follows(u, p, b)
  BY AfterNothing
<1> QED
  BY <1>1, <1>2 DEF End, Order

\* A message of no player tells nothing.
LEMMA InboxForeign ==
    ASSUME NEW v, NEW p, NEW a \in Seq(Received), NEW b, NEW m \in Received, ~Mine(p, m)
    PROVE  /\ End(v, p, Append(a, m), b) = End(v, p, a, b)
           /\ Order(v, p, a, b) => Order(v, p, Append(a, m), b)
<1>1. /\ After(v, p, Append(a, m)) = Hears(After(v, p, a), p, m)
      /\ Follows(v, p, Append(a, m)) <=> Follows(v, p, a) /\ (Mine(p, m) => Fits(After(v, p, a), m))
  BY AfterMore
<1>2. Hears(After(v, p, a), p, m) = After(v, p, a)
  BY DEF Hears
<1> QED
  BY <1>1, <1>2 DEF End, Order

\* The pump moves the head of the pending tasks to the worker queue.
LEMMA HeadSent ==
    ASSUME NEW v, NEW p, NEW a \in Seq(Received), NEW b \in Seq(Messages), b # <<>>
    PROVE  /\ End(v, p, Append(a, Head(b)), Tail(b)) = End(v, p, a, b)
           /\ Order(v, p, a, b) => Order(v, p, Append(a, Head(b)), Tail(b))
<1>1. PICK h, t, u : h = Head(b) /\ t = Tail(b) /\ u = After(v, p, a)
  OBVIOUS
<1>2. h \in Received
  <2>1. h \in Messages
    BY <1>1, HeadTailProperties
  <2> QED
    BY <2>1 DEF Received
<1>3. /\ After(v, p, Append(a, h)) = Hears(u, p, h)
      /\ Follows(v, p, Append(a, h)) <=> Follows(v, p, a) /\ (Mine(p, h) => Fits(u, h))
  <2>1. /\ After(v, p, Append(a, h)) = Hears(After(v, p, a), p, h)
        /\ Follows(v, p, Append(a, h)) <=> Follows(v, p, a) /\ (Mine(p, h) => Fits(After(v, p, a), h))
    BY <1>2, AfterMore
  <2> QED
    BY <1>1, <2>1
<1>4. /\ After(u, p, b) = After(Hears(u, p, h), p, t)
      /\ Follows(u, p, b) <=> (Mine(p, h) => Fits(u, h)) /\ Follows(Hears(u, p, h), p, t)
  <2>1. /\ After(u, p, b) = After(Hears(u, p, Head(b)), p, Tail(b))
        /\ Follows(u, p, b) <=> (Mine(p, Head(b)) => Fits(u, Head(b))) /\ Follows(Hears(u, p, Head(b)), p, Tail(b))
    BY AfterHead
  <2> QED
    BY <1>1, <2>1
<1> QED
  BY <1>1, <1>3, <1>4 DEF End, Order

\* Business leaves the pending tasks.
LEMMA BusinessRemoved ==
    ASSUME NEW v, NEW p, NEW a, NEW b \in Seq(Messages), NEW J, NEW G, Parts(b, J, G)
    PROVE  /\ End(v, p, a, Entries(b, J)) = End(v, p, a, b)
           /\ Order(v, p, a, b) => Order(v, p, a, Entries(b, J))
<1>1. PICK u : u = After(v, p, a)
  OBVIOUS
<1>2. After(u, p, Entries(b, J)) = After(u, p, b) /\ (Follows(u, p, b) => Follows(u, p, Entries(b, J)))
  BY AfterRemoval
<1> QED
  BY <1>1, <1>2 DEF End, Order

\* The worker takes the head of its queue.
LEMMA HeadHeard ==
    ASSUME NEW v, NEW p, NEW a \in Seq(Received), a # <<>>, NEW b
    PROVE  /\ End(Hears(v, p, Head(a)), p, Tail(a), b) = End(v, p, a, b)
           /\ Order(v, p, a, b) => /\ Order(Hears(v, p, Head(a)), p, Tail(a), b)
                                   /\ Mine(p, Head(a)) => Fits(v, Head(a))
<1>1. /\ After(v, p, a) = After(Hears(v, p, Head(a)), p, Tail(a))
      /\ Follows(v, p, a) <=> (Mine(p, Head(a)) => Fits(v, Head(a))) /\ Follows(Hears(v, p, Head(a)), p, Tail(a))
  BY AfterHead
<1> QED
  BY <1>1 DEF End, Order

Views == [data : Bindings \cup {NoData}, session : Sessions \cup {0}, online : BOOLEAN]

\* What a message says is a view.
LEMMA ToldView ==
    ASSUME NEW m \in Messages
    PROVE  Told(m) \in Views
  BY MessageFacts DEF Told, Views

\* What is known after a queue is a view.
LEMMA AfterView ==
    ASSUME NEW v \in Views, NEW s \in Seq(Received), NEW p
    PROVE  After(v, p, s) \in Views
<1> DEFINE T == {r \in Seq(Received) : After(v, p, r) \in Views}
<1>1. T \in SUBSET Seq(Received)
  OBVIOUS
<1>2. <<>> \in T
  <2>1. <<>> \in Seq(Received)
    OBVIOUS
  <2>2. After(v, p, <<>>) \in Views
    BY AfterNothing
  <2> QED
    BY <2>1, <2>2
<1>3. ASSUME NEW r \in T, NEW y \in Received PROVE Append(r, y) \in T
  <2>1. r \in Seq(Received) /\ After(v, p, r) \in Views
    OBVIOUS
  <2>2. Append(r, y) \in Seq(Received)
    BY <2>1, Grown
  <2>3. After(v, p, Append(r, y)) = Hears(After(v, p, r), p, y)
    BY <2>1, AfterMore
  <2>4. Hears(After(v, p, r), p, y) \in Views
    <3>1. CASE Mine(p, y) /\ Lifecycle(y)
      <4>1. y \in Messages
        BY <3>1, OtherFacts DEF Received
      <4> QED
        BY <3>1, <4>1, ToldView DEF Hears
    <3>2. CASE ~ (Mine(p, y) /\ Lifecycle(y))
      BY <2>1, <3>2 DEF Hears
    <3> QED
      BY <3>1, <3>2
  <2>5. After(v, p, Append(r, y)) \in Views
    BY <2>3, <2>4
  <2> QED
    BY <2>2, <2>5
<1>4. T = Seq(Received)
  <2> HIDE DEF T
  <2> QED
    BY <1>1, <1>2, <1>3, SeqSetInduction
<1>5. s \in T
  BY <1>4
<1> QED
  BY <1>5

-----------------------------------------------------------------------------
(* A worker's queues: messages of its own players, counters that agree,    *)
(* limits that hold, business of open connections only.                    *)

Home(w, s) == \A i \in 1..Len(s) : s[i].kind # "other" => WorkerOf[s[i].data.player] = w
Counts(s, t) ==
    /\ t.business = Load(s) /\ t.bytes = Weight(s) /\ t.lifecycle = Len(s) - Load(s)
    /\ t.business <= MaxTasks /\ t.bytes <= MaxBytes
Alive(C, s) == \A i \in 1..Len(s) : s[i].kind = "business" => s[i].session \in C

Stats == [business : Nat, bytes : Nat, lifecycle : Nat]

\* A queue of its own players stays one.
LEMMA HomeMore ==
    ASSUME NEW X, NEW s \in Seq(X), NEW m \in X, NEW w, Home(w, s), m.kind # "other" => WorkerOf[m.data.player] = w
    PROVE  Home(w, Append(s, m))
<1>1. PICK q : q = Append(s, m)
  OBVIOUS
<1>2. Len(q) = Len(s) + 1 /\ Len(s) \in Nat /\ q[Len(s) + 1] = m /\ \A i \in 1..Len(s) : q[i] = s[i]
  BY <1>1, Grown
<1>3. \A i \in 1..Len(q) : i \in 1..Len(s) \/ i = Len(s) + 1
  BY <1>2
<1> QED
  BY <1>1, <1>2, <1>3 DEF Home

\* A queue of live business stays one.
LEMMA AliveMore ==
    ASSUME NEW X, NEW s \in Seq(X), NEW m \in X, NEW C, Alive(C, s), m.kind = "business" => m.session \in C
    PROVE  Alive(C, Append(s, m))
<1>1. PICK q : q = Append(s, m)
  OBVIOUS
<1>2. Len(q) = Len(s) + 1 /\ Len(s) \in Nat /\ q[Len(s) + 1] = m /\ \A i \in 1..Len(s) : q[i] = s[i]
  BY <1>1, Grown
<1>3. \A i \in 1..Len(q) : i \in 1..Len(s) \/ i = Len(s) + 1
  BY <1>2
<1> QED
  BY <1>1, <1>2, <1>3 DEF Alive

\* What follows the head of such queues is such a queue.
LEMMA TailKeeps ==
    ASSUME NEW X, NEW s \in Seq(X), s # <<>>, NEW w, NEW C
    PROVE  /\ Tail(s) \in Seq(X) /\ Head(s) \in X
           /\ Home(w, s) => Home(w, Tail(s)) /\ (Head(s).kind # "other" => WorkerOf[Head(s).data.player] = w)
           /\ Alive(C, s) => Alive(C, Tail(s))
<1>1. PICK t : t = Tail(s)
  OBVIOUS
<1>2. /\ Head(s) \in X /\ t \in Seq(X) /\ Len(t) = Len(s) - 1
      /\ \A i \in 1..Len(t) : t[i] = s[i + 1]
  BY <1>1, HeadTailProperties
<1>3. Len(s) \in Nat \ {0}
  BY EmptySeq
<1>4. \A i \in 1..Len(t) : i + 1 \in 1..Len(s)
  BY <1>2, <1>3
<1>5. Head(s) = s[1] /\ 1 \in 1..Len(s)
  BY <1>3
<1>6. Home(w, s) => Home(w, t) /\ (Head(s).kind # "other" => WorkerOf[Head(s).data.player] = w)
  BY <1>2, <1>4, <1>5 DEF Home
<1>7. Alive(C, s) => Alive(C, t)
  BY <1>2, <1>4 DEF Alive
<1> QED
  BY <1>1, <1>2, <1>6, <1>7

\* Business of a queue is no longer than the queue.
LEMMA LoadBound ==
    ASSUME NEW X, Sized(X), NEW s \in Seq(X)
    PROVE  Load(s) \in Nat /\ Weight(s) \in Nat /\ Load(s) <= Len(s)
<1> DEFINE P(r) == Load(r) \in Nat /\ Weight(r) \in Nat /\ Load(r) <= Len(r)
           T == {r \in Seq(X) : P(r)}
<1>1. T \in SUBSET Seq(X)
  OBVIOUS
<1>2. <<>> \in T
  <2>1. <<>> \in Seq(X) /\ Len(<<>>) = 0
    OBVIOUS
  <2>2. P(<<>>)
    BY <2>1, LoadNothing
  <2> HIDE DEF P
  <2> QED
    BY <2>1, <2>2
<1>3. ASSUME NEW r \in T, NEW y \in X PROVE Append(r, y) \in T
  <2>1. r \in Seq(X) /\ P(r)
    OBVIOUS
  <2>2. PICK q : q = Append(r, y)
    OBVIOUS
  <2>3. q \in Seq(X) /\ Len(q) = Len(r) + 1 /\ Len(r) \in Nat
    BY <2>1, <2>2, Grown
  <2>4. /\ Load(q) = IF Lifecycle(y) THEN Load(r) ELSE Load(r) + 1
        /\ Weight(q) = IF Lifecycle(y) THEN Weight(r) ELSE Weight(r) + y.size
    BY <2>1, <2>2, LoadGrows
  <2>5. y.size \in Nat
    BY DEF Sized
  <2>6. P(q)
    BY <2>1, <2>3, <2>4, <2>5
  <2> HIDE DEF P
  <2> QED
    BY <2>2, <2>3, <2>6
<1>4. T = Seq(X)
  <2> HIDE DEF T
  <2> QED
    BY <1>1, <1>2, <1>3, SeqSetInduction
<1>5. s \in T
  BY <1>4
<1> QED
  BY <1>5

\* The counters of an empty queue.
LEMMA CountsNothing == Counts(<<>>, NoStats) /\ NoStats \in Stats
<1>1. Len(<<>>) = 0
  OBVIOUS
<1> QED
  BY <1>1, LoadNothing, LimitsAssumption DEF Counts, NoStats, Stats

\* submit keeps the counters exact.
LEMMA CountsMore ==
    ASSUME NEW s \in Seq(Messages), NEW t \in Stats, Counts(s, t), NEW m \in Messages,
           Lifecycle(m) \/ (t.business < MaxTasks /\ t.bytes + m.size <= MaxBytes)
    PROVE  Counts(Append(s, m), Account(t, m, 1)) /\ Account(t, m, 1) \in Stats
<1>1. PICK q : q = Append(s, m)
  OBVIOUS
<1>2. /\ Load(s) \in Nat /\ Weight(s) \in Nat
      /\ Load(q) = IF Lifecycle(m) THEN Load(s) ELSE Load(s) + 1
      /\ Weight(q) = IF Lifecycle(m) THEN Weight(s) ELSE Weight(s) + m.size
  BY <1>1, QueuesSized, LoadGrows
<1>3. Len(q) = Len(s) + 1 /\ Len(s) \in Nat
  BY <1>1, Grown
<1>4. m.size \in Nat
  BY MessageFacts
<1>5. t.business \in Nat /\ t.bytes \in Nat /\ t.lifecycle \in Nat
      /\ t = [business |-> t.business, bytes |-> t.bytes, lifecycle |-> t.lifecycle]
  BY DEF Stats
<1>6. MaxTasks \in Nat /\ MaxBytes \in Nat
  BY LimitsAssumption
<1>7. CASE Lifecycle(m)
  <2>1. Account(t, m, 1) = [business |-> t.business, bytes |-> t.bytes, lifecycle |-> t.lifecycle + 1]
    BY <1>5, <1>7 DEF Account
  <2>2. Account(t, m, 1) \in Stats
    BY <1>5, <2>1 DEF Stats
  <2>3. Counts(q, Account(t, m, 1))
    BY <1>2, <1>3, <1>5, <1>7, <2>1 DEF Counts
  <2> QED
    BY <1>1, <2>2, <2>3
<1>8. CASE ~Lifecycle(m)
  <2>1. Account(t, m, 1) = [business |-> t.business + 1, bytes |-> t.bytes + m.size, lifecycle |-> t.lifecycle]
    <3>1. 1 * m.size = m.size
      BY <1>4
    <3> QED
      BY <1>5, <1>8, <3>1 DEF Account
  <2>2. Account(t, m, 1) \in Stats
    BY <1>4, <1>5, <2>1 DEF Stats
  <2>3. t.business + 1 <= MaxTasks /\ t.bytes + m.size <= MaxBytes
    BY <1>5, <1>6, <1>8
  <2>4. Counts(q, Account(t, m, 1))
    BY <1>2, <1>3, <1>5, <1>8, <2>1, <2>3 DEF Counts
  <2> QED
    BY <1>1, <2>2, <2>4
<1> QED
  BY <1>7, <1>8

\* accountRemove keeps them exact when the head is sent.
LEMMA CountsHead ==
    ASSUME NEW s \in Seq(Messages), NEW t \in Stats, Counts(s, t), s # <<>>
    PROVE  Counts(Tail(s), Account(t, Head(s), -1)) /\ Account(t, Head(s), -1) \in Stats
<1>1. PICK h, r : h = Head(s) /\ r = Tail(s)
  OBVIOUS
<1>2. h \in Messages /\ r \in Seq(Messages) /\ Len(r) = Len(s) - 1
  BY <1>1, HeadTailProperties
<1>3. /\ Load(r) \in Nat /\ Weight(r) \in Nat
      /\ Load(s) = IF Lifecycle(h) THEN Load(r) ELSE Load(r) + 1
      /\ Weight(s) = IF Lifecycle(h) THEN Weight(r) ELSE Weight(r) + h.size
  BY <1>1, QueuesSized, LoadOfHead
<1>4. h.size \in Nat /\ Len(s) \in Nat /\ Len(r) \in Nat
  BY <1>2, MessageFacts
<1>5. t.business \in Nat /\ t.bytes \in Nat /\ t.lifecycle \in Nat
      /\ t = [business |-> t.business, bytes |-> t.bytes, lifecycle |-> t.lifecycle]
  BY DEF Stats
<1>6. MaxTasks \in Nat /\ MaxBytes \in Nat
  BY LimitsAssumption
<1>7. t.business = Load(s) /\ t.bytes = Weight(s) /\ t.lifecycle = Len(s) - Load(s) /\ t.business <= MaxTasks /\ t.bytes <= MaxBytes
  BY DEF Counts
<1>8. Load(r) <= Len(r)
  BY <1>2, QueuesSized, LoadBound
<1>9. CASE Lifecycle(h)
  <2>1. Account(t, h, -1) = [business |-> t.business, bytes |-> t.bytes, lifecycle |-> t.lifecycle - 1]
    BY <1>5, <1>9 DEF Account
  <2>2. t.lifecycle - 1 = Len(r) - Load(r) /\ t.lifecycle - 1 \in Nat
    BY <1>2, <1>3, <1>4, <1>7, <1>8, <1>9
  <2>3. Account(t, h, -1) \in Stats
    BY <1>5, <2>1, <2>2 DEF Stats
  <2>4. Counts(r, Account(t, h, -1))
    BY <1>3, <1>7, <1>9, <2>1, <2>2 DEF Counts
  <2> QED
    BY <1>1, <2>3, <2>4
<1>10. CASE ~Lifecycle(h)
  <2>1. Account(t, h, -1) = [business |-> t.business - 1, bytes |-> t.bytes - h.size, lifecycle |-> t.lifecycle]
    <3>1. (-1) * h.size = - h.size /\ t.bytes + (-1) * h.size = t.bytes - h.size /\ t.business + (-1) = t.business - 1
      BY <1>4, <1>5
    <3> QED
      BY <1>5, <1>10, <3>1 DEF Account
  <2>2. t.business - 1 = Load(r) /\ t.bytes - h.size = Weight(r)
    BY <1>3, <1>4, <1>7, <1>10
  <2>3. t.lifecycle = Len(r) - Load(r)
    BY <1>2, <1>3, <1>4, <1>7, <1>10
  <2>4. Account(t, h, -1) \in Stats
    BY <1>3, <1>5, <2>1, <2>2 DEF Stats
  <2>5. Load(r) <= MaxTasks /\ Weight(r) <= MaxBytes
    BY <1>3, <1>4, <1>5, <1>6, <1>7, <2>2
  <2>6. Counts(r, Account(t, h, -1))
    BY <2>1, <2>2, <2>3, <2>5 DEF Counts
  <2> QED
    BY <1>1, <2>4, <2>6
<1> QED
  BY <1>9, <1>10

\* They stay exact when business is taken out.
LEMMA CountsRemoval ==
    ASSUME NEW s \in Seq(Messages), NEW t \in Stats, Counts(s, t), NEW J, NEW G, Parts(s, J, G),
           NEW u, u = [t EXCEPT !.business = @ - Len(Entries(s, G)), !.bytes = @ - Bytes(Entries(s, G))]
    PROVE  Counts(Entries(s, J), u) /\ u \in Stats
<1>1. PICK k, g : k = Entries(s, J) /\ g = Entries(s, G)
  OBVIOUS
<1>2. k \in Seq(Messages) /\ g \in Seq(Messages)
  BY <1>1, EntriesType
<1>3. Load(s) = Load(k) + Len(g) /\ Weight(s) = Weight(k) + Bytes(g) /\ Len(s) = Len(k) + Len(g)
  <2>1. Balanced(s, J, G)
    BY QueuesSized, TakenOut
  <2> QED
    BY <1>1, <2>1 DEF Balanced
<1>4. Load(k) \in Nat /\ Weight(k) \in Nat /\ Len(g) \in Nat /\ Len(k) \in Nat /\ Load(k) <= Len(k)
  BY <1>2, QueuesSized, LoadBound
<1>5. Bytes(g) \in Nat
  <2>1. PICK y : y = Message("other", NoData, 0, 0)
    OBVIOUS
  <2>2. g \in Seq(Messages \cup {y})
    BY <1>2
  <2>3. Sized(Messages \cup {y})
    BY <2>1, QueuesSized DEF Sized, Message
  <2> QED
    BY <2>2, <2>3, BytesGrow
<1>6. t.business \in Nat /\ t.bytes \in Nat /\ t.lifecycle \in Nat
      /\ t = [business |-> t.business, bytes |-> t.bytes, lifecycle |-> t.lifecycle]
  BY DEF Stats
<1>7. MaxTasks \in Nat /\ MaxBytes \in Nat
  BY LimitsAssumption
<1>8. t.business = Load(s) /\ t.bytes = Weight(s) /\ t.lifecycle = Len(s) - Load(s) /\ t.business <= MaxTasks /\ t.bytes <= MaxBytes
  BY DEF Counts
<1>9. u = [business |-> t.business - Len(g), bytes |-> t.bytes - Bytes(g), lifecycle |-> t.lifecycle]
  BY <1>1, <1>6
<1>10. t.business - Len(g) = Load(k) /\ t.bytes - Bytes(g) = Weight(k)
  BY <1>3, <1>4, <1>5, <1>8
<1>11. t.lifecycle = Len(k) - Load(k)
  BY <1>3, <1>4, <1>8
<1>12. u \in Stats
  BY <1>4, <1>6, <1>9, <1>10 DEF Stats
<1>13. Load(k) <= MaxTasks /\ Weight(k) <= MaxBytes
  BY <1>3, <1>4, <1>5, <1>7, <1>8
<1>14. Counts(k, u)
  <2>1. u.business = t.business - Len(g) /\ u.bytes = t.bytes - Bytes(g) /\ u.lifecycle = t.lifecycle
    BY <1>1 DEF Stats
  <2>2. u.business = Load(k) /\ u.bytes = Weight(k)
    BY <1>10, <2>1
  <2>3. u.lifecycle = Len(k) - Load(k)
    BY <1>11, <2>1
  <2> QED
    BY <1>13, <2>2, <2>3 DEF Counts
<1> QED
  BY <1>1, <1>12, <1>14

\* Taking business out leaves a queue of its own players.
LEMMA HomeRemoval ==
    ASSUME NEW X, NEW s \in Seq(X), NEW J, NEW w, Home(w, s)
    PROVE  Home(w, Entries(s, J))
<1> DEFINE Y == {m \in X : m.kind # "other" => WorkerOf[m.data.player] = w}
<1>1. \A n \in 1..Len(s) : s[n] \in X
  BY ElementOfSeq
<1>2. \A n \in 1..Len(s) : n \in J => s[n] \in Y
  BY <1>1 DEF Home
<1>3. \A m \in Y : m.kind # "other" => WorkerOf[m.data.player] = w
  OBVIOUS
<1> HIDE DEF Y
<1>4. PICK e : e = Entries(s, J)
  OBVIOUS
<1>5. e \in Seq(Y)
  BY <1>2, <1>4, EntriesAmong
<1>6. \A n \in 1..Len(e) : e[n] \in Y
  BY <1>5, ElementOfSeq
<1> QED
  BY <1>3, <1>4, <1>6 DEF Home

\* Taking out the business of a connection leaves none of it.
LEMMA AliveRemoval ==
    ASSUME NEW X, NEW s \in Seq(X), NEW J, NEW C, \A n \in 1..Len(s) : n \in J => (s[n].kind = "business" => s[n].session \in C)
    PROVE  Alive(C, Entries(s, J))
<1> DEFINE Y == {m \in X : m.kind = "business" => m.session \in C}
<1>1. \A n \in 1..Len(s) : s[n] \in X
  BY ElementOfSeq
<1>2. \A n \in 1..Len(s) : n \in J => s[n] \in Y
  BY <1>1
<1>3. \A m \in Y : m.kind = "business" => m.session \in C
  OBVIOUS
<1> HIDE DEF Y
<1>4. PICK e : e = Entries(s, J)
  OBVIOUS
<1>5. e \in Seq(Y)
  BY <1>2, <1>4, EntriesAmong
<1>6. \A n \in 1..Len(e) : e[n] \in Y
  BY <1>5, ElementOfSeq
<1> QED
  BY <1>3, <1>4, <1>6 DEF Alive

-----------------------------------------------------------------------------
(* The inductive invariant.                                                *)

LinkTypes ==
    /\ nextSession \in 1..(MaxSession + 1) /\ conns \subseteq 1..(nextSession - 1)
    /\ gatewayOf \in [Sessions -> Gateways \cup {0}]

IndexTypes ==
    /\ index \in [latest : [Players -> Bindings \cup {NoData}],
                  route : [Players -> Sessions \cup {0}],
                  byConn : [Sessions -> SUBSET Bindings]]

QueueTypes ==
    /\ tasks \in [Workers -> Seq(Messages)]
    /\ inbox \in [Workers -> Seq(Received)]
    /\ stats \in [Workers -> Stats]

PumpTypes ==
    /\ {"at", "worker"} \subseteq DOMAIN pump
    /\ pump.at \in {"idle", "send", "reply"} /\ pump.worker \in Workers
    /\ cursor \in Workers /\ others \in 0..MaxOther

ClosingTypes == closing \in [session : Sessions \cup {0}, offline : SUBSET Bindings]
ViewTypes == view \in [Players -> Views]

Types == LinkTypes /\ IndexTypes /\ QueueTypes /\ PumpTypes /\ ClosingTypes /\ ViewTypes

\* Every queue is in order.
QueueAt(w) ==
    Home(w, inbox[w]) /\ Home(w, tasks[w]) /\ Counts(tasks[w], stats[w]) /\ Alive(conns, tasks[w])
Queues == \A w \in Workers : QueueAt(w)

\* What the worker of p knows when all that is on its way has arrived.
Known(p) == End(view[p], p, inbox[WorkerOf[p]], tasks[WorkerOf[p]])

InOrder == \A p \in Players : Order(view[p], p, inbox[WorkerOf[p]], tasks[WorkerOf[p]])

\* The index is consistent, and files every binding under its player.
IndexInv == IndexConsistent /\ \A p \in Players : index.latest[p] # NoData => index.latest[p].player = p

\* Bindings that leave with their connection are still the latest of their
\* players, which no connection carries any more.
Leaving(p) == \E d \in closing.offline : d.player = p
ClosingInv ==
    /\ closing.session = 0 \/ closing.session \in conns => closing.offline = {}
    /\ \A d \in closing.offline : index.latest[d.player] = d /\ index.route[d.player] = 0

EndsKnown ==
    \A p \in Players :
        /\ Known(p).data = index.latest[p]
        /\ Known(p).online = (index.route[p] # 0 \/ Leaving(p))
        /\ index.route[p] # 0 => Known(p).session = index.route[p]
        /\ Leaving(p) => Known(p).session = closing.session

NetInv == Types /\ Queues /\ InOrder /\ IndexInv /\ ClosingInv /\ EndsKnown

\* Every player has a worker.
LEMMA WorkerFacts == \A p \in Players : WorkerOf[p] \in Workers
  BY WorkersAssumption

\* Connections are numbered from 1.
LEMMA SessionFacts == LinkTypes => conns \subseteq Sessions /\ 0 \notin conns
<1> SUFFICES ASSUME LinkTypes PROVE conns \subseteq Sessions /\ 0 \notin conns
  OBVIOUS
<1>1. MaxSession \in Nat /\ nextSession \in 1..(MaxSession + 1)
  BY LimitsAssumption DEF LinkTypes
<1>2. \A c \in 1..(nextSession - 1) : c \in 1..MaxSession /\ c # 0
  BY <1>1
<1> QED
  BY <1>2 DEF LinkTypes, Sessions

\* What a worker will know is a view.
LEMMA KnownView == QueueTypes /\ ViewTypes => \A p \in Players : Known(p) \in Views
<1> SUFFICES ASSUME QueueTypes, ViewTypes, NEW p \in Players PROVE Known(p) \in Views
  OBVIOUS
<1>1. PICK a, b, v : a = inbox[WorkerOf[p]] /\ b = tasks[WorkerOf[p]] /\ v = view[p]
  OBVIOUS
<1>2. a \in Seq(Received) /\ b \in Seq(Messages) /\ v \in Views
  BY <1>1, WorkerFacts DEF QueueTypes, ViewTypes
<1>3. b \in Seq(Received)
  BY <1>2 DEF Received
<1>4. After(v, p, a) \in Views
  BY <1>2, AfterView
<1>5. After(After(v, p, a), p, b) \in Views
  BY <1>3, <1>4, AfterView
<1> QED
  BY <1>1, <1>5 DEF Known, End

\* A message of no player is sent to worker w, or nothing is sent.
LEMMA Passed ==
    ASSUME QueueTypes, Queues, InOrder, NEW w \in Workers, Send(w, Other) \/ UNCHANGED inbox,
           UNCHANGED <<pending, view>>, conns \subseteq conns'
    PROVE  QueueTypes' /\ Queues' /\ InOrder' /\ \A p \in Players : Known(p)' = Known(p)
<1>1. tasks' = tasks /\ stats' = stats /\ view' = view
  BY DEF pending
<1>2. Other \in Received
  BY DEF Received
<1>3. \A v \in Workers : inbox'[v] = inbox[v] \/ inbox'[v] = Append(inbox[v], Other)
  BY DEF Send, QueueTypes
<1>4. inbox' \in [Workers -> Seq(Received)]
  <2>1. Append(inbox[w], Other) \in Seq(Received)
    BY <1>2, AppendProperties DEF QueueTypes
  <2> QED
    BY <2>1 DEF Send, QueueTypes
<1>5. QueueTypes'
  BY <1>1, <1>4 DEF QueueTypes
<1>6. ASSUME NEW v \in Workers PROVE QueueAt(v)'
  <2>1. Home(v, inbox[v]) /\ inbox[v] \in Seq(Received)
    BY DEF Queues, QueueAt, QueueTypes
  <2>2. Home(v, Append(inbox[v], Other))
    BY <1>2, <2>1, HomeMore, OtherFacts
  <2>3. Home(v, inbox'[v])
    BY <1>3, <2>1, <2>2
  <2>4. Home(v, tasks[v]) /\ Counts(tasks[v], stats[v]) /\ Alive(conns, tasks[v])
    BY DEF Queues, QueueAt
  <2>5. Alive(conns', tasks[v])
    BY <2>4 DEF Alive
  <2> QED
    BY <1>1, <2>3, <2>4, <2>5 DEF QueueAt
<1>7. ASSUME NEW p \in Players PROVE Known(p)' = Known(p) /\ Order(view[p], p, inbox[WorkerOf[p]], tasks[WorkerOf[p]])'
  <2>1. PICK a, b, v, c : a = inbox[WorkerOf[p]] /\ b = tasks[WorkerOf[p]] /\ v = view[p] /\ c = inbox'[WorkerOf[p]]
    OBVIOUS
  <2>2. a \in Seq(Received) /\ (c = a \/ c = Append(a, Other)) /\ Order(v, p, a, b)
    BY <1>3, <2>1, WorkerFacts DEF QueueTypes, InOrder
  <2>3. /\ End(v, p, Append(a, Other), b) = End(v, p, a, b)
        /\ Order(v, p, a, b) => Order(v, p, Append(a, Other), b)
    BY <1>2, <2>2, InboxForeign, OtherFacts
  <2>4. End(v, p, c, b) = End(v, p, a, b) /\ Order(v, p, c, b)
    BY <2>2, <2>3
  <2> QED
    BY <1>1, <2>1, <2>4 DEF Known
<1> QED
  BY <1>5, <1>6, <1>7 DEF Queues, InOrder

\* A message is submitted that fits what its player's worker will know.
LEMMA Submitted ==
    ASSUME QueueTypes, Queues, InOrder, NEW m \in Messages, Submit(m), Fits(Known(m.data.player), m),
           m.kind = "business" => m.session \in conns, UNCHANGED <<view, conns>>
    PROVE  /\ QueueTypes' /\ Queues' /\ InOrder'
           /\ \A p \in Players : Known(p)' = Hears(Known(p), p, m)
<1> DEFINE w == WorkerOf[m.data.player]
<1>1. view' = view /\ conns' = conns
  OBVIOUS
<1>2. m.data.player \in Players /\ w \in Workers /\ m \in Received /\ m.kind # "other"
  BY MessageFacts, WorkerFacts DEF Received
<1>3. \A p \in Players : WorkerOf[p] # w => ~Mine(p, m) /\ Hears(Known(p), p, m) = Known(p)
  BY MineFacts DEF Hears
<1>4. \A p : Mine(p, m) => p = m.data.player
  BY MineFacts
<1>5. CASE Admission(w, m) = "accepted"
  <2>1. tasks[w] = <<>> /\ inbox' = [inbox EXCEPT ![w] = Append(@, m)] /\ tasks' = tasks /\ stats' = stats
    <3>1. tasks[w] = <<>>
      BY <1>5 DEF Admission
    <3> QED
      BY <1>5, <3>1 DEF Submit, Send, pending
  <2>2. \A v \in Workers : inbox'[v] = IF v = w THEN Append(inbox[w], m) ELSE inbox[v]
    BY <1>2, <2>1 DEF QueueTypes
  <2>3. Append(inbox[w], m) \in Seq(Received)
    BY <1>2, AppendProperties DEF QueueTypes
  <2>4. QueueTypes'
    BY <1>2, <2>1, <2>3 DEF QueueTypes
  <2>5. ASSUME NEW v \in Workers PROVE QueueAt(v)'
    <3>1. Home(w, inbox[w]) /\ inbox[w] \in Seq(Received)
      BY <1>2 DEF Queues, QueueAt, QueueTypes
    <3>2. Home(w, Append(inbox[w], m))
      BY <1>2, <3>1, HomeMore
    <3>3. QueueAt(v)
      BY DEF Queues
    <3>4. Home(v, inbox'[v])
      BY <2>2, <3>2, <3>3 DEF QueueAt
    <3> QED
      BY <1>1, <2>1, <3>3, <3>4 DEF QueueAt
  <2>6. ASSUME NEW p \in Players
        PROVE  Known(p)' = Hears(Known(p), p, m) /\ Order(view[p], p, inbox[WorkerOf[p]], tasks[WorkerOf[p]])'
    <3>1. Order(view[p], p, inbox[WorkerOf[p]], tasks[WorkerOf[p]])
      BY DEF InOrder
    <3>2. CASE WorkerOf[p] = w
      <4>1. PICK a, b, v : a = inbox[w] /\ b = tasks[w] /\ v = view[p]
        OBVIOUS
      <4>2. a \in Seq(Received) /\ b = <<>> /\ Order(v, p, a, b)
        BY <1>2, <2>1, <3>1, <3>2, <4>1 DEF QueueTypes
      <4>3. Known(p) = End(v, p, a, b)
        BY <3>2, <4>1 DEF Known
      <4>4. Mine(p, m) => Fits(End(v, p, a, b), m)
        BY <1>4, <4>3
      <4>5. /\ End(v, p, Append(a, m), b) = Hears(End(v, p, a, b), p, m)
            /\ Order(v, p, a, b) /\ (Mine(p, m) => Fits(End(v, p, a, b), m)) => Order(v, p, Append(a, m), b)
        BY <1>2, <4>2, InboxMore
      <4>6. inbox'[w] = Append(a, m) /\ tasks'[w] = b /\ view'[p] = v
        BY <1>1, <1>2, <2>1, <2>2, <4>1
      <4> QED
        BY <3>2, <4>2, <4>3, <4>4, <4>5, <4>6 DEF Known
    <3>3. CASE WorkerOf[p] # w
      <4>1. inbox'[WorkerOf[p]] = inbox[WorkerOf[p]] /\ tasks' = tasks
        BY <2>1, <2>2, <3>3, WorkerFacts
      <4>2. Known(p)' = Known(p)
        BY <1>1, <4>1 DEF Known
      <4> QED
        BY <1>1, <1>3, <3>1, <3>3, <4>1, <4>2
    <3> QED
      BY <3>2, <3>3
  <2> QED
    BY <2>4, <2>5, <2>6 DEF Queues, InOrder
<1>6. CASE Admission(w, m) = "pending"
  <2>1. inbox' = inbox /\ tasks' = [tasks EXCEPT ![w] = Append(@, m)] /\ stats' = [stats EXCEPT ![w] = Account(@, m, 1)]
    BY <1>6 DEF Submit
  <2>2. Lifecycle(m) \/ (stats[w].business < MaxTasks /\ stats[w].bytes + m.size <= MaxBytes)
    <3>1. Lifecycle(m) \/ (~(stats[w].business >= MaxTasks) /\ ~(stats[w].bytes + m.size > MaxBytes))
      BY <1>6 DEF Admission
    <3>2. stats[w].business \in Nat /\ stats[w].bytes \in Nat /\ m.size \in Nat /\ MaxTasks \in Nat /\ MaxBytes \in Nat
      BY <1>2, MessageFacts, LimitsAssumption DEF QueueTypes, Stats
    <3> QED
      BY <3>1, <3>2
  <2>3. /\ \A v \in Workers : tasks'[v] = IF v = w THEN Append(tasks[w], m) ELSE tasks[v]
        /\ \A v \in Workers : stats'[v] = IF v = w THEN Account(stats[w], m, 1) ELSE stats[v]
    BY <1>2, <2>1 DEF QueueTypes
  <2>4. tasks[w] \in Seq(Messages) /\ stats[w] \in Stats
    BY <1>2 DEF QueueTypes
  <2>5. Append(tasks[w], m) \in Seq(Messages)
    BY <2>4, AppendProperties
  <2>6. Home(w, tasks[w]) /\ Counts(tasks[w], stats[w]) /\ Alive(conns, tasks[w])
    BY <1>2 DEF Queues, QueueAt
  <2>7. Counts(Append(tasks[w], m), Account(stats[w], m, 1)) /\ Account(stats[w], m, 1) \in Stats
    BY <2>2, <2>4, <2>6, CountsMore
  <2>8. Home(w, Append(tasks[w], m))
    BY <2>4, <2>6, HomeMore
  <2>9. Alive(conns, Append(tasks[w], m))
    BY <2>4, <2>6, AliveMore
  <2>10. QueueTypes'
    BY <1>2, <2>1, <2>5, <2>7 DEF QueueTypes
  <2>11. ASSUME NEW v \in Workers PROVE QueueAt(v)'
    <3>1. QueueAt(v)
      BY DEF Queues
    <3>2. CASE v = w
      BY <1>1, <2>1, <2>3, <2>7, <2>8, <2>9, <3>1, <3>2 DEF QueueAt
    <3>3. CASE v # w
      BY <1>1, <2>1, <2>3, <3>1, <3>3 DEF QueueAt
    <3> QED
      BY <3>2, <3>3
  <2>12. ASSUME NEW p \in Players
         PROVE  Known(p)' = Hears(Known(p), p, m) /\ Order(view[p], p, inbox[WorkerOf[p]], tasks[WorkerOf[p]])'
    <3>1. Order(view[p], p, inbox[WorkerOf[p]], tasks[WorkerOf[p]])
      BY DEF InOrder
    <3>2. CASE WorkerOf[p] = w
      <4>1. PICK a, b, v : a = inbox[w] /\ b = tasks[w] /\ v = view[p]
        OBVIOUS
      <4>2. b \in Seq(Messages) /\ Order(v, p, a, b)
        BY <2>4, <3>1, <3>2, <4>1
      <4>3. Known(p) = End(v, p, a, b)
        BY <3>2, <4>1 DEF Known
      <4>4. Mine(p, m) => Fits(End(v, p, a, b), m)
        BY <1>4, <4>3
      <4>5. /\ End(v, p, a, Append(b, m)) = Hears(End(v, p, a, b), p, m)
            /\ Order(v, p, a, b) /\ (Mine(p, m) => Fits(End(v, p, a, b), m)) => Order(v, p, a, Append(b, m))
        BY <4>2, PendingMore
      <4>6. inbox'[w] = a /\ tasks'[w] = Append(b, m) /\ view'[p] = v
        BY <1>1, <1>2, <2>1, <2>3, <4>1
      <4> QED
        BY <3>2, <4>2, <4>3, <4>4, <4>5, <4>6 DEF Known
    <3>3. CASE WorkerOf[p] # w
      <4>1. tasks'[WorkerOf[p]] = tasks[WorkerOf[p]] /\ inbox' = inbox
        BY <2>1, <2>3, <3>3, WorkerFacts
      <4>2. Known(p)' = Known(p)
        BY <1>1, <4>1 DEF Known
      <4> QED
        BY <1>1, <1>3, <3>1, <3>3, <4>1, <4>2
    <3> QED
      BY <3>2, <3>3
  <2> QED
    BY <2>10, <2>11, <2>12 DEF Queues, InOrder
<1>7. CASE Admission(w, m) \notin {"accepted", "pending"}
  <2>1. UNCHANGED <<inbox, tasks, stats>>
    BY <1>7 DEF Submit, pending
  <2>2. ~Lifecycle(m)
    BY <1>7 DEF Admission
  <2>3. ASSUME NEW p \in Players PROVE Known(p)' = Hears(Known(p), p, m)
    BY <1>1, <2>1, <2>2 DEF Known, Hears
  <2> QED
    BY <1>1, <2>1, <2>3 DEF QueueTypes, Queues, QueueAt, InOrder
<1> QED
  BY <1>5, <1>6, <1>7

\* Business leaves the queues, whatever is left of it alive.
LEMMA Removed ==
    ASSUME QueueTypes, Queues, InOrder, NEW drop, RemoveBusiness(drop), UNCHANGED <<inbox, view>>,
           \A w \in Workers : \A i \in DOMAIN tasks[w] :
               i \notin drop[w] /\ tasks[w][i].kind = "business" => tasks[w][i].session \in conns'
    PROVE  QueueTypes' /\ Queues' /\ InOrder' /\ \A p \in Players : Known(p)' = Known(p)
<1>1. inbox' = inbox /\ view' = view
  OBVIOUS
<1>2. /\ tasks' = [w \in Workers |-> Entries(tasks[w], DOMAIN tasks[w] \ Gone(w, drop))]
      /\ stats' = [w \in Workers |-> [stats[w] EXCEPT !.business = @ - Len(Entries(tasks[w], Gone(w, drop))),
                                                      !.bytes = @ - Bytes(Entries(tasks[w], Gone(w, drop)))]]
  BY DEF RemoveBusiness
<1>3. ASSUME NEW w \in Workers
      PROVE  /\ Parts(tasks[w], DOMAIN tasks[w] \ Gone(w, drop), Gone(w, drop))
             /\ tasks'[w] = Entries(tasks[w], DOMAIN tasks[w] \ Gone(w, drop))
             /\ tasks'[w] \in Seq(Messages) /\ stats'[w] \in Stats /\ QueueAt(w)'
  <2>1. PICK s, t, J, G : s = tasks[w] /\ t = stats[w] /\ J = DOMAIN tasks[w] \ Gone(w, drop) /\ G = Gone(w, drop)
    OBVIOUS
  <2>2. s \in Seq(Messages) /\ t \in Stats
    BY <2>1 DEF QueueTypes
  <2>3. DOMAIN s = 1..Len(s)
    BY <2>2
  <2>4. QueueAt(w)
    BY DEF Queues
  <2>5. Counts(s, t) /\ Home(w, s)
    BY <2>1, <2>4 DEF QueueAt
  <2>6. \A n \in 1..Len(s) : (n \in G <=> n \in drop[w] /\ ~Lifecycle(s[n])) /\ (n \in J <=> n \notin G)
    BY <2>1, <2>3 DEF Gone
  <2>7. Parts(s, J, G)
    BY <2>6 DEF Parts
  <2>8. PICK u : u = [t EXCEPT !.business = @ - Len(Entries(s, G)), !.bytes = @ - Bytes(Entries(s, G))]
    OBVIOUS
  <2>9. Counts(Entries(s, J), u) /\ u \in Stats
    BY <2>2, <2>5, <2>7, <2>8, CountsRemoval
  <2>10. Home(w, Entries(s, J))
    BY <2>2, <2>5, HomeRemoval
  <2>11. Alive(conns', Entries(s, J))
    <3>1. ASSUME NEW n \in 1..Len(s), n \in J, s[n].kind = "business" PROVE s[n].session \in conns'
      <4>1. s[n] \in Messages
        BY <2>2, ElementOfSeq
      <4>2. ~Lifecycle(s[n])
        BY <3>1, <4>1, MessageFacts
      <4>3. n \notin drop[w] /\ n \in DOMAIN tasks[w]
        BY <2>1, <2>3, <2>6, <3>1, <4>2
      <4> QED
        BY <2>1, <3>1, <4>3
    <3>2. PICK C : C = conns'
      OBVIOUS
    <3>3. \A n \in 1..Len(s) : n \in J => (s[n].kind = "business" => s[n].session \in C)
      BY <3>1, <3>2
    <3>4. Alive(C, Entries(s, J))
      BY <2>2, <3>3, AliveRemoval
    <3> QED
      BY <3>2, <3>4
  <2>12. Entries(s, J) \in Seq(Messages)
    BY <2>2, EntriesType
  <2>13. tasks'[w] = Entries(s, J) /\ stats'[w] = u
    BY <1>2, <2>1, <2>8
  <2>14. Home(w, inbox'[w])
    BY <1>1, <2>4 DEF QueueAt
  <2> QED
    BY <2>1, <2>7, <2>9, <2>10, <2>11, <2>12, <2>13, <2>14 DEF QueueAt
<1>4. QueueTypes'
  <2>1. tasks' = [w \in Workers |-> tasks'[w]] /\ stats' = [w \in Workers |-> stats'[w]]
    BY <1>2
  <2> QED
    BY <1>1, <1>3, <2>1 DEF QueueTypes
<1>5. ASSUME NEW p \in Players PROVE Known(p)' = Known(p) /\ Order(view[p], p, inbox[WorkerOf[p]], tasks[WorkerOf[p]])'
  <2>1. PICK w : w = WorkerOf[p]
    OBVIOUS
  <2>2. PICK a, b, v, J, G : a = inbox[w] /\ b = tasks[w] /\ v = view[p] /\ J = DOMAIN tasks[w] \ Gone(w, drop) /\ G = Gone(w, drop)
    OBVIOUS
  <2>3. w \in Workers /\ b \in Seq(Messages) /\ Order(v, p, a, b)
    BY <2>1, <2>2, WorkerFacts DEF QueueTypes, InOrder
  <2>4. Parts(b, J, G) /\ tasks'[w] = Entries(b, J)
    BY <1>3, <2>2, <2>3
  <2>5. /\ End(v, p, a, Entries(b, J)) = End(v, p, a, b)
        /\ Order(v, p, a, b) => Order(v, p, a, Entries(b, J))
    BY <2>3, <2>4, BusinessRemoved
  <2> QED
    BY <1>1, <2>1, <2>2, <2>3, <2>4, <2>5 DEF Known
<1> QED
  BY <1>3, <1>4, <1>5 DEF Queues, InOrder

\* The head of a pending queue is sent.
LEMMA Retried ==
    ASSUME QueueTypes, Queues, InOrder, NEW w \in Workers, tasks[w] # <<>>, Send(w, Head(tasks[w])),
           tasks' = [tasks EXCEPT ![w] = Tail(@)], stats' = [stats EXCEPT ![w] = Account(@, Head(tasks[w]), -1)],
           UNCHANGED <<view, conns>>
    PROVE  QueueTypes' /\ Queues' /\ InOrder' /\ \A p \in Players : Known(p)' = Known(p)
<1>1. view' = view /\ conns' = conns
  OBVIOUS
<1>2. PICK a, b, h, t, r : a = inbox[w] /\ b = tasks[w] /\ h = Head(tasks[w]) /\ t = Tail(tasks[w]) /\ r = stats[w]
  OBVIOUS
<1>3. a \in Seq(Received) /\ b \in Seq(Messages) /\ b # <<>> /\ r \in Stats
  BY <1>2 DEF QueueTypes
<1>4. Home(w, a) /\ Home(w, b) /\ Counts(b, r) /\ Alive(conns, b)
  BY <1>2 DEF Queues, QueueAt
<1>5. t \in Seq(Messages) /\ h \in Messages /\ Home(w, t) /\ Alive(conns, t) /\ (h.kind # "other" => WorkerOf[h.data.player] = w)
  BY <1>2, <1>3, <1>4, TailKeeps
<1>6. Counts(t, Account(r, h, -1)) /\ Account(r, h, -1) \in Stats
  BY <1>2, <1>3, <1>4, CountsHead
<1>7. h \in Received
  BY <1>5 DEF Received
<1>8. Append(a, h) \in Seq(Received) /\ Home(w, Append(a, h))
  BY <1>3, <1>4, <1>5, <1>7, HomeMore, AppendProperties
<1>9. /\ inbox' = [inbox EXCEPT ![w] = Append(a, h)]
      /\ tasks' = [tasks EXCEPT ![w] = t] /\ stats' = [stats EXCEPT ![w] = Account(r, h, -1)]
  BY <1>2 DEF Send
<1>10. \A v \in Workers : /\ inbox'[v] = IF v = w THEN Append(a, h) ELSE inbox[v]
                          /\ tasks'[v] = IF v = w THEN t ELSE tasks[v]
                          /\ stats'[v] = IF v = w THEN Account(r, h, -1) ELSE stats[v]
  BY <1>9 DEF QueueTypes
<1>11. QueueTypes'
  BY <1>5, <1>6, <1>8, <1>9 DEF QueueTypes
<1>12. ASSUME NEW v \in Workers PROVE QueueAt(v)'
  <2>1. QueueAt(v)
    BY DEF Queues
  <2>2. CASE v = w
    BY <1>1, <1>5, <1>6, <1>8, <1>10, <2>2 DEF QueueAt
  <2>3. CASE v # w
    BY <1>1, <1>10, <2>1, <2>3 DEF QueueAt
  <2> QED
    BY <2>2, <2>3
<1>13. ASSUME NEW p \in Players PROVE Known(p)' = Known(p) /\ Order(view[p], p, inbox[WorkerOf[p]], tasks[WorkerOf[p]])'
  <2>1. Order(view[p], p, inbox[WorkerOf[p]], tasks[WorkerOf[p]])
    BY DEF InOrder
  <2>2. CASE WorkerOf[p] = w
    <3>1. PICK v : v = view[p]
      OBVIOUS
    <3>2. Order(v, p, a, b)
      BY <1>2, <2>1, <2>2, <3>1
    <3>3. /\ End(v, p, Append(a, h), t) = End(v, p, a, b)
          /\ Order(v, p, a, b) => Order(v, p, Append(a, h), t)
      BY <1>2, <1>3, HeadSent
    <3>4. inbox'[w] = Append(a, h) /\ tasks'[w] = t /\ view'[p] = v
      BY <1>1, <1>10, <3>1
    <3> QED
      BY <1>2, <2>2, <3>1, <3>2, <3>3, <3>4 DEF Known
  <2>3. CASE WorkerOf[p] # w
    <3>1. tasks'[WorkerOf[p]] = tasks[WorkerOf[p]] /\ inbox'[WorkerOf[p]] = inbox[WorkerOf[p]]
      BY <1>10, <2>3, WorkerFacts
    <3> QED
      BY <1>1, <2>1, <3>1 DEF Known
  <2> QED
    BY <2>2, <2>3
<1> QED
  BY <1>11, <1>12, <1>13 DEF Queues, InOrder

\* A worker takes a message, and its view follows.
LEMMA Popped ==
    ASSUME QueueTypes, ViewTypes, Queues, InOrder, NEW w \in Workers, WorkerPop(w)
    PROVE  /\ QueueTypes' /\ ViewTypes' /\ Queues' /\ InOrder'
           /\ \A p \in Players : Known(p)' = Known(p) /\ Rises(view[p], view'[p])
<1>1. PICK a, h, t : a = inbox[w] /\ h = Head(inbox[w]) /\ t = Tail(inbox[w])
  OBVIOUS
<1>2. /\ a # <<>> /\ inbox' = [inbox EXCEPT ![w] = t]
      /\ view' = IF Lifecycle(h) THEN [view EXCEPT ![h.data.player] = Told(h)] ELSE view
      /\ tasks' = tasks /\ stats' = stats /\ conns' = conns
  BY <1>1 DEF WorkerPop, pending, links
<1>3. a \in Seq(Received) /\ Home(w, a)
  BY <1>1 DEF QueueTypes, Queues, QueueAt
<1>4. t \in Seq(Received) /\ h \in Received /\ Home(w, t) /\ (h.kind # "other" => WorkerOf[h.data.player] = w)
  BY <1>1, <1>2, <1>3, TailKeeps
<1>5. Lifecycle(h) => h \in Messages /\ h.kind # "other" /\ h.data.player \in Players /\ Told(h) \in Views
  <2>1. Lifecycle(h) => h \in Messages
    BY <1>4, OtherFacts DEF Received
  <2> QED
    BY <2>1, MessageFacts, ToldView
<1>6. ASSUME NEW p \in Players
      PROVE  view'[p] = Hears(view[p], p, h) /\ (WorkerOf[p] # w => view'[p] = view[p])
  <2>1. CASE Lifecycle(h)
    <3>1. view'[p] = IF p = h.data.player THEN Told(h) ELSE view[p]
      BY <1>2, <1>5, <2>1 DEF ViewTypes
    <3>2. Mine(p, h) <=> p = h.data.player
      BY <1>5, <2>1 DEF Mine
    <3> QED
      BY <1>4, <1>5, <2>1, <3>1, <3>2 DEF Hears
  <2>2. CASE ~Lifecycle(h)
    BY <1>2, <2>2 DEF Hears
  <2> QED
    BY <2>1, <2>2
<1>7. ViewTypes'
  BY <1>2, <1>5 DEF ViewTypes
<1>8. \A v \in Workers : inbox'[v] = IF v = w THEN t ELSE inbox[v]
  BY <1>2 DEF QueueTypes
<1>9. QueueTypes'
  BY <1>2, <1>4 DEF QueueTypes
<1>10. ASSUME NEW v \in Workers PROVE QueueAt(v)'
  <2>1. QueueAt(v)
    BY DEF Queues
  <2>2. Home(v, inbox'[v])
    BY <1>4, <1>8, <2>1 DEF QueueAt
  <2> QED
    BY <1>2, <2>1, <2>2 DEF QueueAt
<1>11. ASSUME NEW p \in Players
       PROVE  /\ Known(p)' = Known(p) /\ Order(view[p], p, inbox[WorkerOf[p]], tasks[WorkerOf[p]])'
              /\ Rises(view[p], view'[p])
  <2>1. Order(view[p], p, inbox[WorkerOf[p]], tasks[WorkerOf[p]])
    BY DEF InOrder
  <2>2. CASE WorkerOf[p] = w
    <3>1. PICK v, b : v = view[p] /\ b = tasks[w]
      OBVIOUS
    <3>2. Order(v, p, a, b)
      BY <1>1, <2>1, <2>2, <3>1
    <3>3. /\ End(Hears(v, p, h), p, t, b) = End(v, p, a, b)
          /\ Order(v, p, a, b) => Order(Hears(v, p, h), p, t, b) /\ (Mine(p, h) => Fits(v, h))
      BY <1>1, <1>2, <1>3, HeadHeard
    <3>4. inbox'[w] = t /\ tasks'[w] = b /\ view'[p] = Hears(v, p, h)
      BY <1>2, <1>6, <1>8, <3>1
    <3>5. Rises(v, Hears(v, p, h))
      BY <3>2, <3>3 DEF Hears, Fits, Rises
    <3> QED
      BY <1>1, <2>2, <3>1, <3>2, <3>3, <3>4, <3>5 DEF Known
  <2>3. CASE WorkerOf[p] # w
    <3>1. tasks'[WorkerOf[p]] = tasks[WorkerOf[p]] /\ inbox'[WorkerOf[p]] = inbox[WorkerOf[p]] /\ view'[p] = view[p]
      BY <1>2, <1>6, <1>8, <2>3, WorkerFacts
    <3> QED
      BY <2>1, <3>1 DEF Known, Rises
  <2> QED
    BY <2>2, <2>3
<1> QED
  BY <1>7, <1>9, <1>10, <1>11 DEF Queues, InOrder

\* Bindings are not NoData and belong to players.
LEMMA BindingFacts == \A d \in Bindings : d # NoData /\ d.epoch > NoData.epoch /\ d.player \in Players
<1> SUFFICES ASSUME NEW d \in Bindings PROVE d # NoData /\ d.epoch > NoData.epoch /\ d.player \in Players
  OBVIOUS
<1>1. d.epoch \in Nat \ {0} /\ d.player \in Players
  BY BindingsAssumption DEF ClientData
<1>2. NoData.epoch = 0
  BY DEF NoData
<1> QED
  BY <1>1, <1>2

\* The messages waiting do not move; the index, and who leaves, stay.
LEMMA EndsSame ==
    ASSUME EndsKnown, \A p \in Players : Known(p)' = Known(p), UNCHANGED index,
           UNCHANGED closing \/ (closing.offline = {} /\ closing'.offline = {})
    PROVE  EndsKnown'
<1> SUFFICES ASSUME NEW p \in Players
             PROVE  /\ Known(p)'.data = index.latest[p]
                    /\ Known(p)'.online = (index.route[p] # 0 \/ Leaving(p)')
                    /\ index.route[p] # 0 => Known(p)'.session = index.route[p]
                    /\ Leaving(p)' => Known(p)'.session = closing'.session
  BY DEF EndsKnown
<1>1. Leaving(p)' = Leaving(p) /\ (Leaving(p)' => closing' = closing)
  BY DEF Leaving
<1> QED
  BY <1>1 DEF EndsKnown

\* Bindings that leave stay the latest of their players.
LEMMA ClosingSame ==
    ASSUME ClosingInv, UNCHANGED <<index, conns>>, UNCHANGED closing \/ closing'.offline = {}
    PROVE  ClosingInv'
  BY DEF ClosingInv

\* The index stays consistent while it and the connections stay.
LEMMA IndexSame ==
    ASSUME IndexInv, UNCHANGED index, conns \subseteq conns'
    PROVE  IndexInv'
  BY DEF IndexInv, IndexConsistent

\* A reply may close its connection; nothing leaves yet.
LEMMA Replied ==
    ASSUME LinkTypes, NEW c \in conns, Reply(c)
    PROVE  ClosingTypes' /\ closing'.offline = {}
  BY SessionFacts DEF Reply, NotClosing, ClosingTypes

\* Between handlers nobody is leaving.
LEMMA AtRestFacts == NetInv /\ AtRest => closing.session = 0 /\ closing.offline = {} /\ \A p : ~Leaving(p)
  BY DEF NetInv, AtRest, ClosingInv, Leaving

-----------------------------------------------------------------------------
(* Connections and frames.                                                 *)

\* acceptNewConn and connectTo keep the invariant.
LEMMA OpenStep == ASSUME NetInv, NEW g \in Gateways \cup {0}, OpenConn(g) PROVE NetInv'
<1> USE DEF NetInv, Types
<1>1. /\ UNCHANGED <<index, pending, cursor, pump, closing, others, view>>
      /\ conns' = conns \cup {nextSession} /\ nextSession' = nextSession + 1 /\ nextSession <= MaxSession
      /\ gatewayOf' = [gatewayOf EXCEPT ![nextSession] = g]
  BY DEF OpenConn
<1>2. PICK w \in Workers : Send(w, Other) \/ UNCHANGED inbox
  BY DEF OpenConn, SendOrDrop
<1>3. QueueTypes' /\ Queues' /\ InOrder' /\ \A p \in Players : Known(p)' = Known(p)
  BY <1>1, <1>2, Passed
<1>4. LinkTypes'
  <2>1. MaxSession \in Nat /\ nextSession \in Sessions
    BY <1>1, LimitsAssumption DEF LinkTypes, Sessions
  <2> QED
    BY <1>1, <2>1 DEF LinkTypes
<1>5. Types'
  BY <1>1, <1>3, <1>4 DEF IndexTypes, PumpTypes, ClosingTypes, ViewTypes
<1>6. IndexInv'
  BY <1>1, IndexSame
<1>7. closing.session = 0 /\ closing.offline = {}
  BY AtRestFacts DEF OpenConn
<1>8. ClosingInv'
  BY <1>1, <1>7 DEF ClosingInv
<1>9. EndsKnown'
  BY <1>1, <1>3, EndsSame
<1> QED
  BY <1>3, <1>5, <1>6, <1>8, <1>9

\* A handler that sends nothing.
LEMMA QuietStep ==
    ASSUME NetInv, UNCHANGED <<conns, nextSession, index, pending, inbox, view>>,
           gatewayOf' \in [Sessions -> Gateways \cup {0}], PumpTypes', ClosingTypes',
           UNCHANGED closing \/ (closing.offline = {} /\ closing'.offline = {})
    PROVE  NetInv'
<1> USE DEF NetInv, Types
<1>1. PICK w \in Workers : TRUE
  BY WorkersAssumption DEF Workers
<1>2. QueueTypes' /\ Queues' /\ InOrder' /\ \A p \in Players : Known(p)' = Known(p)
  BY <1>1, Passed
<1>3. Types'
  BY <1>2 DEF LinkTypes, IndexTypes, ViewTypes
<1>4. IndexInv' /\ ClosingInv' /\ EndsKnown'
  BY <1>2, IndexSame, ClosingSame, EndsSame
<1> QED
  BY <1>2, <1>3, <1>4

\* A refused envelope keeps it.
LEMMA RejectStep == ASSUME NetInv, NEW c \in conns, RejectFrame(c) PROVE NetInv'
<1>1. UNCHANGED <<links, index, pending, cursor, pump, inbox, others, view>> /\ Reply(c)
  BY DEF RejectFrame
<1>2. closing.offline = {}
  BY AtRestFacts DEF RejectFrame
<1>3. ClosingTypes' /\ closing'.offline = {}
  BY <1>1, Replied DEF NetInv, Types
<1>4. gatewayOf' \in [Sessions -> Gateways \cup {0}] /\ PumpTypes'
  BY <1>1 DEF NetInv, Types, LinkTypes, PumpTypes, links
<1> QED
  BY <1>1, <1>2, <1>3, <1>4, QuietStep DEF links

\* A connection that starts to close keeps it.
LEMMA DisconnectStep == ASSUME NetInv, NEW c \in conns, Disconnect(c) PROVE NetInv'
<1>1. /\ UNCHANGED <<links, index, pending, cursor, pump, inbox, others, view>>
      /\ closing' = [session |-> c, offline |-> {}]
  BY DEF Disconnect
<1>2. closing.offline = {}
  BY AtRestFacts DEF Disconnect
<1>3. ClosingTypes' /\ closing'.offline = {}
  BY <1>1, SessionFacts DEF NetInv, Types, ClosingTypes
<1>4. gatewayOf' \in [Sessions -> Gateways \cup {0}] /\ PumpTypes'
  BY <1>1 DEF NetInv, Types, LinkTypes, PumpTypes, links
<1> QED
  BY <1>1, <1>2, <1>3, <1>4, QuietStep DEF links

\* A message of another thread keeps it.
LEMMA OtherStep == ASSUME NetInv, NEW w \in Workers, OtherMessage(w) PROVE NetInv'
<1> USE DEF NetInv, Types
<1>1. /\ UNCHANGED <<links, index, pending, cursor, pump, closing, view>>
      /\ Send(w, Other) /\ others' = others + 1 /\ others < MaxOther
  BY DEF OtherMessage
<1>2. QueueTypes' /\ Queues' /\ InOrder' /\ \A p \in Players : Known(p)' = Known(p)
  BY <1>1, Passed DEF links
<1>3. others' \in 0..MaxOther
  BY <1>1, LimitsAssumption DEF PumpTypes
<1>4. Types'
  BY <1>1, <1>2, <1>3 DEF LinkTypes, IndexTypes, ViewTypes, PumpTypes, ClosingTypes, links
<1>5. IndexInv' /\ ClosingInv' /\ EndsKnown'
  BY <1>1, <1>2, IndexSame, ClosingSame, EndsSame DEF links
<1> QED
  BY <1>2, <1>4, <1>5

\* A worker that takes a message keeps it, and its view only rises.
LEMMA PopStep == ASSUME NetInv, NEW w \in Workers, WorkerPop(w) PROVE NetInv' /\ \A p \in Players : Rises(view[p], view'[p])
<1> USE DEF NetInv, Types
<1>1. UNCHANGED <<links, index, pending, cursor, pump, closing, others>>
  BY DEF WorkerPop
<1>2. /\ QueueTypes' /\ ViewTypes' /\ Queues' /\ InOrder'
      /\ \A p \in Players : Known(p)' = Known(p) /\ Rises(view[p], view'[p])
  BY Popped
<1>3. Types'
  BY <1>1, <1>2 DEF LinkTypes, IndexTypes, PumpTypes, ClosingTypes, links
<1>4. IndexInv' /\ ClosingInv' /\ EndsKnown'
  BY <1>1, <1>2, IndexSame, ClosingSame, EndsSame DEF links
<1> QED
  BY <1>2, <1>3, <1>4

-----------------------------------------------------------------------------
(* The index.                                                              *)

\* The three fields of the index.
LEMMA IndexFields ==
    ASSUME IndexTypes
    PROVE  /\ index = [latest |-> index.latest, route |-> index.route, byConn |-> index.byConn]
           /\ index.latest \in [Players -> Bindings \cup {NoData}]
           /\ index.route \in [Players -> Sessions \cup {0}]
           /\ index.byConn \in [Sessions -> SUBSET Bindings]
  BY DEF IndexTypes

\* What the index says when all agrees.
LEMMA Carried ==
    ASSUME IndexTypes, IndexInv
    PROVE  /\ \A c \in Sessions : \A d \in index.byConn[c] :
                  d \in Bindings /\ index.route[d.player] = c /\ index.latest[d.player] = d
           /\ \A p \in Players : index.route[p] # 0 =>
                  /\ index.route[p] \in Sessions /\ index.route[p] \in conns
                  /\ index.latest[p] \in index.byConn[index.route[p]]
                  /\ index.latest[p].player = p
<1>1. \A c \in Sessions : \A d \in index.byConn[c] :
          d \in Bindings /\ index.route[d.player] = c /\ index.latest[d.player] = d
  BY IndexFields DEF IndexInv, IndexConsistent
<1>2. ASSUME NEW p \in Players, index.route[p] # 0
      PROVE  /\ index.route[p] \in Sessions /\ index.route[p] \in conns
             /\ index.latest[p] \in index.byConn[index.route[p]]
             /\ index.latest[p].player = p
  <2>1. index.route[p] \in Sessions
    BY <1>2, IndexFields
  <2>2. index.route[p] \in conns /\ index.latest[p] \in index.byConn[index.route[p]]
    BY <1>2 DEF IndexInv, IndexConsistent
  <2>3. index.latest[p] \in Bindings
    BY <1>1, <2>1, <2>2
  <2>4. index.latest[p] # NoData
    BY <2>3, BindingFacts
  <2> QED
    BY <2>1, <2>2, <2>4 DEF IndexInv
<1> QED
  BY <1>1, <1>2

\* Bind keeps the index consistent.
LEMMA Bound ==
    ASSUME IndexTypes, IndexInv, LinkTypes, NEW c \in conns, NEW d \in Bindings, index' = Bind(index, c, d), UNCHANGED conns
    PROVE  /\ IndexTypes' /\ IndexInv'
           /\ \A p \in Players : /\ index'.latest[p] = IF p = d.player THEN d ELSE index.latest[p]
                                 /\ index'.route[p] = IF p = d.player THEN c ELSE index.route[p]
<1> DEFINE rest(y) == {b \in index.byConn[y] : b.player # d.player}
<1>1. c \in Sessions /\ d.player \in Players /\ d # NoData
  BY SessionFacts, BindingFacts
<1>2. /\ index'.latest = [index.latest EXCEPT ![d.player] = d]
      /\ index'.route = [index.route EXCEPT ![d.player] = c]
      /\ index'.byConn = [y \in Sessions |-> IF y = c THEN rest(y) \cup {d} ELSE rest(y)]
      /\ index' = [latest |-> index'.latest, route |-> index'.route, byConn |-> index'.byConn]
  <2>1. DOMAIN index.byConn = Sessions
    BY IndexFields
  <2> QED
    BY <2>1 DEF Bind
<1>3. \A p \in Players : /\ index'.latest[p] = IF p = d.player THEN d ELSE index.latest[p]
                         /\ index'.route[p] = IF p = d.player THEN c ELSE index.route[p]
  BY <1>1, <1>2, IndexFields
<1>4. \A y \in Sessions : /\ \A b \in index'.byConn[y] : (b \in index.byConn[y] /\ b.player # d.player) \/ (y = c /\ b = d)
                          /\ \A b \in index.byConn[y] : b.player # d.player => b \in index'.byConn[y]
  BY <1>2
<1>5. d \in index'.byConn[c]
  BY <1>1, <1>2
<1>6. IndexTypes'
  <2>1. index'.latest \in [Players -> Bindings \cup {NoData}] /\ index'.route \in [Players -> Sessions \cup {0}]
    BY <1>1, <1>2, IndexFields
  <2>2. \A y \in Sessions : rest(y) \subseteq Bindings
    BY IndexFields
  <2>3. index'.byConn \in [Sessions -> SUBSET Bindings]
    <3> HIDE DEF rest
    <3> QED BY <1>2, <2>2
  <2> QED
    BY <1>2, <2>1, <2>3 DEF IndexTypes
<1> HIDE DEF rest
<1>7. ASSUME NEW p \in Players, index'.route[p] # 0
      PROVE  index'.route[p] \in conns /\ index'.latest[p] \in index'.byConn[index'.route[p]]
  <2>1. CASE p = d.player
    BY <1>3, <1>5, <2>1
  <2>2. CASE p # d.player
    <3>1. index'.route[p] = index.route[p] /\ index'.latest[p] = index.latest[p]
      BY <1>3, <2>2
    <3>2. /\ index.route[p] \in Sessions /\ index.route[p] \in conns
          /\ index.latest[p] \in index.byConn[index.route[p]] /\ index.latest[p].player = p
      BY <1>7, <3>1, Carried
    <3>3. index.latest[p] \in index'.byConn[index.route[p]]
      BY <1>4, <2>2, <3>2
    <3> QED
      BY <3>1, <3>2, <3>3
  <2> QED
    BY <2>1, <2>2
<1>8. ASSUME NEW y \in Sessions, NEW b \in index'.byConn[y]
      PROVE  index'.route[b.player] = y /\ index'.latest[b.player] = b
  <2>1. CASE b \in index.byConn[y] /\ b.player # d.player
    <3>1. b \in Bindings /\ index.route[b.player] = y /\ index.latest[b.player] = b
      BY <2>1, Carried
    <3>2. b.player \in Players
      BY <3>1, BindingFacts
    <3> QED
      BY <1>3, <2>1, <3>1, <3>2
  <2>2. CASE y = c /\ b = d
    BY <1>1, <1>3, <2>2
  <2> QED
    BY <1>4, <2>1, <2>2
<1>9. \A p \in Players : index'.latest[p] # NoData => index'.latest[p].player = p
  BY <1>3 DEF IndexInv
<1> QED
  BY <1>3, <1>6, <1>7, <1>8, <1>9 DEF IndexInv, IndexConsistent

\* Unbind keeps the index consistent.
LEMMA Unbound ==
    ASSUME IndexTypes, IndexInv, NEW c \in Sessions, NEW d \in Bindings, Matches(index, c, d),
           index' = Unbind(index, c, d), UNCHANGED conns
    PROVE  /\ IndexTypes' /\ IndexInv' /\ index'.latest = index.latest
           /\ \A p \in Players : index'.route[p] = IF p = d.player THEN 0 ELSE index.route[p]
<1>1. d.player \in Players /\ d \in index.byConn[c]
  BY BindingFacts DEF Matches
<1>2. /\ index'.latest = index.latest
      /\ index'.route = [index.route EXCEPT ![d.player] = 0]
      /\ index'.byConn = [index.byConn EXCEPT ![c] = @ \ {d}]
  BY DEF Unbind, IndexTypes
<1>3. \A p \in Players : index'.route[p] = IF p = d.player THEN 0 ELSE index.route[p]
  BY <1>1, <1>2, IndexFields
<1>4. \A y \in Sessions : index'.byConn[y] = IF y = c THEN index.byConn[c] \ {d} ELSE index.byConn[y]
  BY <1>2, IndexFields
<1>5. IndexTypes'
  <2>1. [index.route EXCEPT ![d.player] = 0] \in [Players -> Sessions \cup {0}]
    BY IndexFields
  <2>2. [index.byConn EXCEPT ![c] = @ \ {d}] \in [Sessions -> SUBSET Bindings]
    BY IndexFields
  <2> QED
    BY <2>1, <2>2 DEF Unbind, IndexTypes
<1>6. ASSUME NEW p \in Players, index'.route[p] # 0
      PROVE  index'.route[p] \in conns /\ index'.latest[p] \in index'.byConn[index'.route[p]]
  <2>1. p # d.player /\ index'.route[p] = index.route[p]
    BY <1>3, <1>6
  <2>2. /\ index.route[p] \in Sessions /\ index.route[p] \in conns
        /\ index.latest[p] \in index.byConn[index.route[p]] /\ index.latest[p].player = p
    BY <1>6, <2>1, Carried
  <2>3. index.latest[p] # d
    BY <2>1, <2>2
  <2> QED
    BY <1>2, <1>4, <2>1, <2>2, <2>3
<1>7. ASSUME NEW y \in Sessions, NEW b \in index'.byConn[y]
      PROVE  index'.route[b.player] = y /\ index'.latest[b.player] = b
  <2>1. b \in index.byConn[y] /\ (y = c => b # d)
    BY <1>4
  <2>2. b \in Bindings /\ index.route[b.player] = y /\ index.latest[b.player] = b
    BY <2>1, Carried
  <2>3. index.route[d.player] = c /\ index.latest[d.player] = d
    BY <1>1, Carried
  <2>4. b.player \in Players /\ b.player # d.player
    BY <2>1, <2>2, <2>3, BindingFacts
  <2> QED
    BY <1>2, <1>3, <2>2, <2>4
<1>8. \A p \in Players : index'.latest[p] # NoData => index'.latest[p].player = p
  BY <1>2 DEF IndexInv
<1> QED
  BY <1>2, <1>3, <1>5, <1>6, <1>7, <1>8 DEF IndexInv, IndexConsistent

\* Close keeps the index consistent.
LEMMA Closed ==
    ASSUME IndexTypes, IndexInv, NEW c \in Sessions, index' = CloseIndex(index, c), conns' = conns \ {c}
    PROVE  /\ IndexTypes' /\ IndexInv' /\ index'.latest = index.latest
           /\ \A p \in Players : index'.route[p] = IF index.route[p] = c THEN 0 ELSE index.route[p]
           /\ \A p \in Players : (\E d \in index.byConn[c] : d.player = p) <=> index.route[p] = c
<1>1. \A p \in Players : (\E d \in index.byConn[c] : d.player = p) <=> index.route[p] = c
  <2> SUFFICES ASSUME NEW p \in Players PROVE (\E d \in index.byConn[c] : d.player = p) <=> index.route[p] = c
    OBVIOUS
  <2>1. c # 0
    BY DEF Sessions
  <2>2. (\E d \in index.byConn[c] : d.player = p) => index.route[p] = c
    BY Carried
  <2>3. index.route[p] = c => index.latest[p] \in index.byConn[c] /\ index.latest[p].player = p
    BY <2>1, Carried
  <2> QED
    BY <2>2, <2>3
<1>2. /\ index'.latest = index.latest
      /\ index'.route = [p \in Players |-> IF \E d \in index.byConn[c] : d.player = p THEN 0 ELSE index.route[p]]
      /\ index'.byConn = [index.byConn EXCEPT ![c] = {}]
  BY DEF CloseIndex, IndexTypes
<1>3. \A p \in Players : index'.route[p] = IF index.route[p] = c THEN 0 ELSE index.route[p]
  BY <1>1, <1>2
<1>4. \A y \in Sessions : index'.byConn[y] = IF y = c THEN {} ELSE index.byConn[y]
  BY <1>2, IndexFields
<1>5. IndexTypes'
  <2>1. index'.route \in [Players -> Sessions \cup {0}]
    BY <1>2, IndexFields
  <2>2. [index.byConn EXCEPT ![c] = {}] \in [Sessions -> SUBSET Bindings]
    BY IndexFields
  <2>3. index' = [[index EXCEPT !.byConn = [index.byConn EXCEPT ![c] = {}]] EXCEPT !.route = index'.route]
    BY <1>2 DEF CloseIndex, IndexTypes
  <2>4. [index EXCEPT !.byConn = [index.byConn EXCEPT ![c] = {}]]
           \in [latest : [Players -> Bindings \cup {NoData}], route : [Players -> Sessions \cup {0}],
                byConn : [Sessions -> SUBSET Bindings]]
    BY <2>2 DEF IndexTypes
  <2> QED
    BY <2>1, <2>3, <2>4 DEF IndexTypes
<1>6. ASSUME NEW p \in Players, index'.route[p] # 0
      PROVE  index'.route[p] \in conns' /\ index'.latest[p] \in index'.byConn[index'.route[p]]
  <2>1. index.route[p] # c /\ index'.route[p] = index.route[p]
    BY <1>3, <1>6
  <2>2. /\ index.route[p] \in Sessions /\ index.route[p] \in conns
        /\ index.latest[p] \in index.byConn[index.route[p]]
    BY <1>6, <2>1, Carried
  <2> QED
    BY <1>2, <1>4, <2>1, <2>2
<1>7. ASSUME NEW y \in Sessions, NEW b \in index'.byConn[y]
      PROVE  index'.route[b.player] = y /\ index'.latest[b.player] = b
  <2>1. b \in index.byConn[y] /\ y # c
    BY <1>4
  <2>2. b \in Bindings /\ index.route[b.player] = y /\ index.latest[b.player] = b
    BY <2>1, Carried
  <2>3. b.player \in Players
    BY <2>2, BindingFacts
  <2> QED
    BY <1>2, <1>3, <2>1, <2>2, <2>3
<1>8. \A p \in Players : index'.latest[p] # NoData => index'.latest[p].player = p
  BY <1>2 DEF IndexInv
<1> QED
  BY <1>1, <1>2, <1>3, <1>5, <1>6, <1>7, <1>8 DEF IndexInv, IndexConsistent

-----------------------------------------------------------------------------
(* Frames of players.                                                      *)

\* A view that goes offline.
LEMMA ViewExcept ==
    ASSUME NEW D, NEW S, NEW O, NEW k \in [data : D, session : S, online : O], NEW f
    PROVE  [k EXCEPT !.online = f] = [data |-> k.data, session |-> k.session, online |-> f]
  OBVIOUS

\* What an offline message says of what was known.
LEMMA WentOffline ==
    ASSUME NEW k \in Views, NEW t, k.online, t = [data |-> k.data, session |-> k.session, online |-> FALSE]
    PROVE  Rises(k, t)
<1>1. PICK f : f = FALSE
  OBVIOUS
<1>2. [k EXCEPT !.online = f] = [data |-> k.data, session |-> k.session, online |-> f]
  BY ViewExcept DEF Views
<1>3. t = [k EXCEPT !.online = FALSE]
  BY <1>1, <1>2, Zenon
<1> QED
  BY <1>3, Zenon DEF Rises

Accepted(kind, c, d) == IF kind = "online" THEN Bindable(index, c, d) ELSE Matches(index, c, d)

\* What the index accepts fits what the player's worker will know.
LEMMA FrameFits ==
    ASSUME NetInv, AtRest, NEW c \in conns, NEW d \in Bindings, NEW m \in Messages, m.data = d, m.session = c,
           Accepted(m.kind, c, d)
    PROVE  Fits(Known(d.player), m)
<1> USE DEF NetInv, Types
<1>1. PICK p, k : p = d.player /\ k = Known(p)
  OBVIOUS
<1>2. p \in Players /\ c \in Sessions /\ c # 0
  BY <1>1, BindingFacts, SessionFacts
<1>3. k \in Views
  BY <1>1, <1>2, KnownView
<1>4. k = [data |-> k.data, session |-> k.session, online |-> k.online] /\ k.online \in BOOLEAN
  BY <1>3 DEF Views
<1>5. k.data = index.latest[p] /\ k.online = (index.route[p] # 0) /\ (index.route[p] # 0 => k.session = index.route[p])
  BY <1>1, <1>2, AtRestFacts DEF EndsKnown
<1>6. Told(m) = [data |-> d, session |-> c, online |-> m.kind = "online"]
  BY DEF Told
<1>7. CASE m.kind = "online"
  <2>1. Lifecycle(m)
    BY <1>7 DEF Lifecycle
  <2>2. Told(m) = [data |-> d, session |-> c, online |-> TRUE]
    BY <1>6, <1>7
  <2>3. CASE k.data = NoData
    BY <2>1, <2>2, <2>3, BindingFacts, <1>1 DEF Fits, Rises
  <2>4. CASE d.epoch > k.data.epoch
    BY <2>1, <2>2, <2>4, <1>1 DEF Fits, Rises
  <2>5. CASE k.data = d /\ index.route[p] = c
    <3>1. k = [data |-> d, session |-> c, online |-> TRUE]
      BY <1>2, <1>4, <1>5, <2>5
    <3> QED
      BY <1>1, <2>1, <2>2, <3>1 DEF Fits, Rises
  <2>6. k.data = NoData \/ d.epoch > k.data.epoch \/ (k.data = d /\ index.route[p] = c)
    BY <1>1, <1>5, <1>7 DEF Accepted, Bindable
  <2> QED
    BY <2>3, <2>4, <2>5, <2>6
<1>8. CASE m.kind # "online"
  <2>1. index.route[p] = c /\ index.latest[p] = d
    BY <1>1, <1>2, <1>8, Carried DEF Accepted, Matches
  <2>2. k = [data |-> d, session |-> c, online |-> TRUE]
    BY <1>2, <1>4, <1>5, <2>1
  <2>3. k.online /\ k.data = d /\ k.session = c
    BY <2>2
  <2>4. Told(m) = [data |-> k.data, session |-> k.session, online |-> FALSE]
    BY <1>8, <2>3 DEF Told
  <2>5. Rises(k, Told(m))
    BY <1>3, <2>3, <2>4, WentOffline
  <2> QED
    BY <1>1, <2>3, <2>5 DEF Fits
<1> QED
  BY <1>7, <1>8

\* A frame of a player that onFrame reads keeps the invariant.
LEMMA FrameStep ==
    ASSUME NetInv, NEW c \in conns, NEW kind \in {"online", "offline", "business"}, NEW d \in Bindings, NEW size,
           Message(kind, d, c, size) \in Messages, OnFrame(c, kind, d, size)
    PROVE  NetInv'
<1> USE DEF NetInv, Types
<1> DEFINE m == Message(kind, d, c, size)
           p == d.player
<1>1. /\ AtRest /\ gatewayOf' = [gatewayOf EXCEPT ![c] = d.gateway]
      /\ UNCHANGED <<conns, nextSession, cursor, pump, others, view>>
  BY DEF OnFrame
<1>2. gatewayOf' \in [Sessions -> Gateways \cup {0}] /\ PumpTypes'
  <2>1. d.gateway \in Gateways
    BY BindingsAssumption DEF ClientData
  <2> QED
    BY <1>1, <2>1 DEF LinkTypes, PumpTypes
<1>3. closing.session = 0 /\ closing.offline = {} /\ \A q : ~Leaving(q)
  BY <1>1, AtRestFacts
<1>4. c \in Sessions /\ c # 0 /\ p \in Players /\ d # NoData
  BY SessionFacts, BindingFacts
<1>5. CASE ~Accepted(kind, c, d)
  <2>1. UNCHANGED <<index, pending, inbox, closing>>
    BY <1>5 DEF OnFrame, Accepted
  <2> QED
    BY <1>1, <1>2, <2>1, QuietStep DEF ClosingTypes
<1>6. CASE Accepted(kind, c, d)
  <2>1. /\ Submit(m)
        /\ IF Admission(WorkerOf[d.player], m) = "busy" THEN Reply(c) ELSE UNCHANGED closing
        /\ index' = CASE kind = "online" -> Bind(index, c, d)
                      [] kind = "offline" -> Unbind(index, c, d)
                      [] OTHER -> index
    BY <1>6, Zenon DEF OnFrame, Accepted
  <2>2. m.kind = kind /\ m.data = d /\ m.session = c /\ m.data.player = p
    BY DEF Message
  <2> HIDE DEF m
  <2>3. m \in Messages
    BY DEF m
  <2>4. Fits(Known(p), m)
    BY <1>1, <1>6, <2>2, <2>3, FrameFits
  <2>5. /\ QueueTypes' /\ Queues' /\ InOrder'
        /\ \A q \in Players : Known(q)' = Hears(Known(q), q, m)
    BY <1>1, <2>1, <2>2, <2>3, <2>4, Submitted
  <2>6. ClosingTypes' /\ closing'.offline = {} /\ \A q : ~Leaving(q)'
    <3>1. Reply(c) \/ UNCHANGED closing
      BY <2>1
    <3>2. ClosingTypes' /\ closing'.offline = {}
      BY <1>3, <3>1, Replied DEF ClosingTypes
    <3> QED
      BY <3>2 DEF Leaving
  <2>7. ClosingInv'
    BY <2>6 DEF ClosingInv
  <2>8. LinkTypes' /\ ViewTypes'
    BY <1>1, <1>2 DEF LinkTypes, ViewTypes
  <2>9. \A q \in Players : Mine(q, m) <=> q = p
    BY <2>2, <2>3, MineFacts
  <2>10. CASE kind = "online"
    <3>1. index' = Bind(index, c, d)
      BY <2>1, <2>10
    <3>2. /\ IndexTypes' /\ IndexInv'
          /\ \A q \in Players : /\ index'.latest[q] = IF q = d.player THEN d ELSE index.latest[q]
                                /\ index'.route[q] = IF q = d.player THEN c ELSE index.route[q]
      BY <1>1, <3>1, Bound
    <3>3. \A q \in Players : Known(q)' = IF q = p THEN Told(m) ELSE Known(q)
      BY <2>2, <2>5, <2>9, <2>10 DEF Hears, Lifecycle
    <3>4. Told(m) = [data |-> d, session |-> c, online |-> TRUE]
      BY <2>2, <2>10 DEF Told
    <3>5. EndsKnown'
      <4> SUFFICES ASSUME NEW q \in Players
                   PROVE  /\ Known(q)'.data = index'.latest[q]
                          /\ Known(q)'.online = (index'.route[q] # 0)
                          /\ index'.route[q] # 0 => Known(q)'.session = index'.route[q]
        BY <2>6 DEF EndsKnown
      <4>1. CASE q = p
        <5>1. Known(q)'.data = d /\ Known(q)'.session = c /\ Known(q)'.online = TRUE
          <6>1. Known(q)' = Told(m)
            BY <3>3, <4>1
          <6> QED
            BY <3>4, <6>1
        <5>2. index'.latest[q] = d /\ index'.route[q] = c
          BY <3>2, <4>1
        <5> QED
          BY <1>4, <5>1, <5>2
      <4>2. CASE q # p
        <5>1. /\ Known(q).data = index.latest[q] /\ Known(q).online = (index.route[q] # 0)
              /\ index.route[q] # 0 => Known(q).session = index.route[q]
          BY <1>3 DEF EndsKnown
        <5> QED
          BY <3>2, <3>3, <4>2, <5>1
      <4> QED
        BY <4>1, <4>2
    <3> QED
      BY <1>2, <2>5, <2>6, <2>7, <2>8, <3>2, <3>5
  <2>11. CASE kind = "offline"
    <3>1. index' = Unbind(index, c, d) /\ Matches(index, c, d)
      BY <1>6, <2>1, <2>11 DEF Accepted
    <3>2. /\ IndexTypes' /\ IndexInv' /\ index'.latest = index.latest
          /\ \A q \in Players : index'.route[q] = IF q = d.player THEN 0 ELSE index.route[q]
      BY <1>1, <1>4, <3>1, Unbound
    <3>3. \A q \in Players : Known(q)' = IF q = p THEN Told(m) ELSE Known(q)
      BY <2>2, <2>5, <2>9, <2>11 DEF Hears, Lifecycle
    <3>4. Told(m) = [data |-> d, session |-> c, online |-> FALSE]
      BY <2>2, <2>11 DEF Told
    <3>5. index.latest[p] = d
      BY <1>4, <3>1, Carried DEF Matches
    <3>6. EndsKnown'
      <4> SUFFICES ASSUME NEW q \in Players
                   PROVE  /\ Known(q)'.data = index'.latest[q]
                          /\ Known(q)'.online = (index'.route[q] # 0)
                          /\ index'.route[q] # 0 => Known(q)'.session = index'.route[q]
        BY <2>6 DEF EndsKnown
      <4>1. CASE q = p
        <5>1. Known(q)'.data = d /\ Known(q)'.session = c /\ Known(q)'.online = FALSE
          <6>1. Known(q)' = Told(m)
            BY <3>3, <4>1
          <6> QED
            BY <3>4, <6>1
        <5>2. index'.latest[q] = d /\ index'.route[q] = 0
          BY <3>2, <3>5, <4>1
        <5> QED
          BY <5>1, <5>2
      <4>2. CASE q # p
        <5>1. /\ Known(q).data = index.latest[q] /\ Known(q).online = (index.route[q] # 0)
              /\ index.route[q] # 0 => Known(q).session = index.route[q]
          BY <1>3 DEF EndsKnown
        <5> QED
          BY <3>2, <3>3, <4>2, <5>1
      <4> QED
        BY <4>1, <4>2
    <3> QED
      BY <1>2, <2>5, <2>6, <2>7, <2>8, <3>2, <3>6
  <2>12. CASE kind = "business"
    <3>1. index' = index
      BY <2>1, <2>12
    <3>2. \A q \in Players : Known(q)' = Known(q)
      BY <2>2, <2>5, <2>12 DEF Hears, Lifecycle
    <3>3. IndexTypes' /\ IndexInv' /\ EndsKnown'
      BY <1>1, <1>3, <2>6, <3>1, <3>2, IndexSame, EndsSame DEF IndexTypes
    <3> QED
      BY <1>2, <2>5, <2>6, <2>7, <2>8, <3>3
  <2> QED
    BY <2>10, <2>11, <2>12
<1> QED
  BY <1>5, <1>6

\* So does every frame.
LEMMA FramesStep == ASSUME NetInv, Frame PROVE NetInv'
<1>1. PICK c \in conns, d \in Bindings :
          \/ OnFrame(c, "online", d, 0)
          \/ OnFrame(c, "offline", d, 0)
          \/ \E b \in Sizes : OnFrame(c, "business", d, b)
  BY DEF Frame
<1>2. c \in Sessions
  BY SessionFacts DEF NetInv, Types
<1>3. CASE OnFrame(c, "online", d, 0)
  BY <1>2, <1>3, FrameStep, MessageMade
<1>4. CASE OnFrame(c, "offline", d, 0)
  BY <1>2, <1>4, FrameStep, MessageMade
<1>5. CASE \E b \in Sizes : OnFrame(c, "business", d, b)
  BY <1>2, <1>5, FrameStep, MessageMade
<1> QED
  BY <1>1, <1>3, <1>4, <1>5

-----------------------------------------------------------------------------
(* handleClose.                                                            *)

\* The first half of handleClose keeps the invariant.
LEMMA CloseConnStep == ASSUME NetInv, CloseConn PROVE NetInv'
<1> USE DEF NetInv, Types
<1> DEFINE c == closing.session
           drop == [w \in Workers |-> {i \in DOMAIN tasks[w] : tasks[w][i].session = c}]
<1>1. /\ c \in conns /\ conns' = conns \ {c} /\ RemoveBusiness(drop)
      /\ closing' = [closing EXCEPT !.offline = index.byConn[c]]
      /\ index' = CloseIndex(index, c)
      /\ UNCHANGED <<nextSession, gatewayOf, cursor, pump, inbox, others, view>>
  BY Zenon DEF CloseConn
<1>2. c \in Sessions /\ c # 0 /\ closing.offline = {}
  BY <1>1, SessionFacts DEF ClosingInv
<1>3. \A w \in Workers : \A i \in DOMAIN tasks[w] :
          i \notin drop[w] /\ tasks[w][i].kind = "business" => tasks[w][i].session \in conns'
  <2> SUFFICES ASSUME NEW w \in Workers, NEW i \in DOMAIN tasks[w], i \notin drop[w], tasks[w][i].kind = "business"
               PROVE  tasks[w][i].session \in conns'
    OBVIOUS
  <2>1. tasks[w] \in Seq(Messages) /\ Alive(conns, tasks[w])
    BY DEF QueueTypes, Queues, QueueAt
  <2>2. i \in 1..Len(tasks[w])
    BY <2>1
  <2>3. tasks[w][i].session \in conns
    BY <2>1, <2>2 DEF Alive
  <2> QED
    BY <1>1, <2>3
<1>4. QueueTypes' /\ Queues' /\ InOrder' /\ \A p \in Players : Known(p)' = Known(p)
  <2> HIDE DEF drop
  <2> QED
    BY <1>1, <1>3, Removed
<1>5. /\ IndexTypes' /\ IndexInv' /\ index'.latest = index.latest
      /\ \A p \in Players : index'.route[p] = IF index.route[p] = c THEN 0 ELSE index.route[p]
      /\ \A p \in Players : (\E d \in index.byConn[c] : d.player = p) <=> index.route[p] = c
  BY <1>1, <1>2, Closed
<1>6. index.byConn[c] \subseteq Bindings
  BY <1>2, IndexFields
<1>7. ClosingTypes' /\ closing'.session = c /\ closing'.offline = index.byConn[c]
  BY <1>1, <1>6 DEF ClosingTypes
<1>8. LinkTypes' /\ PumpTypes' /\ ViewTypes'
  BY <1>1 DEF LinkTypes, PumpTypes, ViewTypes
<1>9. \A p \in Players : ~Leaving(p) /\ (Leaving(p)' <=> index.route[p] = c)
  BY <1>2, <1>5, <1>7 DEF Leaving
<1>10. ClosingInv'
  <2>1. closing'.session # 0 /\ closing'.session \notin conns'
    BY <1>1, <1>2, <1>7
  <2>2. ASSUME NEW d \in closing'.offline PROVE index'.latest[d.player] = d /\ index'.route[d.player] = 0
    <3>1. d \in index.byConn[c] /\ d \in Bindings
      BY <1>6, <1>7, <2>2
    <3>2. d.player \in Players /\ index.route[d.player] = c /\ index.latest[d.player] = d
      BY <1>2, <3>1, BindingFacts, Carried
    <3> QED
      BY <1>5, <3>2
  <2> QED
    BY <2>1, <2>2 DEF ClosingInv
<1>11. EndsKnown'
  <2> SUFFICES ASSUME NEW p \in Players
               PROVE  /\ Known(p)'.data = index'.latest[p]
                      /\ Known(p)'.online = (index'.route[p] # 0 \/ Leaving(p)')
                      /\ index'.route[p] # 0 => Known(p)'.session = index'.route[p]
                      /\ Leaving(p)' => Known(p)'.session = closing'.session
    BY DEF EndsKnown
  <2>1. /\ Known(p).data = index.latest[p] /\ Known(p).online = (index.route[p] # 0)
        /\ index.route[p] # 0 => Known(p).session = index.route[p]
    BY <1>9 DEF EndsKnown
  <2> QED
    BY <1>2, <1>4, <1>5, <1>7, <1>9, <2>1
<1> QED
  BY <1>4, <1>5, <1>7, <1>8, <1>10, <1>11

\* An OFFLINE of handleClose keeps it.
LEMMA CloseBindingStep == ASSUME NetInv, NEW d \in closing.offline, CloseBinding(d) PROVE NetInv'
<1> USE DEF NetInv, Types
<1> DEFINE c == closing.session
           p == d.player
<1>1. PICK m : m = Message("offline", d, c, 0)
  OBVIOUS
<1>2. /\ c \notin conns /\ Submit(m) /\ closing' = [closing EXCEPT !.offline = @ \ {d}]
      /\ UNCHANGED <<links, index, cursor, pump, others, view>>
  BY <1>1 DEF CloseBinding
<1>3. c \in Sessions /\ d \in Bindings /\ closing.offline \subseteq Bindings
  BY DEF ClosingTypes, ClosingInv
<1>4. p \in Players /\ index.latest[p] = d /\ index.route[p] = 0 /\ Leaving(p)
  BY <1>3, BindingFacts DEF ClosingInv, Leaving
<1>5. m \in Messages /\ m.kind = "offline" /\ m.data = d /\ m.session = c /\ m.data.player = p /\ Lifecycle(m)
  BY <1>1, <1>3, MessageMade DEF Message, Lifecycle
<1>6. Told(m) = [data |-> d, session |-> c, online |-> FALSE]
  BY <1>5 DEF Told
<1>7. Fits(Known(p), m)
  <2>1. PICK k : k = Known(p)
    OBVIOUS
  <2>2. k \in Views
    BY <1>4, <2>1, KnownView
  <2>3. k = [data |-> k.data, session |-> k.session, online |-> k.online] /\ k.online \in BOOLEAN
    BY <2>2 DEF Views
  <2>4. k.data = d /\ k.online = TRUE /\ k.session = c
    BY <1>4, <2>1 DEF EndsKnown
  <2>5. Told(m) = [data |-> k.data, session |-> k.session, online |-> FALSE]
    BY <1>6, <2>4
  <2>6. Rises(k, Told(m))
    BY <2>2, <2>4, <2>5, WentOffline
  <2> QED
    BY <1>5, <2>1, <2>6 DEF Fits
<1>8. /\ QueueTypes' /\ Queues' /\ InOrder'
      /\ \A q \in Players : Known(q)' = Hears(Known(q), q, m)
  BY <1>2, <1>5, <1>7, Submitted DEF links
<1>9. \A q \in Players : Known(q)' = IF q = p THEN Told(m) ELSE Known(q)
  BY <1>5, <1>8, MineFacts DEF Hears
<1>10. ClosingTypes' /\ closing'.session = c /\ closing'.offline = closing.offline \ {d}
  BY <1>2 DEF ClosingTypes
<1>11. LinkTypes' /\ IndexTypes' /\ PumpTypes' /\ ViewTypes'
  BY <1>2 DEF LinkTypes, IndexTypes, PumpTypes, ViewTypes, links
<1>12. IndexInv'
  BY <1>2, IndexSame DEF links
<1>13. ClosingInv'
  BY <1>2, <1>10 DEF ClosingInv, links
<1>14. \A q \in Players : Leaving(q)' <=> q # p /\ Leaving(q)
  <2>1. \A e \in closing.offline : e.player = p => e = d
    BY <1>4 DEF ClosingInv
  <2> QED
    BY <1>10, <2>1 DEF Leaving
<1>15. EndsKnown'
  <2> SUFFICES ASSUME NEW q \in Players
               PROVE  /\ Known(q)'.data = index'.latest[q]
                      /\ Known(q)'.online = (index'.route[q] # 0 \/ Leaving(q)')
                      /\ index'.route[q] # 0 => Known(q)'.session = index'.route[q]
                      /\ Leaving(q)' => Known(q)'.session = closing'.session
    BY DEF EndsKnown
  <2>1. CASE q = p
    <3>1. Known(q)'.data = d /\ Known(q)'.session = c /\ Known(q)'.online = FALSE
      <4>1. Known(q)' = Told(m)
        BY <1>9, <2>1
      <4> QED
        BY <1>6, <4>1
    <3>2. index'.latest[q] = d /\ index'.route[q] = 0 /\ ~Leaving(q)'
      BY <1>2, <1>4, <1>14, <2>1
    <3> QED
      BY <3>1, <3>2
  <2>2. CASE q # p
    <3>1. /\ Known(q).data = index.latest[q] /\ Known(q).online = (index.route[q] # 0 \/ Leaving(q))
          /\ index.route[q] # 0 => Known(q).session = index.route[q]
          /\ Leaving(q) => Known(q).session = c
      BY DEF EndsKnown
    <3> QED
      BY <1>2, <1>9, <1>10, <1>14, <2>2, <3>1
  <2> QED
    BY <2>1, <2>2
<1> QED
  BY <1>8, <1>10, <1>11, <1>12, <1>13, <1>15

\* The end of handleClose keeps it.
LEMMA CloseDoneStep == ASSUME NetInv, CloseDone PROVE NetInv'
<1> USE DEF NetInv, Types
<1>1. /\ closing.offline = {} /\ closing' = NotClosing
      /\ UNCHANGED <<links, index, pending, cursor, pump, others, view>>
  BY DEF CloseDone
<1>2. PICK w \in Workers : Send(w, Other) \/ UNCHANGED inbox
  BY DEF CloseDone, SendOrDrop
<1>3. QueueTypes' /\ Queues' /\ InOrder' /\ \A p \in Players : Known(p)' = Known(p)
  BY <1>1, <1>2, Passed DEF links
<1>4. ClosingTypes' /\ closing'.offline = {}
  BY <1>1 DEF ClosingTypes, NotClosing
<1>5. Types'
  BY <1>1, <1>3, <1>4 DEF LinkTypes, IndexTypes, PumpTypes, ViewTypes, links
<1>6. IndexInv' /\ ClosingInv' /\ EndsKnown'
  BY <1>1, <1>3, <1>4, IndexSame, ClosingSame, EndsSame DEF links
<1> QED
  BY <1>3, <1>5, <1>6

-----------------------------------------------------------------------------
(* retryClientNotifications.                                               *)

\* The cursor stays a worker.
LEMMA StepFacts == PumpTypes => Step(cursor) \in Workers
<1>1. NumWorkers \in Nat \ {0} /\ \A k \in Nat : k % NumWorkers \in 0..(NumWorkers - 1)
  BY WorkersAssumption
<1>2. PumpTypes => cursor + 1 \in Nat
  BY <1>1 DEF PumpTypes, Workers
<1> QED
  BY <1>1, <1>2 DEF Step, Workers

\* The scan of retryClientNotifications keeps the invariant.
LEMMA PumpScanStep == ASSUME NetInv, PumpScan PROVE NetInv'
<1> USE DEF NetInv, Types
<1> DEFINE dead(cut) == [w \in Workers |-> {i \in DOMAIN tasks[w] : i <= cut[w] \/ ~Valid(tasks[w][i])}]
<1>1. /\ cursor' = Step(cursor)
      /\ UNCHANGED <<links, index, closing, inbox, others, view>>
  BY DEF PumpScan
<1>2. PICK cut : /\ RemoveBusiness(dead(cut))
                 /\ \E r : pump' = [Idle EXCEPT !.at = "send", !.worker = cursor, !.rejected = r]
  BY DEF PumpScan
<1>3. \A w \in Workers : \A i \in DOMAIN tasks[w] :
          i \notin dead(cut)[w] /\ tasks[w][i].kind = "business" => tasks[w][i].session \in conns'
  BY <1>1 DEF Valid, links
<1>4. QueueTypes' /\ Queues' /\ InOrder' /\ \A p \in Players : Known(p)' = Known(p)
  <2>1. PICK drop : drop = dead(cut)
    OBVIOUS
  <2>2. RemoveBusiness(drop) /\ \A w \in Workers : \A i \in DOMAIN tasks[w] :
          i \notin drop[w] /\ tasks[w][i].kind = "business" => tasks[w][i].session \in conns'
    BY <1>2, <1>3, <2>1
  <2> QED
    BY <1>1, <2>2, Removed
<1>5. PumpTypes'
  <2>1. {"at", "worker"} \subseteq DOMAIN pump' /\ pump'.at = "send" /\ pump'.worker = cursor
    BY <1>2 DEF Idle
  <2> QED
    BY <1>1, <2>1, StepFacts DEF PumpTypes
<1>6. Types'
  BY <1>1, <1>4, <1>5 DEF LinkTypes, IndexTypes, ClosingTypes, ViewTypes, links
<1>7. IndexInv' /\ ClosingInv' /\ EndsKnown'
  BY <1>1, <1>4, IndexSame, ClosingSame, EndsSame DEF links
<1> QED
  BY <1>4, <1>6, <1>7

\* A task it sends keeps it.
LEMMA PumpSendStep == ASSUME NetInv, PumpSend PROVE NetInv'
<1> USE DEF NetInv, Types
<1>1. PICK w : w = pump.worker
  OBVIOUS
<1>2. /\ tasks[w] # <<>> /\ Send(w, Head(tasks[w]))
      /\ tasks' = [tasks EXCEPT ![w] = Tail(@)] /\ stats' = [stats EXCEPT ![w] = Account(@, Head(tasks[w]), -1)]
      /\ pump' = [pump EXCEPT !.tried = @ + 1, !.total = @ + 1]
      /\ UNCHANGED <<links, index, cursor, closing, others, view>>
  BY <1>1 DEF PumpSend
<1>3. w \in Workers
  BY <1>1 DEF PumpTypes
<1>4. QueueTypes' /\ Queues' /\ InOrder' /\ \A p \in Players : Known(p)' = Known(p)
  BY <1>2, <1>3, Retried DEF links
<1>5. PumpTypes'
  BY <1>2 DEF PumpTypes
<1>6. Types'
  BY <1>2, <1>4, <1>5 DEF LinkTypes, IndexTypes, ClosingTypes, ViewTypes, links
<1>7. IndexInv' /\ ClosingInv' /\ EndsKnown'
  BY <1>2, <1>4, IndexSame, ClosingSame, EndsSame DEF links
<1> QED
  BY <1>4, <1>6, <1>7

\* Leaving a worker keeps it.
LEMMA PumpLeaveStep == ASSUME NetInv, PumpLeave PROVE NetInv'
<1> USE DEF NetInv, Types
<1>1. UNCHANGED <<links, index, pending, closing, inbox, others, view>>
  BY DEF PumpLeave
<1>2. PICK total : NextWorker(total)
  BY DEF PumpLeave
<1>3. /\ {"at", "worker"} \subseteq DOMAIN pump' /\ pump'.at \in {"idle", "send", "reply"} /\ pump'.worker \in Workers
      /\ cursor' \in Workers
  <2>1. CASE pump' = [pump EXCEPT !.worker = cursor, !.n = @ + 1, !.tried = 0, !.total = total] /\ cursor' = Step(cursor)
    BY <2>1, StepFacts DEF PumpTypes
  <2>2. CASE pump' = [Idle EXCEPT !.at = "reply", !.rejected = pump.rejected] /\ cursor' = cursor
    <3>1. 0 \in Workers
      BY WorkersAssumption DEF Workers
    <3> QED
      BY <2>2, <3>1 DEF PumpTypes, Idle
  <2> QED
    BY <1>2, <2>1, <2>2 DEF NextWorker
<1>4. PumpTypes'
  BY <1>1, <1>3 DEF PumpTypes
<1> QED
  BY <1>1, <1>4, QuietStep DEF links, LinkTypes, ClosingTypes

\* An answer to a rejected task keeps it.
LEMMA PumpReplyStep == ASSUME NetInv, PumpReply PROVE NetInv'
<1> USE DEF NetInv, Types
<1>1. UNCHANGED <<links, index, pending, cursor, inbox, others, view>> /\ closing.session = 0
  BY DEF PumpReply
<1>2. closing.offline = {}
  BY <1>1 DEF ClosingInv
<1>3. PumpTypes'
  <2>1. pump' = Idle \/ pump' = [pump EXCEPT !.rejected = Tail(@)]
    BY DEF PumpReply
  <2>2. 0 \in Workers
    BY WorkersAssumption DEF Workers
  <2> QED
    BY <1>1, <2>1, <2>2 DEF PumpTypes, Idle
<1>4. ClosingTypes' /\ (UNCHANGED closing \/ closing'.offline = {})
  <2>1. UNCHANGED closing \/ \E c \in conns : Reply(c)
    BY DEF PumpReply, Valid
  <2> QED
    BY <2>1, Replied DEF ClosingTypes
<1> QED
  BY <1>1, <1>2, <1>3, <1>4, QuietStep DEF links, LinkTypes

-----------------------------------------------------------------------------
(* The invariant holds.                                                    *)

\* The network thread starts in the invariant.
LEMMA NetInit == Init => NetInv
<1> SUFFICES ASSUME Init PROVE NetInv
  OBVIOUS
<1>1. /\ conns = {} /\ nextSession = 1 /\ gatewayOf = [c \in Sessions |-> 0]
      /\ index = EmptyIndex(Players, Sessions)
      /\ tasks = [w \in Workers |-> <<>>] /\ stats = [w \in Workers |-> NoStats]
      /\ cursor = 0 /\ pump = Idle /\ closing = NotClosing
      /\ inbox = [w \in Workers |-> <<>>] /\ others = 0
      /\ view = [p \in Players |-> [data |-> NoData, session |-> 0, online |-> FALSE]]
  BY DEF Init
<1>2. LinkTypes
  <2>1. MaxSession \in Nat
    BY LimitsAssumption
  <2> QED
    BY <1>1, <2>1 DEF LinkTypes
<1>3. /\ index.latest = [p \in Players |-> NoData] /\ index.route = [p \in Players |-> 0]
      /\ index.byConn = [c \in Sessions |-> {}]
  BY <1>1 DEF EmptyIndex
<1>4. IndexTypes
  BY <1>1 DEF IndexTypes, EmptyIndex
<1>5. QueueTypes
  <2>1. <<>> \in Seq(Messages) /\ <<>> \in Seq(Received)
    OBVIOUS
  <2> QED
    BY <1>1, <2>1, CountsNothing DEF QueueTypes
<1>6. PumpTypes
  <2>1. 0 \in Workers /\ MaxOther \in Nat
    BY WorkersAssumption, LimitsAssumption DEF Workers
  <2> QED
    BY <1>1, <2>1 DEF PumpTypes, Idle
<1>7. ClosingTypes /\ closing.offline = {}
  BY <1>1 DEF ClosingTypes, NotClosing
<1>8. ViewTypes
  <2>1. [data |-> NoData, session |-> 0, online |-> FALSE] \in Views
    BY DEF Views
  <2> QED
    BY <1>1, <2>1 DEF ViewTypes
<1>9. Queues
  <2>1. \A i \in 1..Len(<<>>) : FALSE
    OBVIOUS
  <2>2. \A w : Home(w, <<>>) /\ Alive(conns, <<>>)
    BY <2>1 DEF Home, Alive
  <2> QED
    BY <1>1, <2>2, CountsNothing DEF Queues, QueueAt
<1>10. ASSUME NEW p \in Players
       PROVE  /\ Order(view[p], p, inbox[WorkerOf[p]], tasks[WorkerOf[p]])
              /\ Known(p) = [data |-> NoData, session |-> 0, online |-> FALSE]
  <2>1. inbox[WorkerOf[p]] = <<>> /\ tasks[WorkerOf[p]] = <<>>
    BY <1>1, WorkerFacts
  <2>2. view[p] = [data |-> NoData, session |-> 0, online |-> FALSE]
    BY <1>1
  <2>3. Order(view[p], p, <<>>, <<>>) /\ End(view[p], p, <<>>, <<>>) = view[p]
    BY AfterNothing DEF Order, End
  <2> QED
    BY <2>1, <2>2, <2>3 DEF Known
<1>11. IndexInv
  BY <1>3 DEF IndexInv, IndexConsistent
<1>12. ClosingInv
  BY <1>7 DEF ClosingInv
<1>13. EndsKnown
  <2> SUFFICES ASSUME NEW p \in Players
               PROVE  /\ Known(p).data = index.latest[p]
                      /\ Known(p).online = (index.route[p] # 0 \/ Leaving(p))
                      /\ index.route[p] # 0 => Known(p).session = index.route[p]
                      /\ Leaving(p) => Known(p).session = closing.session
    BY DEF EndsKnown
  <2>1. Known(p).data = NoData /\ Known(p).online = FALSE
    BY <1>10
  <2>2. ~Leaving(p) /\ index.route[p] = 0 /\ index.latest[p] = NoData
    BY <1>3, <1>7 DEF Leaving
  <2> QED
    BY <2>1, <2>2
<1> QED
  BY <1>2, <1>4, <1>5, <1>6, <1>7, <1>8, <1>9, <1>10, <1>11, <1>12, <1>13 DEF NetInv, Types, InOrder

\* Every step keeps it.
LEMMA NetNext == NetInv /\ [Next]_vars => NetInv'
<1> SUFFICES ASSUME NetInv, [Next]_vars PROVE NetInv'
  OBVIOUS
<1>1. CASE UNCHANGED vars
  BY <1>1, QuietStep DEF vars, links, pending, NetInv, Types, LinkTypes, PumpTypes, ClosingTypes
<1>2. CASE \E g \in Gateways \cup {0} : OpenConn(g)
  BY <1>2, OpenStep
<1>3. CASE \E c \in conns : RejectFrame(c) \/ Disconnect(c)
  BY <1>3, RejectStep, DisconnectStep
<1>4. CASE Frame
  BY <1>4, FramesStep
<1>5. CASE \E w \in Workers : OtherMessage(w) \/ WorkerPop(w)
  BY <1>5, OtherStep, PopStep
<1>6. CASE Closing
  BY <1>6, CloseConnStep, CloseBindingStep, CloseDoneStep DEF Closing
<1>7. CASE PumpScan
  BY <1>7, PumpScanStep
<1>8. CASE Pumping
  BY <1>8, PumpSendStep, PumpLeaveStep, PumpReplyStep DEF Pumping
<1>9. CASE Quiescent
  BY <1>1, <1>9 DEF Quiescent
<1> QED
  BY <1>1, <1>2, <1>3, <1>4, <1>5, <1>6, <1>7, <1>8, <1>9 DEF Next

\* It always holds.
LEMMA NetAlways == Spec => []NetInv
<1> QED
  BY NetInit, NetNext, PTL DEF Spec

-----------------------------------------------------------------------------
(* What it means for the properties of the runs.                           *)

\* It implies the invariant of the runs.
LEMMA NetAdmissionInv == NetInv => AdmissionInv
<1> SUFFICES ASSUME NetInv PROVE AdmissionInv
  OBVIOUS
<1> USE DEF NetInv, Types
<1>1. TypeOK
  <2>1. ASSUME NEW w \in Workers PROVE Range(tasks[w]) \subseteq Messages /\ Range(inbox[w]) \subseteq Messages \cup {Other}
    <3>1. PICK a, b : a = inbox[w] /\ b = tasks[w]
      OBVIOUS
    <3>2. a \in Seq(Received) /\ b \in Seq(Messages)
      BY <3>1 DEF QueueTypes
    <3>3. Range(a) \subseteq Received /\ Range(b) \subseteq Messages
      BY <3>2 DEF Range
    <3> QED
      BY <3>1, <3>3 DEF Received
  <2> QED
    BY <2>1, IndexFields DEF TypeOK, LinkTypes, QueueTypes, PumpTypes, ClosingTypes, Stats
<1>2. AccountingExact
  <2>1. ASSUME NEW w \in Workers PROVE Counts(tasks[w], stats[w])
    BY DEF Queues, QueueAt
  <2> QED
    BY <2>1 DEF AccountingExact, Counts, Load, Weight
<1>3. BusinessBounded
  BY DEF BusinessBounded, Queues, QueueAt, Counts
<1>4. NoOrphanBusiness
  <2> SUFFICES ASSUME NEW w \in Workers, NEW m \in Range(tasks[w]), m.kind = "business" PROVE m.session \in conns
    BY DEF NoOrphanBusiness
  <2>1. Alive(conns, tasks[w]) /\ tasks[w] \in Seq(Messages)
    BY DEF Queues, QueueAt, QueueTypes
  <2>2. PICK i \in 1..Len(tasks[w]) : tasks[w][i] = m
    BY <2>1 DEF Range
  <2> QED
    BY <2>1, <2>2 DEF Alive
<1> QED
  BY <1>1, <1>2, <1>3, <1>4 DEF AdmissionInv, IndexInv

\* The pipeline of p is the two queues one after the other.
LEMMA PipelineFacts ==
    ASSUME NetInv, NEW p \in Players
    PROVE  /\ Pipeline(p) \in Seq(Received)
           /\ After(view[p], p, Pipeline(p)) = Known(p)
           /\ Follows(view[p], p, Pipeline(p))
<1>1. PICK a, b, v : a = inbox[WorkerOf[p]] /\ b = tasks[WorkerOf[p]] /\ v = view[p]
  OBVIOUS
<1>2. a \in Seq(Received) /\ b \in Seq(Messages) /\ Order(v, p, a, b)
  BY <1>1, WorkerFacts DEF NetInv, Types, QueueTypes, InOrder
<1>3. b \in Seq(Received)
  BY <1>2 DEF Received
<1>4. Pipeline(p) = Cat(a, b)
  BY <1>1 DEF Pipeline, Cat
<1>5. Cat(a, b) \in Seq(Received)
  BY <1>2, <1>3, ConcatProperties DEF Cat
<1>6. /\ After(v, p, Cat(a, b)) = After(After(v, p, a), p, b)
      /\ Follows(v, p, Cat(a, b)) <=> Follows(v, p, a) /\ Follows(After(v, p, a), p, b)
  BY <1>2, <1>3, AfterBoth
<1> QED
  BY <1>1, <1>2, <1>4, <1>5, <1>6 DEF Known, End, Order

\* ViewAfter of the runs is what has been heard of the pipeline.
LEMMA ViewAfterHeard == \A p, k : ViewAfter(p, k) = Heard(view[p], p, Pipeline(p), k)
  BY DEF ViewAfter, Heard

\* It implies that the workers converge.
LEMMA NetConverges == NetInv => ViewConverges
<1> SUFFICES ASSUME NetInv, NEW p \in Players
             PROVE  /\ ViewAfter(p, Len(Pipeline(p))).data = index.latest[p]
                    /\ ViewAfter(p, Len(Pipeline(p))).online = (index.route[p] # 0 \/ \E d \in closing.offline : d.player = p)
                    /\ index.route[p] # 0 => ViewAfter(p, Len(Pipeline(p))).session = index.route[p]
  BY DEF ViewConverges
<1>1. ViewAfter(p, Len(Pipeline(p))) = Known(p)
  BY ViewAfterHeard, PipelineFacts DEF After
<1>2. /\ Known(p).data = index.latest[p]
      /\ Known(p).online = (index.route[p] # 0 \/ Leaving(p))
      /\ index.route[p] # 0 => Known(p).session = index.route[p]
  BY DEF NetInv, EndsKnown
<1> QED
  BY <1>1, <1>2 DEF Leaving

\* It implies that business is inside its binding.
LEMMA NetInside == NetInv => BusinessInsideBinding
<1> SUFFICES ASSUME NetInv, NEW p \in Players, NEW k \in DOMAIN Pipeline(p),
                    Mine(p, Pipeline(p)[k]), ~Lifecycle(Pipeline(p)[k])
             PROVE  /\ ViewAfter(p, k).online /\ ViewAfter(p, k).data = Pipeline(p)[k].data
                    /\ ViewAfter(p, k).session = Pipeline(p)[k].session
  BY DEF BusinessInsideBinding
<1>1. PICK s, v : s = Pipeline(p) /\ v = view[p]
  OBVIOUS
<1>2. s \in Seq(Received) /\ Follows(v, p, s) /\ k \in 1..Len(s) /\ Mine(p, s[k]) /\ ~Lifecycle(s[k])
  BY <1>1, PipelineFacts
<1>3. k - 1 \in Nat /\ (k - 1) + 1 = k
  BY <1>2
<1>4. Fits(Heard(v, p, s, k - 1), s[k])
  BY <1>2 DEF Follows
<1>5. Heard(v, p, s, k) = Hears(Heard(v, p, s, k - 1), p, s[k])
  <2>1. PICK j : j = k - 1
    OBVIOUS
  <2>2. Heard(v, p, s, j + 1) = Hears(Heard(v, p, s, j), p, s[j + 1])
    BY <1>3, <2>1, HeardMore
  <2> QED
    BY <1>3, <2>1, <2>2
<1>6. Heard(v, p, s, k) = Heard(v, p, s, k - 1)
  BY <1>2, <1>5 DEF Hears
<1>7. ViewAfter(p, k) = Heard(v, p, s, k)
  BY <1>1, ViewAfterHeard
<1> QED
  BY <1>1, <1>2, <1>4, <1>6, <1>7 DEF Fits

\* A step raises what the worker knows, or leaves it.
LEMMA NetRises ==
    ASSUME NetInv, [Next]_vars
    PROVE  \A p \in Players : Rises(view[p], view'[p])
<1>1. CASE \E w \in Workers : WorkerPop(w)
  BY <1>1, PopStep
<1>2. CASE ~ \E w \in Workers : WorkerPop(w)
  <2>1. view' = view
    <3>1. CASE Frame
      BY <3>1 DEF Frame, OnFrame
    <3>2. CASE Closing
      BY <3>2 DEF Closing, CloseConn, CloseBinding, CloseDone
    <3>3. CASE PumpScan \/ Pumping
      BY <3>3 DEF PumpScan, Pumping, PumpSend, PumpLeave, PumpReply
    <3>4. CASE (\E g \in Gateways \cup {0} : OpenConn(g)) \/ (\E c \in conns : RejectFrame(c) \/ Disconnect(c))
      BY <3>4 DEF OpenConn, RejectFrame, Disconnect
    <3>5. CASE (\E w \in Workers : OtherMessage(w)) \/ Quiescent \/ UNCHANGED vars
      BY <3>5 DEF OtherMessage, Quiescent, vars
    <3> QED
      BY <1>2, <3>1, <3>2, <3>3, <3>4, <3>5 DEF Next
  <2> QED
    BY <2>1 DEF Rises
<1> QED
  BY <1>1, <1>2

\* The books of the network thread always agree: the counters that
\* WorkerPendingTasks admits by are what is in its queues and stay within the
\* limits, the two directions of GatewayClientIndex agree, and no business
\* waits of a connection that handleClose has closed.
THEOREM AdmissionSafe == Spec => []AdmissionInv
<1> QED
  BY NetAlways, NetAdmissionInv, PTL

\* No ONLINE or OFFLINE is lost or overtaken between onFrame or handleClose
\* and the worker, through refusals, expiry, cancellation and retries: when a
\* worker has taken what is on its way it knows what the client index says.
THEOREM WorkersConverge == Spec => []ViewConverges
<1> QED
  BY NetAlways, NetConverges, PTL

\* A business task that submit admitted reaches its worker between the ONLINE
\* and the OFFLINE of the binding it came under, whatever is retried, expires
\* or is cancelled before it.
THEOREM BusinessInside == Spec => []BusinessInsideBinding
<1> QED
  BY NetAlways, NetInside, PTL

\* What a worker is told of a player never goes back: GatewayClientIndex::Bind
\* takes only newer epochs, and a binding that went offline is not revived by
\* a message that waited longer.
THEOREM BindingsNeverRevived == Spec => NeverRevived
<1>1. NetInv /\ [Next]_vars =>
        [\A p \in Players :
           LET old == view[p]
               new == view'[p]
           IN \/ new.data.epoch > old.data.epoch
              \/ new = old
              \/ old.online /\ new = [old EXCEPT !.online = FALSE]]_vars
  BY NetRises DEF Rises
<1> QED
  BY <1>1, NetAlways, PTL DEF Spec, NeverRevived
=============================================================================
