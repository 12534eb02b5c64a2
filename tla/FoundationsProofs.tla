------------------------- MODULE FoundationsProofs -------------------------
(***************************************************************************)
(* Proofs about the small machines the servers stand on, for any constants *)
(* that meet the assumptions named: the logger's buffers, the byte buffer  *)
(* of the connections, the gateway's timer queue, the scene's timer wheel, *)
(* a connection of the gateway, and the chat and global services.          *)
(***************************************************************************)
EXTENDS TimerWheel, TimerQueue, TcpConnection, AsyncLogger, ServiceApp,
        SequencesExt, FiniteSetTheorems, SequenceTheorems, WellFoundedInduction, TLAPS

-----------------------------------------------------------------------------
(* Induction, and sequences put together.                                  *)

\* Induction on the naturals, for a set.
LEMMA NatSetInduction ==
    ASSUME NEW T \in SUBSET Nat, 0 \in T, \A n \in T : n + 1 \in T
    PROVE  T = Nat
<1> SUFFICES ASSUME Nat \ T # {} PROVE FALSE
  OBVIOUS
<1> DEFINE R == OpToRel(<, Nat)
<1>1. IsWellFoundedOn(R, Nat)
  BY NatLessThanWellFounded
<1>2. PICK x \in Nat \ T : \A y \in Nat \ T : ~ (<<y, x>> \in R)
  <2> HIDE DEF R
  <2> QED BY <1>1, WFMin
<1>3. \A y \in Nat : y < x => <<y, x>> \in R
  BY DEF OpToRel
<1> HIDE DEF R
<1>4. x # 0 /\ x - 1 \in Nat /\ (x - 1) + 1 = x /\ x - 1 < x
  OBVIOUS
<1>5. x - 1 \notin Nat \ T
  BY <1>2, <1>3, <1>4
<1> QED
  BY <1>2, <1>4, <1>5

\* The least member of a set of numbers.
LEMMA LeastNumber ==
    ASSUME NEW S \in SUBSET Nat, S # {}
    PROVE  \E x \in S : \A y \in S : x <= y
<1> DEFINE R == OpToRel(<, Nat)
<1>1. IsWellFoundedOn(R, Nat)
  BY NatLessThanWellFounded
<1>2. PICK x \in S : \A y \in S : ~ (<<y, x>> \in R)
  <2> HIDE DEF R
  <2> QED BY <1>1, WFMin
<1>3. \A y \in Nat : y < x => <<y, x>> \in R
  BY DEF OpToRel
<1> HIDE DEF R
<1>4. ASSUME NEW y \in S PROVE x <= y
  <2>1. x \in Nat /\ y \in Nat /\ ~ (y < x)
    BY <1>2, <1>3
  <2> QED
    BY <2>1
<1> QED
  BY <1>4

\* Concatenation.
Cat(a, b) == a \o b

LEMMA CatFacts ==
    ASSUME NEW X
    PROVE  /\ \A a, b \in Seq(X) : Cat(a, b) \in Seq(X)
           /\ \A a, b, c \in Seq(X) : Cat(Cat(a, b), c) = Cat(a, Cat(b, c))
           /\ \A a \in Seq(X) : Cat(a, <<>>) = a /\ Cat(<<>>, a) = a
           /\ Cat(<<>>, <<>>) = <<>>
<1>1. \A a, b \in Seq(X) : Cat(a, b) \in Seq(X)
  BY ConcatProperties DEF Cat
<1>2. \A a, b, c \in Seq(X) : Cat(Cat(a, b), c) = Cat(a, Cat(b, c))
  BY ConcatAssociative DEF Cat
<1>3. \A a \in Seq(X) : Cat(a, <<>>) = a /\ Cat(<<>>, a) = a
  BY ConcatEmptySeq DEF Cat
<1>4. <<>> \in Seq(X)
  OBVIOUS
<1> QED
  BY <1>1, <1>2, <1>3, <1>4

\* g holds the concatenations of the first 1, 2, ... n members of s.
Concats(s, g, n) ==
    /\ n >= 1 => g[1] = s[1]
    /\ \A i \in 2..n : g[i] = Cat(g[i - 1], s[i])

\* The function FlattenSeq recurs with.
Recurs(s, g, n) == g = [i \in 1..n |-> IF i = 1 THEN s[i] ELSE Cat(g[i - 1], s[i])]

LEMMA RecursConcats ==
    ASSUME NEW s, NEW g, NEW n \in Nat, Recurs(s, g, n)
    PROVE  Concats(s, g, n)
<1> DEFINE f == [j \in 1..n |-> IF j = 1 THEN s[j] ELSE Cat(g[j - 1], s[j])]
<1>1. g = f
  BY DEF Recurs
<1>2. n >= 1 => f[1] = s[1]
  OBVIOUS
<1>3. ASSUME NEW i \in 2..n PROVE f[i] = Cat(g[i - 1], s[i])
  <2>1. i \in 1..n /\ i # 1
    OBVIOUS
  <2> QED
    BY <2>1
<1> HIDE DEF f
<1> QED
  BY <1>1, <1>2, <1>3 DEF Concats

LEMMA ConcatsRecur ==
    ASSUME NEW X, NEW s, NEW n \in Nat, NEW g \in [1..n -> X], Concats(s, g, n)
    PROVE  Recurs(s, g, n)
<1> DEFINE f == [j \in 1..n |-> IF j = 1 THEN s[j] ELSE Cat(g[j - 1], s[j])]
<1>1. ASSUME NEW i \in 1..n PROVE f[i] = g[i]
  <2>1. CASE i = 1
    BY <2>1 DEF Concats
  <2>2. CASE i # 1
    <3>1. i \in 2..n
      BY <2>2
    <3>2. f[i] = Cat(g[i - 1], s[i])
      BY <2>2
    <3> HIDE DEF f
    <3> QED
      BY <3>1, <3>2 DEF Concats
  <2> QED
    BY <2>1, <2>2
<1>2. DOMAIN f = 1..n /\ f = [i \in 1..n |-> f[i]] /\ g = [i \in 1..n |-> g[i]]
  OBVIOUS
<1> HIDE DEF f
<1>3. f = g
  BY <1>1, <1>2
<1> QED
  BY <1>3 DEF Recurs, f

\* They exist ...
LEMMA ConcatsExist ==
    ASSUME NEW X, NEW s \in Seq(Seq(X)), NEW m \in Nat, m <= Len(s)
    PROVE  \E g \in [1..m -> Seq(X)] : Concats(s, g, m)
<1> DEFINE Good(n) == n <= Len(s) => \E g \in [1..n -> Seq(X)] : Concats(s, g, n)
           T == {n \in Nat : Good(n)}
<1>1. 0 \in T
  <2>1. [i \in 1..0 |-> <<>>] \in [1..0 -> Seq(X)]
    OBVIOUS
  <2>2. Concats(s, [i \in 1..0 |-> <<>>], 0)
    BY DEF Concats
  <2> QED
    BY <2>1, <2>2
<1>2. ASSUME NEW n \in T PROVE n + 1 \in T
  <2> SUFFICES ASSUME n + 1 <= Len(s)
               PROVE \E h \in [1..(n + 1) -> Seq(X)] : Concats(s, h, n + 1)
    OBVIOUS
  <2>1. n \in Nat /\ n <= Len(s) /\ Good(n) /\ Len(s) \in Nat
    OBVIOUS
  <2>2. PICK g \in [1..n -> Seq(X)] : Concats(s, g, n)
    BY <2>1
  <2> HIDE DEF Good, T
  <2> DEFINE h == [i \in 1..(n + 1) |-> IF i <= n THEN g[i] ELSE IF n = 0 THEN s[1] ELSE Cat(g[n], s[n + 1])]
  <2>3. /\ n >= 1 => g[1] = s[1]
        /\ \A i \in 2..n : g[i] = Cat(g[i - 1], s[i])
    BY <2>1, <2>2 DEF Concats
  <2>4. \A i \in 1..(n + 1) : s[i] \in Seq(X) /\ h[i] \in Seq(X)
    <3>1. \A i \in 1..(n + 1) : s[i] \in Seq(X)
      BY <2>1, ElementOfSeq
    <3>2. n # 0 => Cat(g[n], s[n + 1]) \in Seq(X)
      <4>1. \A a, b \in Seq(X) : Cat(a, b) \in Seq(X)
        BY CatFacts
      <4>2. n # 0 => n \in 1..n /\ n + 1 \in 1..(n + 1)
        BY <2>1
      <4> QED
        BY <3>1, <4>1, <4>2
    <3> QED
      BY <2>1, <3>1, <3>2
  <2>5. h[1] = s[1]
    BY <2>1, <2>3
  <2>6. ASSUME NEW i \in 2..(n + 1) PROVE h[i] = Cat(h[i - 1], s[i])
    <3>1. i \in 1..(n + 1) /\ i - 1 \in 1..n /\ i - 1 <= n /\ n # 0 /\ h[i - 1] = g[i - 1]
      BY <2>1
    <3>2. CASE i <= n
      <4>1. h[i] = g[i] /\ i \in 2..n
        BY <2>1, <3>2
      <4>2. g[i] = Cat(g[i - 1], s[i])
        BY <4>1, <2>3
      <4> HIDE DEF h
      <4> QED
        BY <4>1, <4>2, <3>1
    <3>3. CASE i = n + 1
      <4>1. ~ (n + 1 <= n) /\ (n + 1) - 1 = n
        BY <2>1
      <4>2. h[n + 1] = Cat(g[n], s[n + 1])
        <5>1. n + 1 \in 1..(n + 1) /\ n # 0
          BY <2>1, <3>1
        <5> QED
          BY <4>1, <5>1
      <4> HIDE DEF h
      <4> QED
        BY <4>1, <4>2, <3>1, <3>3
    <3> HIDE DEF h
    <3>4. i <= n \/ i = n + 1
      BY <2>1
    <3> QED
      BY <3>2, <3>3, <3>4
  <2>8. Concats(s, h, n + 1)
    <3> HIDE DEF h
    <3> QED BY <2>5, <2>6 DEF Concats
  <2>7. h \in [1..(n + 1) -> Seq(X)]
    BY <2>4
  <2> QED
    BY <2>7, <2>8
<1>3. T = Nat
  <2> HIDE DEF Good
  <2>1. T \in SUBSET Nat
    OBVIOUS
  <2> HIDE DEF T
  <2> QED BY <2>1, <1>1, <1>2, NatSetInduction
<1>4. Good(m)
  <2> HIDE DEF Good
  <2>1. m \in T
    BY <1>3
  <2> QED BY <2>1
<1> QED
  BY <1>4

\* ... and depend on those members only.
LEMMA ConcatsAgree ==
    ASSUME NEW s, NEW t, NEW g, NEW h, NEW n \in Nat, NEW m \in Nat, NEW k \in Nat,
           Concats(s, g, n), Concats(t, h, m), k <= n, k <= m, \A i \in 1..k : s[i] = t[i]
    PROVE  \A i \in 1..k : g[i] = h[i]
<1> DEFINE T == {j \in Nat : j \in 1..k => g[j] = h[j]}
<1>1. 0 \in T
  OBVIOUS
<1>2. ASSUME NEW j \in T PROVE j + 1 \in T
  <2>1. j \in Nat /\ (j \in 1..k => g[j] = h[j])
    OBVIOUS
  <2> SUFFICES ASSUME j + 1 \in 1..k PROVE g[j + 1] = h[j + 1]
    BY <2>1
  <2> HIDE DEF T
  <2>9. n >= 1 /\ m >= 1 /\ 1 \in 1..k /\ j + 1 <= n /\ j + 1 <= m
    BY <2>1
  <2>2. /\ g[1] = s[1]
        /\ \A i \in 2..n : g[i] = Cat(g[i - 1], s[i])
    BY <2>9, Zenon DEF Concats
  <2>3. /\ h[1] = t[1]
        /\ \A i \in 2..m : h[i] = Cat(h[i - 1], t[i])
    BY <2>9, Zenon DEF Concats
  <2>4. CASE j = 0
    <3>1. j + 1 = 1 /\ s[1] = t[1]
      BY <2>4, <2>9
    <3> QED
      BY <3>1, <2>2, <2>3
  <2>5. CASE j # 0
    <3>1. j \in 1..k /\ j + 1 \in 2..n /\ j + 1 \in 2..m /\ (j + 1) - 1 = j
      BY <2>1, <2>5, <2>9
    <3>2. g[j + 1] = Cat(g[j], s[j + 1])
      BY <2>2, <3>1
    <3>3. h[j + 1] = Cat(h[j], t[j + 1])
      BY <2>3, <3>1
    <3> QED
      BY <2>1, <3>1, <3>2, <3>3
  <2> QED
    BY <2>4, <2>5
<1>3. T = Nat
  <2>1. T \in SUBSET Nat
    OBVIOUS
  <2> HIDE DEF T
  <2> QED BY <2>1, <1>1, <1>2, NatSetInduction
<1> QED
  BY <1>3

LEMMA ConcatsUnique ==
    ASSUME NEW s, NEW g, NEW h, NEW n \in Nat, Concats(s, g, n), Concats(s, h, n)
    PROVE  \A i \in 1..n : g[i] = h[i]
<1>1. PICK t : t = s
  OBVIOUS
<1>2. n <= n /\ Concats(t, h, n) /\ \A i \in 1..n : s[i] = t[i]
  BY <1>1
<1> QED
  BY <1>2, ConcatsAgree

LEMMA ConcatsExtend ==
    ASSUME NEW s, NEW t, NEW g, NEW h, NEW n \in Nat,
           Concats(s, g, n), Concats(t, h, n + 1), \A i \in 1..n : s[i] = t[i]
    PROVE  \A i \in 1..n : g[i] = h[i]
<1>1. n <= n /\ n <= n + 1 /\ n + 1 \in Nat
  OBVIOUS
<1> QED
  BY <1>1, ConcatsAgree

\* FlattenSeq returns the last of them.
LEMMA FlattenLast ==
    ASSUME NEW s, NEW g, NEW n \in Nat, n # 0, Len(s) = n, Recurs(s, g, n), Concats(s, g, n)
    PROVE  FlattenSeq(s) = g[n]
<1> DEFINE f == CHOOSE k : Recurs(s, k, n)
<1>1. Recurs(s, f, n)
  OBVIOUS
<1>2. FlattenSeq(s) = f[n]
  BY Zenon DEF FlattenSeq, Recurs, Cat
<1> HIDE DEF f
<1>3. Concats(s, f, n)
  BY <1>1, RecursConcats
<1>4. \A i \in 1..n : f[i] = g[i]
  BY <1>3, ConcatsUnique
<1>5. n \in 1..n
  OBVIOUS
<1> QED
  BY <1>2, <1>4, <1>5

LEMMA FlattenIs ==
    ASSUME NEW X, NEW s \in Seq(Seq(X)), Len(s) # 0
    PROVE  \E g : /\ Concats(s, g, Len(s)) /\ FlattenSeq(s) = g[Len(s)]
                  /\ \A i \in 1..Len(s) : g[i] \in Seq(X)
<1>1. Len(s) \in Nat /\ Len(s) <= Len(s)
  OBVIOUS
<1>2. PICK g \in [1..Len(s) -> Seq(X)] : Concats(s, g, Len(s))
  BY <1>1, ConcatsExist
<1>3. Recurs(s, g, Len(s))
  BY <1>1, <1>2, ConcatsRecur
<1>4. FlattenSeq(s) = g[Len(s)]
  BY <1>1, <1>2, <1>3, FlattenLast
<1>5. \A i \in 1..Len(s) : g[i] \in Seq(X)
  BY <1>2
<1> QED
  BY <1>2, <1>4, <1>5

LEMMA FlattenEmpty == FlattenSeq(<<>>) = <<>>
  BY DEF FlattenSeq

LEMMA FlattenType ==
    ASSUME NEW X, NEW s \in Seq(Seq(X))
    PROVE  FlattenSeq(s) \in Seq(X)
<1>1. Len(s) \in Nat /\ <<>> \in Seq(X)
  OBVIOUS
<1>2. CASE Len(s) = 0
  <2>1. s = <<>>
    BY <1>2, EmptySeq
  <2> QED
    BY <1>1, <2>1, FlattenEmpty
<1>3. CASE Len(s) # 0
  <2>1. Len(s) \in 1..Len(s)
    BY <1>1, <1>3
  <2> QED
    BY <1>3, <2>1, FlattenIs
<1> QED
  BY <1>2, <1>3

\* A member at the end.
LEMMA ConcatsLast ==
    ASSUME NEW s, NEW t, NEW g, NEW h, NEW n \in Nat, n # 0,
           NEW m \in Nat, m = n + 1,
           Concats(s, g, n), Concats(t, h, m), \A i \in 1..n : s[i] = t[i]
    PROVE  h[m] = Cat(g[n], t[m])
<1>1. \A i \in 1..n : g[i] = h[i]
  BY ConcatsExtend
<1>2. m >= 1 /\ m \in 2..m /\ n \in 1..n /\ m - 1 = n
  OBVIOUS
<1>3. \A i \in 2..m : h[i] = Cat(h[i - 1], t[i])
  BY <1>2, Zenon DEF Concats
<1>4. h[m] = Cat(h[n], t[m])
  BY <1>2, <1>3
<1> QED
  BY <1>1, <1>2, <1>4

LEMMA FlattenAppend ==
    ASSUME NEW X, NEW s \in Seq(Seq(X)), NEW x \in Seq(X)
    PROVE  FlattenSeq(Append(s, x)) = Cat(FlattenSeq(s), x)
<1>0. PICK t : t = Append(s, x)
  OBVIOUS
<1>6. PICK n \in Nat : n = Len(s)
  OBVIOUS
<1>7. PICK m \in Nat : m = n + 1 /\ m # 0
  OBVIOUS
<1>1. /\ n = Len(s) /\ m = n + 1 /\ t = Append(s, x)
      /\ n \in Nat /\ m \in Nat /\ m # 0
  BY <1>0, <1>6, <1>7
<1>2. /\ t \in Seq(Seq(X)) /\ Len(t) = m /\ t[m] = x
      /\ \A i \in 1..n : s[i] = t[i]
  BY <1>1, AppendProperties
<1>3. PICK h : Concats(t, h, m) /\ FlattenSeq(t) = h[m]
  <2>1. Len(t) # 0
    BY <1>1, <1>2
  <2>2. PICK k : Concats(t, k, Len(t)) /\ FlattenSeq(t) = k[Len(t)]
    BY <1>2, <2>1, FlattenIs
  <2> QED
    BY <1>2, <2>2
<1>4. CASE n = 0
  <2>1. s = <<>> /\ Cat(<<>>, x) = x
    BY <1>1, <1>4, EmptySeq, CatFacts
  <2>2. m = 1
    BY <1>1, <1>4
  <2>3. h[1] = t[1]
    BY <1>3, <2>2 DEF Concats
  <2> QED
    BY <1>1, <1>2, <1>3, <2>1, <2>2, <2>3, FlattenEmpty
<1>5. CASE n # 0
  <2>1. PICK g : Concats(s, g, n) /\ FlattenSeq(s) = g[n]
    BY <1>1, <1>5, FlattenIs
  <2>2. h[m] = Cat(g[n], t[m])
    <3>1. n \in Nat /\ m \in Nat /\ n # 0 /\ m = n + 1
      BY <1>1, <1>5
    <3>2. Concats(s, g, n) /\ Concats(t, h, m)
      BY <1>3, <2>1
    <3>3. \A i \in 1..n : s[i] = t[i]
      BY <1>2
    <3> QED
      BY <3>1, <3>2, <3>3, ConcatsLast
  <2> QED
    BY <1>1, <1>2, <1>3, <2>1, <2>2
<1> QED
  BY <1>4, <1>5

\* Members that hold nothing.
LEMMA ConcatsNothing ==
    ASSUME NEW s, NEW g, NEW n \in Nat, NEW k \in Nat, k <= n,
           Concats(s, g, n), \A i \in 1..k : s[i] = <<>>
    PROVE  \A i \in 1..k : g[i] = <<>>
<1> DEFINE T == {j \in Nat : j \in 1..k => g[j] = <<>>}
<1>1. 0 \in T
  OBVIOUS
<1>2. ASSUME NEW j \in T PROVE j + 1 \in T
  <2>1. j \in Nat /\ (j \in 1..k => g[j] = <<>>)
    OBVIOUS
  <2> SUFFICES ASSUME j + 1 \in 1..k PROVE g[j + 1] = <<>>
    BY <2>1
  <2> HIDE DEF T
  <2>2. n >= 1 /\ 1 \in 1..k /\ j + 1 <= n
    BY <2>1
  <2>3. /\ g[1] = s[1]
        /\ \A i \in 2..n : g[i] = Cat(g[i - 1], s[i])
    BY <2>2, Zenon DEF Concats
  <2>4. CASE j = 0
    BY <2>2, <2>3, <2>4
  <2>5. CASE j # 0
    <3>1. j \in 1..k /\ j + 1 \in 2..n /\ (j + 1) - 1 = j
      BY <2>1, <2>2, <2>5
    <3>2. g[j + 1] = Cat(g[j], s[j + 1])
      BY <2>3, <3>1
    <3>3. g[j] = <<>> /\ s[j + 1] = <<>> /\ Cat(<<>>, <<>>) = <<>>
      BY <2>1, <3>1, CatFacts
    <3> QED
      BY <3>2, <3>3
  <2> QED
    BY <2>4, <2>5
<1>3. T = Nat
  <2>1. T \in SUBSET Nat
    OBVIOUS
  <2> HIDE DEF T
  <2> QED BY <2>1, <1>1, <1>2, NatSetInduction
<1> QED
  BY <1>3

LEMMA FlattenNothing ==
    ASSUME NEW X, NEW s \in Seq(Seq(X)), \A i \in 1..Len(s) : s[i] = <<>>
    PROVE  FlattenSeq(s) = <<>>
<1>1. Len(s) \in Nat
  OBVIOUS
<1>2. CASE Len(s) = 0
  <2>1. s = <<>>
    BY <1>2, EmptySeq
  <2> QED
    BY <2>1, FlattenEmpty
<1>3. CASE Len(s) # 0
  <2>1. PICK g : Concats(s, g, Len(s)) /\ FlattenSeq(s) = g[Len(s)]
    BY <1>3, FlattenIs, Zenon
  <2>2. Len(s) \in 1..Len(s) /\ Len(s) <= Len(s)
    BY <1>1, <1>3
  <2>3. g[Len(s)] = <<>>
    BY <1>1, <2>1, <2>2, ConcatsNothing, Zenon
  <2> QED
    BY <2>1, <2>3
<1> QED
  BY <1>2, <1>3

\* The first member that holds something, taken out.
LEMMA ConcatsFirst ==
    ASSUME NEW s, NEW g, NEW n \in Nat, NEW b \in 1..n, Concats(s, g, n),
           \A i \in 1..(b - 1) : s[i] = <<>>, Cat(<<>>, s[b]) = s[b]
    PROVE  g[b] = s[b]
<1>1. b \in Nat /\ b >= 1 /\ b <= n /\ n >= 1
  OBVIOUS
<1>2. /\ g[1] = s[1]
      /\ \A i \in 2..n : g[i] = Cat(g[i - 1], s[i])
  BY <1>1, Zenon DEF Concats
<1>3. CASE b = 1
  BY <1>2, <1>3
<1>4. CASE b # 1
  <2>1. PICK c \in Nat : c = b - 1 /\ c \in 1..c /\ c <= n /\ b \in 2..n
    BY <1>1, <1>4
  <2>2. \A i \in 1..c : s[i] = <<>>
    BY <2>1
  <2>3. g[c] = <<>>
    <3>1. c <= n /\ c \in 1..c
      BY <2>1
    <3> QED
      BY <2>2, <3>1, ConcatsNothing
  <2>4. g[b] = Cat(g[c], s[b])
    BY <1>2, <2>1
  <2> QED
    BY <2>3, <2>4
<1> QED
  BY <1>3, <1>4

TakenOut(X, s, t, h, b, n) ==
    /\ \A i \in 1..n : s[i] \in Seq(X) /\ h[i] \in Seq(X)
    /\ \A i \in 1..(b - 1) : s[i] = <<>> /\ t[i] = <<>>
    /\ t[b] = <<>>
    /\ \A i \in (b + 1)..n : t[i] = s[i]

LEMMA ConcatsTakeFirst ==
    ASSUME NEW X, NEW s, NEW t, NEW g, NEW h, NEW n \in Nat, NEW b \in 1..n,
           Concats(s, g, n), Concats(t, h, n), TakenOut(X, s, t, h, b, n)
    PROVE  g[n] = Cat(s[b], h[n])
<1>0. /\ \A i \in 1..n : s[i] \in Seq(X) /\ h[i] \in Seq(X)
      /\ \A i \in 1..(b - 1) : s[i] = <<>>
      /\ \A i \in 1..(b - 1) : t[i] = <<>>
      /\ t[b] = <<>> /\ \A i \in (b + 1)..n : t[i] = s[i]
  BY DEF TakenOut
<1>1. b \in Nat /\ b >= 1 /\ b <= n /\ n >= 1
  OBVIOUS
<1>2. /\ g[1] = s[1]
      /\ \A i \in 2..n : g[i] = Cat(g[i - 1], s[i])
  BY <1>1, Zenon DEF Concats
<1>3. /\ h[1] = t[1]
      /\ \A i \in 2..n : h[i] = Cat(h[i - 1], t[i])
  BY <1>1, Zenon DEF Concats
<1>4. s[b] \in Seq(X) /\ Cat(<<>>, s[b]) = s[b] /\ Cat(s[b], <<>>) = s[b] /\ Cat(<<>>, <<>>) = <<>>
  <2>1. s[b] \in Seq(X)
    BY <1>0
  <2> QED
    BY <2>1, CatFacts
<1>5. \A p, q, r \in Seq(X) : Cat(Cat(p, q), r) = Cat(p, Cat(q, r))
  BY CatFacts
<1>6. g[b] = s[b] /\ h[b] = <<>>
  <2>2. g[b] = s[b]
    BY <1>0, <1>4, ConcatsFirst
  <2>3. h[b] = t[b]
    BY <1>0, <1>4, ConcatsFirst
  <2> QED
    BY <1>0, <2>2, <2>3
<1> DEFINE Good(d) == b + d <= n => g[b + d] = Cat(s[b], h[b + d])
           T == {d \in Nat : Good(d)}
<1>7. 0 \in T
  <2>1. b + 0 = b
    BY <1>1
  <2> QED
    BY <1>4, <1>6, <2>1
<1>8. ASSUME NEW d \in T PROVE d + 1 \in T
  <2>1. d \in Nat /\ (b + d <= n => g[b + d] = Cat(s[b], h[b + d]))
    OBVIOUS
  <2>2. d + 1 \in Nat /\ (Good(d + 1) => d + 1 \in T)
    <3> HIDE DEF Good
    <3> QED BY <2>1
  <2> HIDE DEF T
  <2> SUFFICES ASSUME b + (d + 1) <= n PROVE g[b + (d + 1)] = Cat(s[b], h[b + (d + 1)])
    BY <2>2, Zenon
  <2> HIDE DEF Good
  <2> DEFINE i == b + (d + 1)
             j == b + d
  <2>3. i \in 2..n /\ i \in 1..n /\ i \in (b + 1)..n /\ i - 1 = j /\ j \in 1..n /\ j <= n
    BY <1>1, <2>1
  <2> HIDE DEF i, j
  <2>4. g[i] = Cat(g[j], s[i])
    BY <1>2, <2>3
  <2>5. h[i] = Cat(h[j], s[i])
    BY <1>0, <1>3, <2>3
  <2>6. g[j] = Cat(s[b], h[j])
    BY <2>1, <2>3 DEF j
  <2>7. s[b] \in Seq(X) /\ h[j] \in Seq(X) /\ s[i] \in Seq(X)
    BY <1>0, <1>4, <2>3
  <2>8. Cat(Cat(s[b], h[j]), s[i]) = Cat(s[b], Cat(h[j], s[i]))
    BY <1>5, <2>7
  <2>9. g[i] = Cat(s[b], h[i])
    BY <2>4, <2>5, <2>6, <2>8
  <2> QED
    BY <2>9 DEF i
<1>9. T = Nat
  <2>1. T \in SUBSET Nat
    OBVIOUS
  <2> HIDE DEF T
  <2> QED BY <2>1, <1>7, <1>8, NatSetInduction
<1>10. Good(n - b)
  <2> HIDE DEF Good
  <2>1. n - b \in Nat
    BY <1>1
  <2> QED BY <2>1, <1>9
<1>11. b + (n - b) = n /\ n <= n
  BY <1>1
<1> QED
  BY <1>10, <1>11

LEMMA FlattenTakeFirst ==
    ASSUME NEW X, NEW s \in Seq(Seq(X)), NEW b \in 1..Len(s),
           \A j \in 1..(b - 1) : s[j] = <<>>
    PROVE  FlattenSeq(s) = Cat(s[b], FlattenSeq([s EXCEPT ![b] = <<>>]))
<1>1. PICK n, t : n = Len(s) /\ t = [s EXCEPT ![b] = <<>>]
  OBVIOUS
<1>2. n \in Nat /\ n # 0 /\ b \in Nat /\ b <= n /\ b >= 1 /\ n \in 1..n /\ b \in 1..n
  BY <1>1
<1>3. /\ t \in Seq(Seq(X)) /\ Len(t) = n /\ t[b] = <<>>
      /\ \A i \in 1..n : i # b => t[i] = s[i]
  <2>1. <<>> \in Seq(X)
    OBVIOUS
  <2> QED
    BY <1>1, <2>1, ExceptSeq
<1>4. PICK g : Concats(s, g, n) /\ FlattenSeq(s) = g[n]
  BY <1>1, <1>2, FlattenIs
<1>5. PICK h : Concats(t, h, n) /\ FlattenSeq(t) = h[n] /\ \A i \in 1..n : h[i] \in Seq(X)
  BY <1>2, <1>3, FlattenIs
<1>6. \A i \in 1..n : s[i] \in Seq(X) /\ h[i] \in Seq(X)
  BY <1>1, <1>5, ElementOfSeq
<1>7. (\A i \in 1..(b - 1) : s[i] = <<>>) /\ (\A i \in 1..(b - 1) : t[i] = <<>>)
  <2>1. \A i \in 1..(b - 1) : i \in 1..n /\ i # b
    BY <1>2
  <2> QED
    BY <1>3, <2>1
<1>8. \A i \in (b + 1)..n : t[i] = s[i]
  <2>1. \A i \in (b + 1)..n : i \in 1..n /\ i # b
    BY <1>2
  <2> QED
    BY <1>3, <2>1
<1>9. Concats(s, g, n) /\ Concats(t, h, n) /\ TakenOut(X, s, t, h, b, n) /\ n \in Nat /\ b \in 1..n
  BY <1>2, <1>3, <1>4, <1>5, <1>6, <1>7, <1>8 DEF TakenOut
<1>10. g[n] = Cat(s[b], h[n])
  BY <1>9, ConcatsTakeFirst, SMTT(60)
<1> QED
  BY <1>1, <1>4, <1>5, <1>10

-----------------------------------------------------------------------------
(* AsyncLogger.                                                            *)

Buffer == [held : BOOLEAN, room : Nat, used : Nat, lines : Seq(Lengths)]

LoggerTypes ==
    /\ current \in Buffer /\ next \in Buffer /\ spareA \in Buffer /\ spareB \in Buffer
    /\ buffers \in Seq(Buffer) /\ toWrite \in Seq(Buffer)
    /\ appended \in Seq(Lengths) /\ handed \in Seq(Lengths)
    /\ mark \in Int
    /\ running \in BOOLEAN
    /\ writer \in {"check", "asleep", "write", "exit"}

\* The buffers in use are held, and the spare ones hold no line.
BuffersHeld ==
    /\ current.held
    /\ next.lines = <<>> /\ spareA.lines = <<>> /\ spareB.lines = <<>>
    /\ (next = Null \/ next.held) /\ (spareB = Null \/ spareB.held)
    /\ writer # "write" => spareA.held /\ toWrite = <<>>
    /\ writer = "write" => toWrite # <<>>
    /\ \A i \in 1..Len(buffers) : buffers[i].held
    /\ \A i \in 1..Len(toWrite) : toWrite[i].held

\* The thread leaves after stop() only, with all the lines stop() found.
Stopped ==
    /\ mark <= Len(appended)
    /\ writer = "exit" => ~running /\ mark <= Len(handed)

\* Every line is in one place, in order.
InOrder ==
    Cat(Cat(Cat(handed, LinesOf(toWrite)), LinesOf(buffers)), current.lines) = appended

\* A line is lost when it is handed over, on a day with a failure; a stream
\* that failed did so on the day of its file.
LossesExplained ==
    /\ \A l \in lost : l.line \in 1..Len(handed) /\ l.day \in badDays
    /\ failed => fileDay \in badDays

LoggerInv == LoggerTypes /\ BuffersHeld /\ Stopped /\ InOrder /\ LossesExplained

\* What happens to one buffer.
LEMMA BufferFacts ==
    ASSUME NEW b \in Buffer
    PROVE  /\ Null \in Buffer /\ Fresh \in Buffer
           /\ b.lines \in Seq(Lengths)
           /\ \A len \in Lengths : /\ AppendTo(b, len) \in Buffer
                                   /\ AppendTo(b, len).held = b.held
                                   /\ AppendTo(b, len).lines = Append(b.lines, len)
<1>1. /\ b.held \in BOOLEAN /\ b.room \in Nat /\ b.used \in Nat /\ b.lines \in Seq(Lengths)
  BY DEF Buffer
<1>2. <<>> \in Seq(Lengths)
  OBVIOUS
<1>3. Null \in Buffer /\ Fresh \in Buffer
  BY <1>2 DEF Buffer, Null, Fresh
<1>4. ASSUME NEW len \in Lengths
      PROVE  /\ AppendTo(b, len) \in Buffer
             /\ AppendTo(b, len).held = b.held
             /\ AppendTo(b, len).lines = Append(b.lines, len)
  <2>1. len \in Nat /\ b.used + len \in Nat /\ (b.room > len => b.room - len \in Nat)
    BY <1>1, LoggerAssumption
  <2>2. Append(b.lines, len) \in Seq(Lengths)
    BY <1>1, AppendProperties
  <2> DEFINE r == IF b.room > len THEN b.room - len ELSE 0
             u == b.used + len
             l == Append(b.lines, len)
  <2>3. r \in Nat /\ u \in Nat
    BY <1>1, <2>1
  <2>4. AppendTo(b, len) = [b EXCEPT !.room = r, !.used = u, !.lines = l]
    BY <1>1 DEF AppendTo, Buffer
  <2> HIDE DEF r, u, l
  <2>5. /\ [b EXCEPT !.room = r, !.used = u, !.lines = l] \in Buffer
        /\ [b EXCEPT !.room = r, !.used = u, !.lines = l].held = b.held
        /\ [b EXCEPT !.room = r, !.used = u, !.lines = l].lines = l
    BY <2>2, <2>3 DEF Buffer, l
  <2> QED
    BY <2>4, <2>5 DEF l
<1> QED
  BY <1>1, <1>3, <1>4

LEMMA BufferLines ==
    ASSUME NEW bs \in Seq(Buffer)
    PROVE  \A i \in 1..Len(bs) : bs[i].lines \in Seq(Lengths)
<1>1. \A i \in 1..Len(bs) : bs[i] \in Buffer
  BY ElementOfSeq
<1>2. \A b \in Buffer : b.lines \in Seq(Lengths)
  BY DEF Buffer
<1> QED
  BY <1>1, <1>2

LEMMA LinesOfIs == \A bs : LinesOf(bs) = FlattenSeq([i \in 1..Len(bs) |-> bs[i].lines])
  BY Zenon DEF LinesOf, FlattenSeq, FlattenSeq

\* The lines of buffers: none, one more at the end, and one written and emptied.
LEMMA LinesOfType ==
    ASSUME NEW bs \in Seq(Buffer)
    PROVE  LinesOf(bs) \in Seq(Lengths)
<1> DEFINE s == [i \in 1..Len(bs) |-> bs[i].lines]
<1>1. s \in Seq(Seq(Lengths))
  <2>1. \A i \in 1..Len(bs) : bs[i].lines \in Seq(Lengths)
    BY BufferLines
  <2> QED
    BY <2>1
<1> QED
  BY <1>1, FlattenType, LinesOfIs

LEMMA LinesOfNothing ==
    ASSUME NEW bs \in Seq(Buffer), \A i \in 1..Len(bs) : bs[i].lines = <<>>
    PROVE  LinesOf(bs) = <<>>
<1> DEFINE s == [i \in 1..Len(bs) |-> bs[i].lines]
<1>1. s \in Seq(Seq(Lengths)) /\ \A i \in 1..Len(s) : s[i] = <<>>
  <2>1. \A i \in 1..Len(bs) : bs[i].lines \in Seq(Lengths)
    BY BufferLines
  <2> QED
    BY <2>1
<1> HIDE DEF s
<1>2. FlattenSeq(s) = <<>>
  BY <1>1, FlattenNothing
<1> QED
  BY <1>2, LinesOfIs DEF s

LEMMA LinesOfAppend ==
    ASSUME NEW bs \in Seq(Buffer), NEW b \in Buffer
    PROVE  LinesOf(Append(bs, b)) = Cat(LinesOf(bs), b.lines)
<1> DEFINE s == [i \in 1..Len(bs) |-> bs[i].lines]
           t == [i \in 1..Len(Append(bs, b)) |-> Append(bs, b)[i].lines]
<1>1. s \in Seq(Seq(Lengths)) /\ b.lines \in Seq(Lengths) /\ Len(s) = Len(bs)
  <2>1. \A i \in 1..Len(bs) : bs[i].lines \in Seq(Lengths)
    BY BufferLines
  <2> QED
    BY <2>1 DEF Buffer
<1>2. t = Append(s, b.lines)
  OBVIOUS
<1>3. FlattenSeq(Append(s, b.lines)) = Cat(FlattenSeq(s), b.lines)
  <2> HIDE DEF s
  <2> QED BY <1>1, FlattenAppend
<1> HIDE DEF s, t
<1> QED
  BY <1>2, <1>3, LinesOfIs DEF s, t

LEMMA LinesOfTake ==
    ASSUME NEW bs \in Seq(Buffer), NEW b \in 1..Len(bs), NEW e \in Buffer, e.lines = <<>>,
           \A j \in 1..(b - 1) : bs[j].lines = <<>>
    PROVE  LinesOf(bs) = Cat(bs[b].lines, LinesOf([bs EXCEPT ![b] = e]))
<1> DEFINE s == [i \in 1..Len(bs) |-> bs[i].lines]
           t == [i \in 1..Len([bs EXCEPT ![b] = e]) |-> [bs EXCEPT ![b] = e][i].lines]
<1>1. /\ s \in Seq(Seq(Lengths)) /\ Len(s) = Len(bs) /\ b \in 1..Len(s) /\ s[b] = bs[b].lines
      /\ \A j \in 1..(b - 1) : s[j] = <<>>
  <2>1. \A i \in 1..Len(bs) : bs[i].lines \in Seq(Lengths)
    BY BufferLines
  <2> QED
    BY <2>1
<1>2. t = [s EXCEPT ![b] = <<>>]
  <2>1. Len([bs EXCEPT ![b] = e]) = Len(bs)
    BY ExceptSeq
  <2>2. \A i \in 1..Len(bs) : [bs EXCEPT ![b] = e][i] = IF i = b THEN e ELSE bs[i]
    BY ExceptSeq
  <2> DEFINE u == [i \in 1..Len(bs) |-> IF i = b THEN <<>> ELSE bs[i].lines]
  <2>3. \A i \in 1..Len(bs) : t[i] = u[i]
    BY <2>1, <2>2
  <2>4. DOMAIN t = 1..Len(bs) /\ t = [i \in 1..Len(bs) |-> t[i]] /\ u = [i \in 1..Len(bs) |-> u[i]]
    BY <2>1
  <2>5. u = [s EXCEPT ![b] = <<>>]
    OBVIOUS
  <2> HIDE DEF t, u
  <2> QED
    BY <2>3, <2>4, <2>5
<1>3. FlattenSeq(s) = Cat(s[b], FlattenSeq([s EXCEPT ![b] = <<>>]))
  <2> HIDE DEF s
  <2> QED BY <1>1, FlattenTakeFirst
<1>4. LinesOf(bs) = FlattenSeq(s) /\ LinesOf([bs EXCEPT ![b] = e]) = FlattenSeq(t)
  BY LinesOfIs, Zenon
<1> HIDE DEF s, t
<1> QED
  BY <1>1, <1>2, <1>3, <1>4

\* The same for lines.
LEMMA LinesCat ==
    /\ \A a, b \in Seq(Lengths) : Cat(a, b) \in Seq(Lengths)
    /\ \A a, b, c \in Seq(Lengths) : Cat(Cat(a, b), c) = Cat(a, Cat(b, c))
    /\ \A a \in Seq(Lengths) : Cat(a, <<>>) = a /\ Cat(<<>>, a) = a
  BY CatFacts

LEMMA CatAppend ==
    ASSUME NEW X
    PROVE  /\ \A a, b \in Seq(X), x \in X : Cat(a, Append(b, x)) = Append(Cat(a, b), x)
           /\ \A a \in Seq(X), x \in X : Cat(a, Append(<<>>, x)) = Append(a, x)
<1>1. ASSUME NEW a \in Seq(X), NEW b \in Seq(X), NEW x \in X
      PROVE  Cat(a, Append(b, x)) = Append(Cat(a, b), x)
  <2>1. <<x>> \in Seq(X)
    OBVIOUS
  <2>2. Append(b, x) = Cat(b, <<x>>)
    BY AppendIsConcat DEF Cat
  <2>3. Cat(a, b) \in Seq(X)
    BY CatFacts
  <2>4. Append(Cat(a, b), x) = Cat(Cat(a, b), <<x>>)
    BY <2>3, AppendIsConcat DEF Cat
  <2>5. Cat(Cat(a, b), <<x>>) = Cat(a, Cat(b, <<x>>))
    <3>1. PICK y : y = <<x>>
      OBVIOUS
    <3>2. y \in Seq(X)
      BY <2>1, <3>1
    <3>3. \A p, q, r \in Seq(X) : Cat(Cat(p, q), r) = Cat(p, Cat(q, r))
      BY CatFacts
    <3>4. Cat(Cat(a, b), y) = Cat(a, Cat(b, y))
      BY <3>2, <3>3
    <3> QED
      BY <3>1, <3>4
  <2> QED
    BY <2>2, <2>4, <2>5
<1>2. ASSUME NEW a \in Seq(X), NEW x \in X
      PROVE  Cat(a, Append(<<>>, x)) = Append(a, x)
  <2>1. <<>> \in Seq(X)
    OBVIOUS
  <2>2. Cat(a, <<>>) = a
    BY CatFacts
  <2> QED
    BY <1>1, <2>1, <2>2
<1> QED
  BY <1>1, <1>2

LEMMA LoggerStarts == LoggerInit => LoggerInv
<1> SUFFICES ASSUME LoggerInit PROVE LoggerInv
  OBVIOUS
<1> USE DEF LoggerInit
<1>1. <<>> \in Seq(Lengths) /\ <<>> \in Seq(Buffer) /\ Len(<<>>) = 0
  OBVIOUS
<1>2. Fresh \in Buffer /\ Fresh.lines = <<>> /\ Fresh.held
  BY <1>1 DEF Buffer, Fresh
<1>3. LoggerTypes
  BY <1>1, <1>2 DEF LoggerTypes
<1>4. BuffersHeld
  BY <1>1, <1>2 DEF BuffersHeld
<1>5. Stopped
  BY <1>1 DEF Stopped
<1>6. LinesOf(<<>>) = <<>>
  <2>1. \A i \in 1..Len(<<>>) : <<>>[i].lines = <<>>
    BY <1>1
  <2> QED
    BY <1>1, <2>1, LinesOfNothing
<1>7. InOrder
  BY <1>1, <1>2, <1>6, LinesCat DEF InOrder
<1>8. LossesExplained
  BY DEF LossesExplained
<1> QED
  BY <1>3, <1>4, <1>5, <1>7, <1>8 DEF LoggerInv

LEMMA LoggerAppend == LoggerInv /\ AppendLine => LoggerInv'
<1> SUFFICES ASSUME LoggerInv, AppendLine PROVE LoggerInv'
  OBVIOUS
<1> USE DEF LoggerInv
<1>1. PICK len \in Lengths :
        /\ appended' = Append(appended, len)
        /\ IF current.room > len
           THEN current' = AppendTo(current, len) /\ UNCHANGED <<next, buffers>>
           ELSE /\ buffers' = Append(buffers, current)
                /\ current' = AppendTo(IF next = Null THEN Fresh ELSE next, len)
                /\ next' = Null
  BY Zenon DEF AppendLine
<1>2. /\ UNCHANGED <<running, spareA, spareB, toWrite, handed, mark>>
      /\ writer' = IF writer = "asleep" THEN "check" ELSE writer
  BY DEF AppendLine, Notify, fileVars
<1>10. LossesExplained'
  BY DEF AppendLine, fileVars, LossesExplained
<1>3. /\ appended' \in Seq(Lengths) /\ Len(appended') = Len(appended) + 1 /\ Len(appended) \in Nat
  BY <1>1, AppendProperties DEF LoggerTypes
<1>4. Stopped'
  BY <1>2, <1>3 DEF Stopped, LoggerTypes
<1> DEFINE w == Cat(handed, LinesOf(toWrite))
           b == LinesOf(buffers)
<1>5. w \in Seq(Lengths) /\ b \in Seq(Lengths) /\ Cat(w, b) \in Seq(Lengths)
  BY LinesOfType, LinesCat DEF LoggerTypes
<1>6. CASE current.room > len
  <2>1. current' = AppendTo(current, len) /\ UNCHANGED <<next, buffers>>
    BY <1>1, <1>6
  <2>2. /\ current' \in Buffer /\ current'.held = current.held /\ current'.lines = Append(current.lines, len)
        /\ current.lines \in Seq(Lengths)
    BY <2>1, BufferFacts DEF LoggerTypes
  <2>3. LoggerTypes'
    BY <1>2, <1>3, <2>1, <2>2 DEF LoggerTypes
  <2>4. BuffersHeld'
    BY <1>2, <2>1, <2>2 DEF BuffersHeld, LoggerTypes
  <2>5. Cat(Cat(w, b), Append(current.lines, len)) = Append(Cat(Cat(w, b), current.lines), len)
    <3>1. \A p, q \in Seq(Lengths), x \in Lengths : Cat(p, Append(q, x)) = Append(Cat(p, q), x)
      BY CatAppend
    <3> HIDE DEF w, b
    <3> QED
      BY <1>5, <2>2, <3>1
  <2>6. InOrder'
    <3>1. w' = w /\ b' = b
      BY <1>2, <2>1
    <3> QED
      BY <1>1, <2>2, <2>5, <3>1 DEF InOrder
  <2> QED
    BY <1>4, <1>10, <2>3, <2>4, <2>6
<1>7. CASE ~ (current.room > len)
  <2> DEFINE spare == IF next = Null THEN Fresh ELSE next
  <2>1. /\ buffers' = Append(buffers, current) /\ current' = AppendTo(spare, len)
        /\ next' = Null
    BY <1>1, <1>7
  <2>2. spare \in Buffer /\ spare.held /\ spare.lines = <<>>
    BY BufferFacts DEF LoggerTypes, BuffersHeld, Fresh
  <2>3. /\ current' \in Buffer /\ current'.held /\ current'.lines = Append(<<>>, len)
    <3> HIDE DEF spare
    <3> QED BY <2>1, <2>2, BufferFacts
  <2>4. /\ next' \in Buffer /\ next'.lines = <<>> /\ current \in Buffer
        /\ current.lines \in Seq(Lengths)
    BY <2>1, BufferFacts DEF LoggerTypes, Null
  <2>5. /\ buffers' \in Seq(Buffer) /\ Len(buffers') = Len(buffers) + 1 /\ Len(buffers) \in Nat
        /\ buffers'[Len(buffers) + 1] = current
        /\ \A i \in 1..Len(buffers) : buffers'[i] = buffers[i]
    BY <2>1, <2>4, AppendProperties DEF LoggerTypes
  <2> HIDE DEF spare
  <2>6. LoggerTypes'
    BY <1>2, <1>3, <2>3, <2>4, <2>5 DEF LoggerTypes
  <2>7. \A i \in 1..Len(buffers') : buffers'[i].held
    <3>1. \A i \in 1..Len(buffers') : i \in 1..Len(buffers) \/ i = Len(buffers) + 1
      BY <2>5
    <3> QED
      BY <2>5, <3>1 DEF BuffersHeld
  <2>8. BuffersHeld'
    BY <1>2, <2>1, <2>3, <2>4, <2>7 DEF BuffersHeld, LoggerTypes
  <2>9. InOrder'
    <3>1. LinesOf(buffers') = Cat(b, current.lines)
      BY <2>1, <2>4, LinesOfAppend DEF LoggerTypes
    <3>2. w' = w
      BY <1>2
    <3>3. Cat(Cat(w, b), current.lines) = Cat(w, Cat(b, current.lines)) /\ Cat(Cat(w, b), current.lines) \in Seq(Lengths)
      <4>1. PICK x, y, z : x = w /\ y = b /\ z = current.lines
        OBVIOUS
      <4>2. x \in Seq(Lengths) /\ y \in Seq(Lengths) /\ z \in Seq(Lengths)
        BY <1>5, <2>4, <4>1
      <4>3. Cat(x, y) \in Seq(Lengths)
        BY <4>2, LinesCat
      <4>4. Cat(Cat(x, y), z) = Cat(x, Cat(y, z)) /\ Cat(Cat(x, y), z) \in Seq(Lengths)
        BY <4>2, <4>3, LinesCat
      <4> QED
        BY <4>1, <4>4
    <3>4. Cat(Cat(Cat(w, b), current.lines), Append(<<>>, len)) = Append(Cat(Cat(w, b), current.lines), len)
      BY <3>3, CatAppend
    <3> QED
      BY <1>1, <2>3, <3>1, <3>2, <3>3, <3>4 DEF InOrder
  <2> QED
    BY <1>4, <1>10, <2>6, <2>8, <2>9
<1> QED
  BY <1>6, <1>7

LEMMA LoggerStop == LoggerInv /\ StopLogger => LoggerInv'
<1> SUFFICES ASSUME LoggerInv, StopLogger PROVE LoggerInv'
  OBVIOUS
<1> USE DEF LoggerInv
<1>1. /\ mark' = Len(appended) /\ running' = FALSE
      /\ writer' = IF writer = "asleep" THEN "check" ELSE writer
      /\ UNCHANGED <<current, next, buffers, spareA, spareB, toWrite, appended, handed>>
  BY DEF StopLogger, Notify, fileVars
<1>8. LossesExplained'
  BY DEF StopLogger, fileVars, LossesExplained
<1>2. running /\ Len(appended) \in Nat
  BY DEF LoggerTypes, StopLogger
<1>3. running' \in BOOLEAN
  BY <1>1, Zenon
<1>4. LoggerTypes'
  BY <1>1, <1>2, <1>3 DEF LoggerTypes
<1>5. BuffersHeld'
  BY <1>1 DEF BuffersHeld, LoggerTypes
<1>6. Stopped'
  BY <1>1, <1>2 DEF Stopped
<1>7. InOrder'
  BY <1>1 DEF InOrder
<1> QED
  BY <1>4, <1>5, <1>6, <1>7, <1>8

LEMMA LoggerMidnight == LoggerInv /\ (Midnight \/ UNCHANGED loggerVars) => LoggerInv'
<1> SUFFICES ASSUME LoggerInv, Midnight \/ UNCHANGED loggerVars PROVE LoggerInv'
  OBVIOUS
<1>1. UNCHANGED <<current, next, buffers, running, spareA, spareB, toWrite, writer, appended, handed, mark>>
  BY DEF Midnight, loggerVars, fileVars
<1>2. LossesExplained'
  BY DEF Midnight, loggerVars, fileVars, LoggerInv, LossesExplained
<1> QED
  BY <1>1, <1>2 DEF LoggerInv, LoggerTypes, BuffersHeld, Stopped, InOrder

LEMMA LoggerCheck == LoggerInv /\ Check => LoggerInv'
<1> SUFFICES ASSUME LoggerInv, Check PROVE LoggerInv'
  OBVIOUS
<1> USE DEF LoggerInv
<1>1. writer = "check" /\ UNCHANGED <<running, appended, handed, mark>>
  BY DEF Check, fileVars
<1>5. LossesExplained'
  BY DEF Check, fileVars, LossesExplained
<1>2. spareA.held /\ toWrite = <<>>
  BY <1>1 DEF BuffersHeld
<1>3. CASE HasLines
  <2>1. /\ toWrite' = Append(buffers, current) /\ buffers' = <<>>
        /\ current' = spareA /\ spareA' = Null /\ writer' = "write"
        /\ IF next = Null THEN next' = spareB /\ spareB' = Null ELSE UNCHANGED <<next, spareB>>
    BY <1>3 DEF Check
  <2>2. /\ Null \in Buffer /\ Null.lines = <<>>
    <3>1. <<>> \in Seq(Lengths)
      OBVIOUS
    <3> QED
      BY <3>1 DEF Null, Buffer
  <2>3. /\ toWrite' \in Seq(Buffer) /\ Len(toWrite') = Len(buffers) + 1 /\ Len(buffers) \in Nat
        /\ toWrite' # <<>>
        /\ toWrite'[Len(buffers) + 1] = current
        /\ \A i \in 1..Len(buffers) : toWrite'[i] = buffers[i]
    BY <2>1, AppendProperties DEF LoggerTypes
  <2>4. <<>> \in Seq(Buffer) /\ \A i \in 1..Len(<<>>) : <<>>[i].held /\ <<>>[i].lines = <<>>
    OBVIOUS
  <2>5. /\ next' \in Buffer /\ spareB' \in Buffer /\ next'.lines = <<>> /\ spareB'.lines = <<>>
        /\ (next' = Null \/ next'.held) /\ (spareB' = Null \/ spareB'.held)
    BY <2>1, <2>2 DEF LoggerTypes, BuffersHeld
  <2>6. LoggerTypes'
    BY <1>1, <2>1, <2>2, <2>3, <2>4, <2>5 DEF LoggerTypes
  <2>7. BuffersHeld'
    <3>1. \A i \in 1..Len(toWrite') : i \in 1..Len(buffers) \/ i = Len(buffers) + 1
      BY <2>3
    <3>2. \A i \in 1..Len(toWrite') : toWrite'[i].held
      BY <2>3, <3>1 DEF BuffersHeld
    <3>3. \A i \in 1..Len(buffers') : buffers'[i].held
      BY <2>1, <2>4
    <3>4. spareA'.lines = <<>> /\ current'.held /\ toWrite' # <<>> /\ writer' = "write"
      BY <1>2, <2>1, <2>2, <2>3
    <3> QED
      BY <2>5, <3>2, <3>3, <3>4 DEF BuffersHeld
  <2>8. Stopped'
    BY <1>1, <2>1 DEF Stopped
  <2>9. InOrder'
    <3> DEFINE b == LinesOf(buffers)
    <3>1. LinesOf(toWrite') = Cat(b, current.lines)
      BY <2>1, LinesOfAppend DEF LoggerTypes
    <3>2. LinesOf(toWrite) = <<>> /\ LinesOf(buffers') = <<>>
      BY <1>2, <2>1, <2>4, LinesOfNothing
    <3>3. current'.lines = <<>> /\ current.lines \in Seq(Lengths)
      BY <2>1 DEF BuffersHeld, LoggerTypes, Buffer
    <3>4. b \in Seq(Lengths) /\ handed \in Seq(Lengths)
      BY LinesOfType DEF LoggerTypes
    <3>5. Cat(handed, <<>>) = handed
      BY <3>4, LinesCat
    <3>6. PICK x, y, z : x = handed /\ y = b /\ z = current.lines
      OBVIOUS
    <3>7. /\ Cat(handed, Cat(b, current.lines)) = Cat(Cat(handed, b), current.lines)
          /\ Cat(Cat(handed, b), current.lines) \in Seq(Lengths)
      <4>1. x \in Seq(Lengths) /\ y \in Seq(Lengths) /\ z \in Seq(Lengths)
        BY <3>3, <3>4, <3>6
      <4>2. Cat(x, y) \in Seq(Lengths)
        BY <4>1, LinesCat
      <4>3. Cat(x, Cat(y, z)) = Cat(Cat(x, y), z) /\ Cat(Cat(x, y), z) \in Seq(Lengths)
        BY <4>1, <4>2, LinesCat
      <4> QED
        BY <3>6, <4>3
    <3> DEFINE all == Cat(Cat(handed, b), current.lines)
    <3>8. Cat(all, <<>>) = all
      BY <3>7, LinesCat
    <3>9. Cat(Cat(Cat(handed, <<>>), b), current.lines) = appended
      BY <3>2 DEF InOrder
    <3> QED
      BY <1>1, <3>1, <3>2, <3>3, <3>5, <3>7, <3>8, <3>9 DEF InOrder
  <2> QED
    BY <1>5, <2>6, <2>7, <2>8, <2>9
<1>4. CASE ~ HasLines
  <2>1. /\ writer' = IF running THEN "asleep" ELSE "exit"
        /\ UNCHANGED <<toWrite, buffers, current, next, spareA, spareB>>
    BY <1>4 DEF Check
  <2>2. LoggerTypes'
    BY <1>1, <2>1 DEF LoggerTypes
  <2>3. BuffersHeld'
    BY <1>1, <1>2, <2>1 DEF BuffersHeld
  <2>4. InOrder'
    BY <1>1, <2>1 DEF InOrder
  <2>5. handed = appended
    <3>1. buffers = <<>> /\ current.lines = <<>>
      BY <1>4 DEF HasLines
    <3>2. <<>> \in Seq(Buffer) /\ \A i \in 1..Len(<<>>) : <<>>[i].lines = <<>>
      OBVIOUS
    <3>3. LinesOf(<<>>) = <<>>
      BY <3>2, LinesOfNothing
    <3>4. Cat(handed, <<>>) = handed
      BY LinesCat DEF LoggerTypes
    <3> QED
      BY <1>2, <3>1, <3>3, <3>4 DEF InOrder
  <2>6. Stopped'
    BY <1>1, <2>1, <2>5 DEF Stopped, LoggerTypes
  <2> QED
    BY <1>5, <2>2, <2>3, <2>4, <2>6
<1> QED
  BY <1>3, <1>4

\* A buffer of toWrite that was written: its lines were handed over, and those
\* that are lost are lost today, which saw a failure.
LEMMA LoggerLoses ==
    ASSUME LossesExplained, NEW len, NEW n \in Nat, Len(handed) \in Nat,
           OpenFails(len, n) \/ Writes(len, n),
           Len(handed') = Len(handed) + n, fileDay' = day
    PROVE  LossesExplained'
<1>1. badDays \subseteq badDays'
  BY DEF OpenFails, Writes
<1>2. ASSUME NEW i \in 1..n, LosesFrom(i, n), day \in badDays'
      PROVE  \A l \in lost' : l.line \in 1..Len(handed') /\ l.day \in badDays'
  <2>1. ASSUME NEW l \in [line : (Len(handed) + i)..(Len(handed) + n), day : {day}]
        PROVE  l.line \in 1..Len(handed') /\ l.day \in badDays'
    BY <1>2, <2>1
  <2> QED
    BY <1>1, <1>2, <2>1 DEF LosesFrom, LossesExplained
<1>3. ASSUME LosesFrom(1, n), day \in badDays'
      PROVE  \A l \in lost' : l.line \in 1..Len(handed') /\ l.day \in badDays'
  <2>1. CASE n = 0
    <3>1. [line : (Len(handed) + 1)..(Len(handed) + n), day : {day}] = {}
      BY <2>1
    <3> QED
      BY <1>1, <1>3, <2>1, <3>1 DEF LosesFrom, LossesExplained
  <2>2. CASE n # 0
    BY <1>2, <1>3, <2>2
  <2> QED
    BY <2>1, <2>2
<1>4. ASSUME UNCHANGED lost
      PROVE  \A l \in lost' : l.line \in 1..Len(handed') /\ l.day \in badDays'
  BY <1>1, <1>4 DEF LossesExplained
<1>5. CASE OpenFails(len, n)
  BY <1>3, <1>5 DEF OpenFails, LossesExplained
<1>6. CASE Writes(len, n) /\ UNCHANGED lost /\ failed' = FALSE
  BY <1>4, <1>6 DEF LossesExplained
<1>7. CASE Writes(len, n) /\ ~(UNCHANGED lost /\ failed' = FALSE)
  <2>1. \/ badDays' = badDays \cup {day} /\ \E i \in 1..n : LosesFrom(i, n)
        \/ ~Reopens /\ failed /\ LosesFrom(1, n) /\ UNCHANGED <<failed, badDays>>
    BY <1>7 DEF Writes
  <2>2. day \in badDays'
    BY <2>1 DEF Reopens, LossesExplained
  <2> QED
    BY <1>2, <1>3, <2>1, <2>2 DEF LossesExplained
<1> QED
  BY <1>5, <1>6, <1>7

\* Taking the lines of one buffer over keeps the invariant.
LEMMA LoggerWriteOne ==
    ASSUME LoggerInv, Write, NEW b \in 1..Len(toWrite),
           \A j \in 1..(b - 1) : toWrite[j].lines = <<>>,
           NEW e \in Buffer, e.held = toWrite[b].held, e.lines = <<>>,
           handed' = handed \o toWrite[b].lines, LossesExplained',
           toWrite' = [toWrite EXCEPT ![b] = e],
           UNCHANGED <<current, next, buffers, running, spareA, spareB, writer, appended, mark>>
    PROVE  LoggerInv'
<1> USE DEF LoggerInv
<1>1. writer = "write"
  BY DEF Write
<1>2. toWrite[b].lines \in Seq(Lengths) /\ handed' = Cat(handed, toWrite[b].lines)
  BY BufferLines DEF LoggerTypes, Cat
<1>3. handed' \in Seq(Lengths) /\ Len(handed') >= Len(handed)
  <2>1. Len(handed') = Len(handed) + Len(toWrite[b].lines) /\ handed' \in Seq(Lengths)
    <3>1. \A p, q \in Seq(Lengths) : Cat(p, q) \in Seq(Lengths) /\ Len(Cat(p, q)) = Len(p) + Len(q)
      BY ConcatProperties DEF Cat
    <3>2. handed \in Seq(Lengths)
      BY DEF LoggerTypes
    <3> QED
      BY <1>2, <3>1, <3>2
  <2>2. Len(handed) \in Nat /\ Len(toWrite[b].lines) \in Nat
    BY <1>2, LenProperties DEF LoggerTypes
  <2> QED
    BY <2>1, <2>2
<1>4. /\ toWrite' \in Seq(Buffer) /\ Len(toWrite') = Len(toWrite)
      /\ \A i \in 1..Len(toWrite) : toWrite'[i] = IF i = b THEN e ELSE toWrite[i]
  BY ExceptSeq DEF LoggerTypes
<1>5. LoggerTypes'
  BY <1>3, <1>4 DEF LoggerTypes
<1>6. BuffersHeld'
  <2>1. \A i \in 1..Len(toWrite') : toWrite'[i].held
    BY <1>4 DEF BuffersHeld
  <2>2. toWrite' # <<>>
    BY <1>4
  <2> QED
    BY <1>1, <2>1, <2>2 DEF BuffersHeld
<1>7. Stopped'
  BY <1>1 DEF Stopped
<1>8. InOrder'
  <2> DEFINE l == toWrite[b].lines
             m == LinesOf(toWrite')
             n == LinesOf(buffers)
  <2>1. LinesOf(toWrite) = Cat(l, m)
    <3>1. PICK bs : bs = toWrite
      OBVIOUS
    <3>2. bs \in Seq(Buffer) /\ b \in 1..Len(bs) /\ \A j \in 1..(b - 1) : bs[j].lines = <<>>
      BY <3>1 DEF LoggerTypes
    <3>3. LinesOf(bs) = Cat(bs[b].lines, LinesOf([bs EXCEPT ![b] = e]))
      BY <3>2, LinesOfTake
    <3> QED
      BY <3>1, <3>3
  <2>2. l \in Seq(Lengths) /\ m \in Seq(Lengths) /\ handed \in Seq(Lengths)
    <3>1. PICK s : s = toWrite'
      OBVIOUS
    <3>2. LinesOf(s) \in Seq(Lengths)
      BY <1>4, <3>1, LinesOfType
    <3>3. handed \in Seq(Lengths)
      BY DEF LoggerTypes
    <3> QED
      BY <1>2, <3>1, <3>2, <3>3
  <2>3. Cat(Cat(handed, l), m) = Cat(handed, Cat(l, m))
    <3>1. \A x, y, z \in Seq(Lengths) : Cat(Cat(x, y), z) = Cat(x, Cat(y, z))
      BY LinesCat, Zenon
    <3> HIDE DEF l, m, LoggerInv
    <3> QED
      BY <2>2, <3>1
  <2> QED
    BY <1>2, <2>1, <2>3 DEF InOrder
<1> QED
  BY <1>5, <1>6, <1>7, <1>8

LEMMA LoggerWrite == LoggerInv /\ Write => LoggerInv'
<1> SUFFICES ASSUME LoggerInv, Write PROVE LoggerInv'
  OBVIOUS
<1> USE DEF LoggerInv
<1> DEFINE n == Len(toWrite)
           first(i) == toWrite[i].lines # <<>> /\ \A j \in 1..(i - 1) : toWrite[j].lines = <<>>
           b == CHOOSE i \in 1..n : first(i)
           rest == \E i \in 1..n : toWrite[i].lines # <<>>
           empty(x) == [x EXCEPT !.room = x.room + x.used, !.used = 0, !.lines = <<>>]
<1>1. writer = "write" /\ UNCHANGED <<current, next, buffers, running, appended, mark>>
  BY DEF Write
<1>2. n \in Nat /\ n # 0 /\ \A i \in 1..n : toWrite[i] \in Buffer /\ toWrite[i].held
  <2>1. PICK s : s = toWrite
    OBVIOUS
  <2>2. s \in Seq(Buffer) /\ s # <<>> /\ \A i \in 1..Len(s) : s[i].held
    BY <1>1, <2>1 DEF LoggerTypes, BuffersHeld
  <2>3. \A i \in 1..Len(s) : s[i] \in Buffer
    BY <2>2, ElementOfSeq
  <2>4. Len(s) \in Nat /\ Len(s) # 0
    BY <2>2, EmptySeq
  <2> QED
    BY <2>1, <2>2, <2>3, <2>4
<1>3. CASE rest
  <2>1. /\ handed' = handed \o toWrite[b].lines /\ toWrite' = [toWrite EXCEPT ![b] = empty(toWrite[b])]
        /\ UNCHANGED <<spareA, spareB, writer>>
        /\ fileDay' = day
        /\ OpenFails(toWrite[b].used, Len(toWrite[b].lines)) \/ Writes(toWrite[b].used, Len(toWrite[b].lines))
    BY <1>3, Zenon DEF Write
  <2>2. \E i \in 1..n : first(i)
    <3> DEFINE S == {i \in 1..n : toWrite[i].lines # <<>>}
    <3>1. PICK i \in S : \A j \in S : i <= j
      <4>1. S # {} /\ S \subseteq Nat
        BY <1>3
      <4> HIDE DEF S
      <4> QED
        BY <4>1, LeastNumber
    <3>2. \A j \in 1..(i - 1) : j \in 1..n /\ ~ (i <= j)
      BY <1>2, <3>1
    <3>3. \A j \in 1..(i - 1) : toWrite[j].lines = <<>>
      BY <3>1, <3>2
    <3> QED
      BY <3>1, <3>3
  <2>3. b \in 1..n /\ first(b)
    BY <2>2
  <2> HIDE DEF b
  <2>4. /\ empty(toWrite[b]) \in Buffer /\ empty(toWrite[b]).held = toWrite[b].held
        /\ empty(toWrite[b]).lines = <<>>
    <3>1. toWrite[b] \in Buffer
      BY <1>2, <2>3
    <3>2. ASSUME NEW x \in Buffer
          PROVE  empty(x) \in Buffer /\ empty(x).held = x.held /\ empty(x).lines = <<>>
      <4>1. x.room \in Nat /\ x.used \in Nat /\ <<>> \in Seq(Lengths)
        BY DEF Buffer
      <4>2. x.room + x.used \in Nat
        BY <4>1
      <4> QED
        BY <4>1, <4>2 DEF Buffer
    <3> HIDE DEF empty
    <3> QED
      BY <3>1, <3>2
  <2>5. \A j \in 1..(b - 1) : toWrite[j].lines = <<>>
    BY <2>3
  <2>6. LossesExplained'
    <3>1. PICK ls : ls = toWrite[b].lines
      OBVIOUS
    <3>2. ls \in Seq(Lengths) /\ handed \in Seq(Lengths)
      BY <1>2, <2>3, <3>1 DEF LoggerTypes, Buffer
    <3>3. Len(ls) \in Nat /\ Len(handed) \in Nat /\ Len(handed \o ls) = Len(handed) + Len(ls)
      BY <3>2, ConcatProperties, LenProperties
    <3>4. PICK n1, len : n1 = Len(ls) /\ len = toWrite[b].used
      OBVIOUS
    <3>5. OpenFails(len, n1) \/ Writes(len, n1)
      BY <2>1, <3>1, <3>4
    <3>6. n1 \in Nat /\ Len(handed') = Len(handed) + n1
      BY <2>1, <3>1, <3>3, <3>4
    <3>7. LossesExplained
      OBVIOUS
    <3> QED
      BY <2>1, <3>3, <3>5, <3>6, <3>7, LoggerLoses
  <2> HIDE DEF empty, first, rest
  <2> QED
    BY <1>1, <2>1, <2>3, <2>4, <2>5, <2>6, LoggerWriteOne
<1>4. CASE ~ rest
  <2>1. /\ spareA' = toWrite[n]
        /\ spareB' = IF spareB = Null /\ n > 1 THEN toWrite[n - 1] ELSE spareB
        /\ toWrite' = <<>> /\ writer' = "check" /\ UNCHANGED fileVars
    BY <1>4, Zenon DEF Write
  <2>2. \A i \in 1..n : toWrite[i].lines = <<>>
    BY <1>4
  <2>3. /\ spareA' \in Buffer /\ spareA'.held /\ spareA'.lines = <<>>
        /\ spareB' \in Buffer /\ spareB'.lines = <<>> /\ (spareB' = Null \/ spareB'.held)
    <3>1. n \in 1..n /\ (n > 1 => n - 1 \in 1..n)
      BY <1>2
    <3> QED
      BY <1>2, <2>1, <2>2, <3>1 DEF LoggerTypes, BuffersHeld
  <2>4. <<>> \in Seq(Buffer) /\ \A i \in 1..Len(<<>>) : <<>>[i].held /\ <<>>[i].lines = <<>>
    OBVIOUS
  <2>10. LossesExplained' /\ UNCHANGED handed
    BY <2>1 DEF LossesExplained, fileVars
  <2>5. LoggerTypes'
    BY <1>1, <2>1, <2>3, <2>4, <2>10 DEF LoggerTypes
  <2>6. BuffersHeld'
    BY <1>1, <2>1, <2>3, <2>4 DEF BuffersHeld
  <2>7. Stopped'
    BY <1>1, <2>1, <2>10 DEF Stopped
  <2>8. LinesOf(toWrite) = <<>> /\ LinesOf(toWrite') = <<>>
    BY <2>1, <2>2, <2>4, LinesOfNothing DEF LoggerTypes
  <2>9. InOrder'
    BY <1>1, <2>1, <2>8, <2>10 DEF InOrder
  <2> QED
    BY <2>5, <2>6, <2>7, <2>9, <2>10
<1> QED
  BY <1>3, <1>4

LEMMA LoggerStep == LoggerInv /\ [LoggerNext]_loggerVars => LoggerInv'
<1> SUFFICES ASSUME LoggerInv, [LoggerNext]_loggerVars PROVE LoggerInv'
  OBVIOUS
<1>1. CASE Check
  BY <1>1, LoggerCheck
<1>2. CASE Write
  BY <1>2, LoggerWrite
<1>3. CASE AppendLine
  BY <1>3, LoggerAppend
<1>4. CASE StopLogger
  BY <1>4, LoggerStop
<1>5. CASE Midnight
  BY <1>5, LoggerMidnight
<1>6. CASE UNCHANGED loggerVars
  BY <1>6, LoggerMidnight
<1> QED
  BY <1>1, <1>2, <1>3, <1>4, <1>5, <1>6, Zenon DEF LoggerNext, BackThread

LEMMA LoggerKeepsLines == LoggerInv => LinesKept
<1> SUFFICES ASSUME LoggerInv PROVE LinesKept
  OBVIOUS
<1>1. handed \o LinesOf(toWrite) \o LinesOf(buffers) \o current.lines = appended
  BY DEF LoggerInv, InOrder, Cat
<1>2. current # Null
  BY DEF LoggerInv, BuffersHeld, Null
<1>3. writer = "exit" => Len(handed) >= mark
  BY DEF LoggerInv, Stopped, LoggerTypes
<1>4. \A l \in lost : l.line \in 1..Len(handed) /\ l.day \in badDays
  BY DEF LoggerInv, LossesExplained
<1> QED
  BY <1>1, <1>2, <1>3, <1>4 DEF LinesKept

\* Whatever the threads and the disk do, every appended line is in one buffer
\* or was handed to write(), in order, stop() returns when all of them were,
\* and a day without a failed open or write loses none.
THEOREM LinesAreKept == LoggerSpec => []LinesKept
<1>1. LoggerInit => LoggerInv
  BY LoggerStarts
<1>2. LoggerInv /\ [LoggerNext]_loggerVars => LoggerInv'
  BY LoggerStep
<1>3. LoggerInv => LinesKept
  BY LoggerKeepsLines
<1> QED
  BY <1>1, <1>2, <1>3, PTL DEF LoggerSpec

-----------------------------------------------------------------------------
(* ByteBuffer.                                                             *)

CONSTANTS kCheapPrepend, MaxBytes, MaxCall
VARIABLES buff, content, made

Bytes == INSTANCE ByteBuffer

\* The room kept in front is a number of bytes.
CheapPrepend == kCheapPrepend \in Nat

\* The indices stay inside the vector, which never shrinks below that room.
Vector == [read : Nat, write : Nat, bytes : Seq(Nat)]
Sound(b) ==
    /\ b \in Vector
    /\ b.read <= b.write /\ b.write <= Len(b.bytes)
    /\ kCheapPrepend <= Len(b.bytes)

\* The readable part, byte by byte.
Holds(b, c) ==
    /\ c \in Seq(Nat) /\ Len(c) = b.write - b.read
    /\ \A i \in 1..Len(c) : c[i] = b.bytes[b.read + i]

LEMMA VectorFields ==
    ASSUME NEW b, Sound(b)
    PROVE  /\ b.read \in Nat /\ b.write \in Nat /\ b.bytes \in Seq(Nat) /\ Len(b.bytes) \in Nat
           /\ b.read <= b.write /\ b.write <= Len(b.bytes) /\ kCheapPrepend <= Len(b.bytes)
           /\ \A i \in 1..Len(b.bytes) : b.bytes[i] \in Nat
  BY ElementOfSeq DEF Sound, Vector

LEMMA MakeSound ==
    ASSUME NEW r \in Nat, NEW w \in Nat, NEW v \in Seq(Nat), r <= w, w <= Len(v), kCheapPrepend <= Len(v)
    PROVE  Sound([read |-> r, write |-> w, bytes |-> v])
  BY DEF Sound, Vector

LEMMA ReadableHeld ==
    ASSUME NEW b, Sound(b)
    PROVE  /\ Holds(b, Bytes!Readable(b))
           /\ \A c : Holds(b, c) => c = Bytes!Readable(b)
<1> DEFINE s == Bytes!Readable(b)
<1>1. s = SubSeq(b.bytes, b.read + 1, b.write)
  BY DEF Bytes!Readable
<1>2. /\ b.read + 1 \in Int /\ b.write \in Int
      /\ \A i \in (b.read + 1)..b.write : b.bytes[i] \in Nat
  BY VectorFields
<1> HIDE DEF s
<1>3. /\ s \in Seq(Nat)
      /\ Len(s) = IF b.read + 1 <= b.write THEN b.write - (b.read + 1) + 1 ELSE 0
      /\ \A i \in 1..(b.write - (b.read + 1) + 1) : s[i] = b.bytes[(b.read + 1) + i - 1]
  <2>1. PICK m, n, z : m = b.read + 1 /\ n = b.write /\ z = b.bytes
    OBVIOUS
  <2>2. m \in Int /\ n \in Int /\ \A i \in m..n : z[i] \in Nat
    BY <1>2, <2>1
  <2>3. /\ SubSeq(z, m, n) \in Seq(Nat) /\ Len(SubSeq(z, m, n)) = IF m <= n THEN n - m + 1 ELSE 0
        /\ \A i \in 1..(n - m + 1) : SubSeq(z, m, n)[i] = z[m + i - 1]
    BY <2>2, SubSeqProperties
  <2>4. s = SubSeq(z, m, n)
    BY <1>1, <2>1
  <2> QED
    BY <2>1, <2>3, <2>4
<1>4. Len(s) = b.write - b.read
  BY <1>3, VectorFields
<1>5. ASSUME NEW i \in 1..Len(s) PROVE s[i] = b.bytes[b.read + i]
  <2>1. i \in 1..(b.write - (b.read + 1) + 1) /\ (b.read + 1) + i - 1 = b.read + i
    BY <1>4, VectorFields
  <2> QED
    BY <1>3, <2>1
<1>6. Holds(b, s)
  BY <1>3, <1>4, <1>5 DEF Holds
<1>7. ASSUME NEW c, Holds(b, c) PROVE c = s
  <2>1. c \in Seq(Nat) /\ Len(c) = Len(s) /\ \A i \in 1..Len(c) : c[i] = s[i]
    BY <1>4, <1>5, <1>7 DEF Holds
  <2> QED
    BY <1>3, <2>1, SeqEqual
<1> QED
  BY <1>6, <1>7 DEF s

\* std::copy.
LEMMA Copied ==
    ASSUME NEW b, NEW at \in Nat, NEW s \in Seq(Nat), b.bytes \in Seq(Nat),
           at + Len(s) <= Len(b.bytes)
    PROVE  /\ Bytes!CopyTo(b, at, s) \in Seq(Nat)
           /\ Len(Bytes!CopyTo(b, at, s)) = Len(b.bytes)
           /\ \A i \in 1..Len(s) : Bytes!CopyTo(b, at, s)[at + i] = s[i]
           /\ \A i \in 1..Len(b.bytes) : i <= at \/ i > at + Len(s) => Bytes!CopyTo(b, at, s)[i] = b.bytes[i]
<1>1. PICK n \in Nat, k \in Nat : n = Len(b.bytes) /\ k = Len(s)
  OBVIOUS
<1>2. (\A i \in 1..n : b.bytes[i] \in Nat) /\ (\A i \in 1..k : s[i] \in Nat)
  BY <1>1, ElementOfSeq
<1> DEFINE f == [i \in 1..n |-> IF i \in (at + 1)..(at + k) THEN s[i - at] ELSE b.bytes[i]]
<1>3. Bytes!CopyTo(b, at, s) = f
  BY <1>1 DEF Bytes!CopyTo
<1>4. \A i \in 1..n : f[i] \in Nat
  <2> SUFFICES ASSUME NEW i \in 1..n PROVE f[i] \in Nat
    OBVIOUS
  <2>1. i \in (at + 1)..(at + k) => i - at \in 1..k
    OBVIOUS
  <2> QED
    BY <1>2, <2>1
<1>5. f \in Seq(Nat) /\ Len(f) = n
  BY <1>4
<1>6. ASSUME NEW i \in 1..k PROVE f[at + i] = s[i]
  <2>1. at + i \in 1..n /\ at + i \in (at + 1)..(at + k) /\ (at + i) - at = i
    BY <1>1
  <2> QED
    BY <2>1
<1>7. ASSUME NEW i \in 1..n, i <= at \/ i > at + k PROVE f[i] = b.bytes[i]
  <2>1. i \notin (at + 1)..(at + k)
    BY <1>7
  <2> QED
    BY <2>1
<1> HIDE DEF f
<1> QED
  BY <1>1, <1>3, <1>5, <1>6, <1>7

LEMMA ZerosFacts ==
    ASSUME NEW n \in Nat
    PROVE  Bytes!Zeros(n) \in Seq(Nat) /\ Len(Bytes!Zeros(n)) = n
  BY DEF Bytes!Zeros

\* Concatenation, entry by entry.
LEMMA CatEntries ==
    ASSUME NEW a \in Seq(Nat), NEW c \in Seq(Nat)
    PROVE  /\ Cat(a, c) \in Seq(Nat) /\ Len(Cat(a, c)) = Len(a) + Len(c)
           /\ \A i \in 1..(Len(a) + Len(c)) : Cat(a, c)[i] = IF i <= Len(a) THEN a[i] ELSE c[i - Len(a)]
  BY ConcatProperties DEF Cat

\* A sequence put behind the readable part, where there is room, ...
PutBehind(b, s) == [b EXCEPT !.bytes = Bytes!CopyTo(b, b.write, s), !.write = @ + Len(s)]

\* ... and one put before it.
Before(b, s) == [b EXCEPT !.read = @ - Len(s), !.bytes = Bytes!CopyTo(b, b.read - Len(s), s)]

LEMMA BehindFields ==
    ASSUME NEW b, Sound(b), NEW s
    PROVE  PutBehind(b, s) = [read |-> b.read, write |-> b.write + Len(s), bytes |-> Bytes!CopyTo(b, b.write, s)]
<1> DEFINE v == Bytes!CopyTo(b, b.write, s)
           y == [b EXCEPT !.bytes = v]
<1>1. \A x \in Vector : \A u, k : [x EXCEPT !.bytes = u, !.write = @ + k] = [[x EXCEPT !.bytes = u] EXCEPT !.write = @ + k]
  BY DEF Vector
<1>2. b \in Vector
  BY DEF Sound
<1>3. PutBehind(b, s) = [y EXCEPT !.write = @ + Len(s)]
  BY <1>1, <1>2 DEF PutBehind
<1>4. y = [read |-> b.read, write |-> b.write, bytes |-> v]
  <2> HIDE DEF v
  <2> QED
    BY <1>2 DEF Vector
<1> HIDE DEF y, v
<1>5. [y EXCEPT !.write = @ + Len(s)] = [read |-> b.read, write |-> b.write + Len(s), bytes |-> v]
  BY <1>4
<1> QED
  BY <1>3, <1>5 DEF v

LEMMA BeforeFields ==
    ASSUME NEW b, Sound(b), NEW s
    PROVE  Before(b, s) = [read |-> b.read - Len(s), write |-> b.write, bytes |-> Bytes!CopyTo(b, b.read - Len(s), s)]
<1> DEFINE v == Bytes!CopyTo(b, b.read - Len(s), s)
           y == [b EXCEPT !.read = @ - Len(s)]
<1>1. \A x \in Vector : \A u, k : [x EXCEPT !.read = @ - k, !.bytes = u] = [[x EXCEPT !.read = @ - k] EXCEPT !.bytes = u]
  BY DEF Vector
<1>2. b \in Vector
  BY DEF Sound
<1>3. Before(b, s) = [y EXCEPT !.bytes = v]
  BY <1>1, <1>2 DEF Before
<1>4. y = [read |-> b.read - Len(s), write |-> b.write, bytes |-> b.bytes]
  BY <1>2 DEF Vector
<1> HIDE DEF y, v
<1>5. [y EXCEPT !.bytes = v] = [read |-> b.read - Len(s), write |-> b.write, bytes |-> v]
  BY <1>4
<1> QED
  BY <1>3, <1>5 DEF v

LEMMA BehindHolds ==
    ASSUME NEW b, Sound(b), NEW s \in Seq(Nat), b.write + Len(s) <= Len(b.bytes)
    PROVE  /\ Sound(PutBehind(b, s))
           /\ Len(PutBehind(b, s).bytes) = Len(b.bytes)
           /\ \A c : Holds(b, c) => Holds(PutBehind(b, s), Cat(c, s))
<1>1. PICK r, w, v : r = b.read /\ w = b.write /\ v = Bytes!CopyTo(b, b.write, s)
  OBVIOUS
<1>2. PutBehind(b, s) = [read |-> r, write |-> w + Len(s), bytes |-> v]
  BY <1>1, BehindFields
<1>3. r \in Nat /\ w \in Nat /\ r <= w /\ Len(s) \in Nat /\ w <= Len(b.bytes) /\ Len(b.bytes) \in Nat
  BY <1>1, VectorFields
<1>4. /\ v \in Seq(Nat) /\ Len(v) = Len(b.bytes)
      /\ \A i \in 1..Len(s) : v[w + i] = s[i]
      /\ \A i \in 1..Len(b.bytes) : i <= w \/ i > w + Len(s) => v[i] = b.bytes[i]
  <2>1. b.bytes \in Seq(Nat) /\ w + Len(s) <= Len(b.bytes)
    BY <1>1, VectorFields
  <2>2. /\ Bytes!CopyTo(b, w, s) \in Seq(Nat)
        /\ Len(Bytes!CopyTo(b, w, s)) = Len(b.bytes)
        /\ \A i \in 1..Len(s) : Bytes!CopyTo(b, w, s)[w + i] = s[i]
        /\ \A i \in 1..Len(b.bytes) : i <= w \/ i > w + Len(s) => Bytes!CopyTo(b, w, s)[i] = b.bytes[i]
    BY <1>3, <2>1, Copied
  <2> QED
    BY <1>1, <2>2
<1>5. Sound(PutBehind(b, s))
  <2>1. w + Len(s) \in Nat /\ r <= w + Len(s) /\ w + Len(s) <= Len(v) /\ kCheapPrepend <= Len(v)
    BY <1>1, <1>3, <1>4, VectorFields
  <2> QED
    BY <1>2, <1>3, <1>4, <2>1, MakeSound
<1>6. ASSUME NEW c, Holds(b, c) PROVE Holds(PutBehind(b, s), Cat(c, s))
  <2>1. c \in Seq(Nat) /\ Len(c) = w - r /\ \A i \in 1..Len(c) : c[i] = b.bytes[r + i]
    BY <1>1, <1>6 DEF Holds
  <2>2. /\ Cat(c, s) \in Seq(Nat) /\ Len(Cat(c, s)) = Len(c) + Len(s)
        /\ \A i \in 1..(Len(c) + Len(s)) : Cat(c, s)[i] = IF i <= Len(c) THEN c[i] ELSE s[i - Len(c)]
    BY <2>1, CatEntries
  <2>3. ASSUME NEW i \in 1..(Len(c) + Len(s)) PROVE Cat(c, s)[i] = v[r + i]
    <3>1. CASE i <= Len(c)
      <4>1. i \in 1..Len(c) /\ r + i \in 1..Len(b.bytes) /\ r + i <= w
        <5>1. i \in Nat /\ i >= 1 /\ Len(c) \in Nat /\ r \in Nat /\ w \in Nat /\ Len(b.bytes) \in Nat /\ w <= Len(b.bytes)
          BY <1>3, <2>1
        <5>2. Len(c) = w - r
          BY <2>1
        <5> QED
          BY <3>1, <5>1, <5>2
      <4> QED
        BY <1>4, <2>1, <2>2, <3>1, <4>1
    <3>2. CASE ~ (i <= Len(c))
      <4>1. i - Len(c) \in 1..Len(s) /\ w + (i - Len(c)) = r + i
        BY <1>3, <2>1, <3>2
      <4> QED
        BY <1>4, <2>2, <3>2, <4>1
    <3> QED
      BY <3>1, <3>2
  <2>4. Len(Cat(c, s)) = (w + Len(s)) - r
    BY <1>3, <2>1, <2>2
  <2> QED
    BY <1>2, <2>2, <2>3, <2>4 DEF Holds
<1> QED
  BY <1>2, <1>4, <1>5, <1>6

LEMMA BeforeHolds ==
    ASSUME NEW b, Sound(b), NEW s \in Seq(Nat), Len(s) <= b.read
    PROVE  /\ Sound(Before(b, s))
           /\ \A c : Holds(b, c) => Holds(Before(b, s), Cat(s, c))
<1>1. PICK r, w, v : r = b.read - Len(s) /\ w = b.write /\ v = Bytes!CopyTo(b, b.read - Len(s), s)
  OBVIOUS
<1>2. Before(b, s) = [read |-> r, write |-> w, bytes |-> v]
  BY <1>1, BeforeFields
<1>3. r \in Nat /\ w \in Nat /\ r + Len(s) <= w /\ Len(s) \in Nat /\ r + Len(s) = b.read /\ w <= Len(b.bytes) /\ Len(b.bytes) \in Nat
  BY <1>1, VectorFields
<1>4. /\ v \in Seq(Nat) /\ Len(v) = Len(b.bytes)
      /\ \A i \in 1..Len(s) : v[r + i] = s[i]
      /\ \A i \in 1..Len(b.bytes) : i <= r \/ i > r + Len(s) => v[i] = b.bytes[i]
  <2>1. r + Len(s) <= Len(b.bytes) /\ b.bytes \in Seq(Nat)
    BY <1>3, VectorFields
  <2> QED
    <3>1. /\ Bytes!CopyTo(b, r, s) \in Seq(Nat)
          /\ Len(Bytes!CopyTo(b, r, s)) = Len(b.bytes)
          /\ \A i \in 1..Len(s) : Bytes!CopyTo(b, r, s)[r + i] = s[i]
          /\ \A i \in 1..Len(b.bytes) : i <= r \/ i > r + Len(s) => Bytes!CopyTo(b, r, s)[i] = b.bytes[i]
      BY <1>3, <2>1, Copied
    <3> QED
      BY <1>1, <3>1
<1>5. Sound(Before(b, s))
  <2>1. r <= w /\ w <= Len(v) /\ kCheapPrepend <= Len(v)
    BY <1>3, <1>4, VectorFields
  <2> QED
    BY <1>2, <1>3, <1>4, <2>1, MakeSound
<1>6. ASSUME NEW c, Holds(b, c) PROVE Holds(Before(b, s), Cat(s, c))
  <2>1. c \in Seq(Nat) /\ Len(c) = w - (r + Len(s)) /\ \A i \in 1..Len(c) : c[i] = b.bytes[(r + Len(s)) + i]
    BY <1>1, <1>3, <1>6 DEF Holds
  <2>2. /\ Cat(s, c) \in Seq(Nat) /\ Len(Cat(s, c)) = Len(s) + Len(c)
        /\ \A i \in 1..(Len(s) + Len(c)) : Cat(s, c)[i] = IF i <= Len(s) THEN s[i] ELSE c[i - Len(s)]
    BY <2>1, CatEntries
  <2>3. ASSUME NEW i \in 1..(Len(s) + Len(c)) PROVE Cat(s, c)[i] = v[r + i]
    <3>1. CASE i <= Len(s)
      <4>1. i \in 1..Len(s)
        BY <3>1
      <4> QED
        BY <1>4, <2>2, <3>1, <4>1
    <3>2. CASE ~ (i <= Len(s))
      <4>1. /\ i - Len(s) \in 1..Len(c) /\ (r + Len(s)) + (i - Len(s)) = r + i
            /\ r + i \in 1..Len(b.bytes) /\ r + i > r + Len(s)
        BY <1>3, <2>1, <3>2
      <4> QED
        BY <1>4, <2>1, <2>2, <3>2, <4>1
    <3> QED
      BY <3>1, <3>2
  <2>4. Len(Cat(s, c)) = w - r
    BY <1>3, <2>1, <2>2
  <2> QED
    BY <1>2, <2>2, <2>3, <2>4 DEF Holds
<1> QED
  BY <1>5, <1>6

LEMMA EnsureWriteableHolds ==
    ASSUME CheapPrepend, NEW b, Sound(b), NEW n \in Nat
    PROVE  /\ Sound(Bytes!EnsureWriteable(b, n))
           /\ Bytes!EnsureWriteable(b, n).write + n <= Len(Bytes!EnsureWriteable(b, n).bytes)
           /\ \A c : Holds(b, c) => Holds(Bytes!EnsureWriteable(b, n), c)
<1> DEFINE e == Bytes!EnsureWriteable(b, n)
           room == Len(b.bytes) - b.write
<1>1. PICK r, w, v, k : r = b.read /\ w = b.write /\ v = b.bytes /\ k = kCheapPrepend
  OBVIOUS
<1>2. /\ r \in Nat /\ w \in Nat /\ v \in Seq(Nat) /\ Len(v) \in Nat /\ k \in Nat
      /\ r <= w /\ w <= Len(v) /\ k <= Len(v)
      /\ b = [read |-> r, write |-> w, bytes |-> v]
  BY <1>1, VectorFields DEF CheapPrepend, Sound, Vector
<1>3. CASE n <= room
  <2>1. e = b
    BY <1>3 DEF Bytes!EnsureWriteable, Bytes!WriteableBytes
  <2>2. w + n <= Len(v)
    BY <1>1, <1>2, <1>3
  <2> HIDE DEF e
  <2> QED
    BY <1>1, <2>1, <2>2 DEF e
<1>4. CASE ~ (n <= room) /\ room + b.read < n + kCheapPrepend
  <2>1. PICK z : z = Bytes!Zeros(n - room)
    OBVIOUS
  <2>2. e = [b EXCEPT !.bytes = @ \o z]
    BY <1>4, <2>1 DEF Bytes!EnsureWriteable, Bytes!WriteableBytes
  <2>3. [b EXCEPT !.bytes = @ \o z] = [read |-> r, write |-> w, bytes |-> Cat(v, z)]
    <3>1. \A u : [b EXCEPT !.bytes = u] = [read |-> r, write |-> w, bytes |-> u]
      BY <1>2
    <3>2. [b EXCEPT !.bytes = Cat(v, z)] = [b EXCEPT !.bytes = @ \o z]
      BY <1>1 DEF Cat
    <3> QED
      BY <3>1, <3>2
  <2>4. n - room \in Nat /\ n - room = (n + w) - Len(v)
    BY <1>1, <1>2, <1>4
  <2>5. z \in Seq(Nat) /\ Len(z) = (n + w) - Len(v)
    BY <2>1, <2>4, ZerosFacts
  <2>6. /\ Cat(v, z) \in Seq(Nat) /\ Len(Cat(v, z)) = Len(v) + Len(z)
        /\ \A i \in 1..(Len(v) + Len(z)) : Cat(v, z)[i] = IF i <= Len(v) THEN v[i] ELSE z[i - Len(v)]
    BY <1>2, <2>5, CatEntries
  <2>7. Len(Cat(v, z)) = w + n
    BY <1>2, <2>5, <2>6
  <2>8. Sound([read |-> r, write |-> w, bytes |-> Cat(v, z)])
    <3>1. w <= Len(Cat(v, z)) /\ kCheapPrepend <= Len(Cat(v, z))
      BY <1>1, <1>2, <2>4, <2>7
    <3> QED
      BY <1>2, <2>6, <3>1, MakeSound
  <2>9. ASSUME NEW c, Holds(b, c) PROVE Holds([read |-> r, write |-> w, bytes |-> Cat(v, z)], c)
    <3>1. c \in Seq(Nat) /\ Len(c) = w - r /\ \A i \in 1..Len(c) : c[i] = v[r + i]
      BY <1>1, <2>9 DEF Holds
    <3>2. ASSUME NEW i \in 1..Len(c) PROVE Cat(v, z)[r + i] = v[r + i]
      <4>1. r + i \in 1..(Len(v) + Len(z)) /\ r + i <= Len(v)
        <5>1. PICK l, q : l = Len(v) /\ q = Len(z)
          OBVIOUS
        <5>2. l \in Nat /\ q \in Nat /\ w <= l /\ i \in 1..(w - r)
          BY <1>2, <2>5, <3>1, <5>1
        <5>3. r + i \in 1..(l + q) /\ r + i <= l
          BY <1>2, <5>2
        <5> QED
          BY <5>1, <5>3
      <4> QED
        BY <2>6, <4>1
    <3> QED
      BY <3>1, <3>2 DEF Holds
  <2>10. e.write + n <= Len(e.bytes)
    BY <1>2, <2>2, <2>3, <2>6, <2>7
  <2> HIDE DEF e
  <2> QED
    BY <2>2, <2>3, <2>8, <2>9, <2>10 DEF e
<1>5. CASE ~ (n <= room) /\ ~ (room + b.read < n + kCheapPrepend)
  <2>1. PICK p, s : p = Bytes!CopyTo(b, k, s) /\ s = Bytes!Readable(b)
    OBVIOUS
  <2>2. e = [read |-> k, write |-> k + (w - r), bytes |-> p]
    BY <1>1, <1>5, <2>1 DEF Bytes!EnsureWriteable, Bytes!WriteableBytes, Bytes!ReadableBytes
  <2>3. s \in Seq(Nat) /\ Len(s) = w - r
    BY <1>1, <2>1, ReadableHeld DEF Holds
  <2>4. k + (w - r) \in Nat /\ k <= k + (w - r) /\ k + (w - r) + n <= Len(v) /\ k + Len(s) <= Len(v)
    <3>1. PICK l : l = Len(v)
      OBVIOUS
    <3>2. l \in Nat /\ w <= l /\ (l - w) + r >= n + k
      BY <1>1, <1>2, <1>5, <3>1
    <3>3. k + (w - r) \in Nat /\ k <= k + (w - r) /\ k + (w - r) + n <= l /\ k + (w - r) <= l
      BY <1>2, <3>2
    <3> QED
      BY <2>3, <3>1, <3>3
  <2> HIDE DEF e, room
  <2>5. /\ p \in Seq(Nat) /\ Len(p) = Len(v)
        /\ \A i \in 1..Len(s) : p[k + i] = s[i]
    <3>1. /\ Bytes!CopyTo(b, k, s) \in Seq(Nat)
          /\ Len(Bytes!CopyTo(b, k, s)) = Len(b.bytes)
          /\ \A i \in 1..Len(s) : Bytes!CopyTo(b, k, s)[k + i] = s[i]
          /\ \A i \in 1..Len(b.bytes) : i <= k \/ i > k + Len(s) => Bytes!CopyTo(b, k, s)[i] = b.bytes[i]
      <4>1. b.bytes \in Seq(Nat) /\ k + Len(s) <= Len(b.bytes) /\ k \in Nat /\ s \in Seq(Nat)
        BY <1>1, <1>2, <2>3, <2>4
      <4> QED
        BY <4>1, Copied
    <3> QED
      BY <1>1, <2>1, <3>1
  <2>6. Sound(e)
    <3>1. k + (w - r) <= Len(p) /\ kCheapPrepend <= Len(p)
      BY <1>1, <1>2, <2>4, <2>5
    <3> QED
      BY <1>2, <2>2, <2>4, <2>5, <3>1, MakeSound
  <2>7. ASSUME NEW c, Holds(b, c) PROVE Holds([read |-> k, write |-> k + (w - r), bytes |-> p], c)
    <3>1. c = s
      BY <2>1, <2>7, ReadableHeld
    <3>2. Len(s) = (k + (w - r)) - k
      BY <1>2, <2>3
    <3>3. \A i \in 1..Len(s) : s[i] = p[k + i]
      BY <2>5
    <3> QED
      BY <2>3, <3>1, <3>2, <3>3 DEF Holds
  <2>8. e.write + n <= Len(e.bytes)
    BY <2>2, <2>4, <2>5
  <2> QED
    BY <2>2, <2>6, <2>7, <2>8 DEF e
<1> QED
  BY <1>3, <1>4, <1>5

LEMMA EnsurePrependHolds ==
    ASSUME CheapPrepend, NEW b, Sound(b), NEW n \in Nat
    PROVE  /\ Sound(Bytes!EnsurePrepend(b, n))
           /\ n <= Bytes!EnsurePrepend(b, n).read
           /\ \A c : Holds(b, c) => Holds(Bytes!EnsurePrepend(b, n), c)
<1> DEFINE e == Bytes!EnsurePrepend(b, n)
           keep == IF n > kCheapPrepend THEN n ELSE kCheapPrepend
<1>1. PICK s, z : s = Bytes!Readable(b) /\ z = Bytes!Zeros(keep)
  OBVIOUS
<1>2. keep \in Nat /\ n <= keep /\ kCheapPrepend <= keep
  BY DEF CheapPrepend
<1>3. CASE b.read >= n
  <2>1. e = b
    BY <1>3 DEF Bytes!EnsurePrepend
  <2>2. n <= b.read
    BY <1>3, VectorFields
  <2> HIDE DEF e
  <2> QED
    BY <2>1, <2>2 DEF e
<1>4. CASE ~ (b.read >= n)
  <2>1. PICK k, m : k = keep /\ m = b.write - b.read
    OBVIOUS
  <2>2. e = [read |-> k, write |-> k + m, bytes |-> Cat(z, s)]
    BY <1>1, <1>4, <2>1 DEF Bytes!EnsurePrepend, Bytes!ReadableBytes, Cat
  <2>3. k \in Nat /\ m \in Nat /\ n <= k /\ kCheapPrepend <= k
    BY <1>2, <2>1, VectorFields
  <2>4. s \in Seq(Nat) /\ Len(s) = m
    BY <1>1, <2>1, ReadableHeld DEF Holds
  <2>5. z \in Seq(Nat) /\ Len(z) = k
    BY <1>1, <1>2, <2>1, ZerosFacts
  <2>6. /\ Cat(z, s) \in Seq(Nat) /\ Len(Cat(z, s)) = Len(z) + Len(s)
        /\ \A i \in 1..(Len(z) + Len(s)) : Cat(z, s)[i] = IF i <= Len(z) THEN z[i] ELSE s[i - Len(z)]
    BY <2>4, <2>5, CatEntries
  <2>7. Sound(e)
    <3>1. k + m \in Nat /\ k <= k + m /\ k + m <= Len(Cat(z, s)) /\ kCheapPrepend <= Len(Cat(z, s))
      BY <2>3, <2>4, <2>5, <2>6 DEF CheapPrepend
    <3> HIDE DEF e
    <3> QED
      BY <2>2, <2>3, <2>6, <3>1, MakeSound
  <2>8. ASSUME NEW c, Holds(b, c) PROVE Holds([read |-> k, write |-> k + m, bytes |-> Cat(z, s)], c)
    <3>1. c = s
      BY <1>1, <2>8, ReadableHeld
    <3>2. Len(s) = (k + m) - k
      BY <2>3, <2>4
    <3>3. ASSUME NEW i \in 1..Len(s) PROVE s[i] = Cat(z, s)[k + i]
      <4>1. k + i \in 1..(Len(z) + Len(s)) /\ ~ (k + i <= Len(z)) /\ (k + i) - Len(z) = i
        BY <2>3, <2>4, <2>5
      <4> QED
        BY <2>6, <4>1
    <3> QED
      BY <2>4, <3>1, <3>2, <3>3 DEF Holds
  <2> HIDE DEF e
  <2> QED
    BY <2>2, <2>3, <2>7, <2>8 DEF e
<1> QED
  BY <1>3, <1>4

LEMMA AppendBytesHolds ==
    ASSUME CheapPrepend, NEW b, Sound(b), NEW s \in Seq(Nat)
    PROVE  /\ Sound(Bytes!AppendBytes(b, s))
           /\ \A c : Holds(b, c) => Holds(Bytes!AppendBytes(b, s), Cat(c, s))
<1>1. PICK e : e = Bytes!EnsureWriteable(b, Len(s))
  OBVIOUS
<1>2. Bytes!AppendBytes(b, s) = PutBehind(e, s)
  BY <1>1 DEF Bytes!AppendBytes, PutBehind
<1>3. Sound(e) /\ e.write + Len(s) <= Len(e.bytes) /\ \A c : Holds(b, c) => Holds(e, c)
  BY <1>1, EnsureWriteableHolds
<1>4. Sound(PutBehind(e, s)) /\ \A c : Holds(e, c) => Holds(PutBehind(e, s), Cat(c, s))
  BY <1>3, BehindHolds
<1> QED
  BY <1>2, <1>3, <1>4

LEMMA PrependHolds ==
    ASSUME CheapPrepend, NEW b, Sound(b), NEW s \in Seq(Nat)
    PROVE  /\ Sound(Bytes!Prepend(b, s))
           /\ \A c : Holds(b, c) => Holds(Bytes!Prepend(b, s), Cat(s, c))
<1>1. PICK e : e = Bytes!EnsurePrepend(b, Len(s))
  OBVIOUS
<1>2. Bytes!Prepend(b, s) = Before(e, s)
  BY <1>1 DEF Bytes!Prepend, Before
<1>3. Sound(e) /\ Len(s) <= e.read /\ \A c : Holds(b, c) => Holds(e, c)
  BY <1>1, EnsurePrependHolds
<1>4. Sound(Before(e, s)) /\ \A c : Holds(e, c) => Holds(Before(e, s), Cat(s, c))
  BY <1>3, BeforeHolds
<1> QED
  BY <1>2, <1>3, <1>4

LEMMA Halves ==
    ASSUME NEW X, NEW s \in Seq(X), NEW n \in Nat, n <= Len(s)
    PROVE  /\ SubSeq(s, 1, n) \in Seq(X) /\ Len(SubSeq(s, 1, n)) = n
           /\ SubSeq(s, n + 1, Len(s)) \in Seq(X) /\ Len(SubSeq(s, n + 1, Len(s))) = Len(s) - n
           /\ \A i \in 1..(Len(s) - n) : SubSeq(s, n + 1, Len(s))[i] = s[n + i]
           /\ Cat(SubSeq(s, 1, n), SubSeq(s, n + 1, Len(s))) = s
<1>1. \A i \in 1..Len(s) : s[i] \in X
  BY ElementOfSeq
<1>2. PICK l \in Nat : l = Len(s)
  OBVIOUS
<1>3. PICK x, y, m : x = SubSeq(s, 1, n) /\ y = SubSeq(s, m, l) /\ m = n + 1
  OBVIOUS
<1>4. x \in Seq(X) /\ Len(x) = n /\ \A i \in 1..n : x[i] = s[i]
  <2>1. \A i \in 1..n : s[i] \in X
    BY <1>1, <1>2
  <2>2. /\ SubSeq(s, 1, n) \in Seq(X)
        /\ Len(SubSeq(s, 1, n)) = IF 1 <= n THEN n - 1 + 1 ELSE 0
        /\ \A i \in 1..(n - 1 + 1) : SubSeq(s, 1, n)[i] = s[1 + i - 1]
    BY <2>1, SubSeqProperties
  <2> QED
    BY <1>3, <2>2
<1>5. y \in Seq(X) /\ Len(y) = l - n /\ \A i \in 1..(l - n) : y[i] = s[n + i]
  <2>1. m \in Int /\ l \in Int /\ \A i \in m..l : s[i] \in X
    BY <1>1, <1>2, <1>3
  <2>2. /\ SubSeq(s, m, l) \in Seq(X)
        /\ Len(SubSeq(s, m, l)) = IF m <= l THEN l - m + 1 ELSE 0
        /\ \A i \in 1..(l - m + 1) : SubSeq(s, m, l)[i] = s[m + i - 1]
    BY <2>1, SubSeqProperties
  <2>3. ASSUME NEW i \in 1..(l - n) PROVE y[i] = s[n + i]
    <3>1. i \in 1..(l - m + 1) /\ m + i - 1 = n + i
      BY <1>3
    <3> QED
      BY <1>3, <2>2, <3>1
  <2>4. Len(y) = l - n
    BY <1>2, <1>3, <2>2
  <2> QED
    BY <1>3, <2>2, <2>3, <2>4
<1>6. Cat(x, y) = s
  <2>1. /\ Cat(x, y) \in Seq(X) /\ Len(Cat(x, y)) = Len(x) + Len(y)
        /\ \A i \in 1..(Len(x) + Len(y)) : Cat(x, y)[i] = IF i <= Len(x) THEN x[i] ELSE y[i - Len(x)]
    BY <1>4, <1>5, ConcatProperties DEF Cat
  <2>2. Len(Cat(x, y)) = l
    BY <1>2, <1>4, <1>5, <2>1
  <2>3. ASSUME NEW i \in 1..l PROVE Cat(x, y)[i] = s[i]
    <3>1. i \in 1..(Len(x) + Len(y))
      BY <1>2, <1>4, <1>5
    <3>2. CASE i <= n
      <4>1. i \in 1..n /\ i <= Len(x)
        BY <1>4, <3>2
      <4> QED
        BY <1>4, <2>1, <3>1, <4>1
    <3>3. CASE ~ (i <= n)
      <4>1. i - n \in 1..(l - n) /\ n + (i - n) = i /\ ~ (i <= Len(x)) /\ i - Len(x) = i - n
        BY <1>4, <3>3
      <4> QED
        BY <1>5, <2>1, <3>1, <4>1
    <3> QED
      BY <3>2, <3>3
  <2> QED
    BY <1>2, <2>1, <2>2, <2>3, SeqEqual
<1> QED
  BY <1>2, <1>3, <1>4, <1>5, <1>6

LEMMA ReadFdHolds ==
    ASSUME CheapPrepend, NEW b, Sound(b), NEW s \in Seq(Nat)
    PROVE  /\ Sound(Bytes!ReadFd(b, s))
           /\ \A c : Holds(b, c) => Holds(Bytes!ReadFd(b, s), Cat(c, s))
<1> DEFINE room == Len(b.bytes) - b.write
<1>1. room \in Nat /\ b.write + room = Len(b.bytes) /\ b.write \in Nat /\ Len(s) \in Nat
  BY VectorFields
<1>2. CASE Len(s) < room
  <2>1. Bytes!ReadFd(b, s) = PutBehind(b, s)
    BY <1>2 DEF Bytes!ReadFd, Bytes!WriteableBytes, PutBehind
  <2>2. b.write + Len(s) <= Len(b.bytes)
    BY <1>1, <1>2, VectorFields
  <2> QED
    BY <2>1, <2>2, BehindHolds
<1>3. CASE ~ (Len(s) < room)
  <2>1. PICK x, y, d : x = SubSeq(s, 1, room) /\ y = SubSeq(s, room + 1, Len(s)) /\ d = PutBehind(b, x)
    OBVIOUS
  <2>2. x \in Seq(Nat) /\ Len(x) = room /\ y \in Seq(Nat) /\ Cat(x, y) = s
    <3>1. room <= Len(s)
      BY <1>1, <1>3
    <3> HIDE DEF room
    <3> QED
      BY <1>1, <2>1, <3>1, Halves
  <2>3. Bytes!ReadFd(b, s) = Bytes!AppendBytes(d, y)
    <3>1. d = [read |-> b.read, write |-> b.write + Len(x), bytes |-> Bytes!CopyTo(b, b.write, x)]
      BY <2>1, BehindFields
    <3>2. b.write + Len(x) = Len(b.bytes)
      BY <1>1, <2>2
    <3>3. \A u, k : [b EXCEPT !.bytes = u, !.write = k] = [[b EXCEPT !.bytes = u] EXCEPT !.write = k]
      BY DEF Sound, Vector
    <3>4. \A u, k : [[b EXCEPT !.bytes = u] EXCEPT !.write = k] = [read |-> b.read, write |-> k, bytes |-> u]
      <4> SUFFICES ASSUME NEW u, NEW k PROVE [[b EXCEPT !.bytes = u] EXCEPT !.write = k] = [read |-> b.read, write |-> k, bytes |-> u]
        OBVIOUS
      <4>1. PICK z : z = [b EXCEPT !.bytes = u]
        OBVIOUS
      <4>2. z = [read |-> b.read, write |-> b.write, bytes |-> u]
        BY <4>1 DEF Sound, Vector
      <4>3. [z EXCEPT !.write = k] = [read |-> b.read, write |-> k, bytes |-> u]
        BY <4>2
      <4> QED
        BY <4>1, <4>3
    <3>5. d = [b EXCEPT !.bytes = Bytes!CopyTo(b, b.write, x), !.write = Len(b.bytes)]
      BY <3>1, <3>2, <3>3, <3>4
    <3> QED
      BY <1>3, <2>1, <3>5 DEF Bytes!ReadFd, Bytes!WriteableBytes
  <2>4. Sound(d) /\ \A c : Holds(b, c) => Holds(d, Cat(c, x))
    <3>1. b.write + Len(x) <= Len(b.bytes)
      BY <1>1, <2>2
    <3> QED
      BY <2>1, <2>2, <3>1, BehindHolds
  <2>5. Sound(Bytes!AppendBytes(d, y)) /\ \A c : Holds(d, c) => Holds(Bytes!AppendBytes(d, y), Cat(c, y))
    BY <2>2, <2>4, AppendBytesHolds
  <2>6. ASSUME NEW c, Holds(b, c) PROVE Cat(Cat(c, x), y) = Cat(c, s)
    <3>1. c \in Seq(Nat)
      BY <2>6 DEF Holds
    <3>2. \A p, q, r \in Seq(Nat) : Cat(Cat(p, q), r) = Cat(p, Cat(q, r))
      BY CatFacts
    <3> QED
      BY <2>2, <3>1, <3>2
  <2> QED
    BY <2>3, <2>4, <2>5, <2>6
<1> QED
  BY <1>2, <1>3

LEMMA RetrieveHolds ==
    ASSUME CheapPrepend, NEW b, Sound(b), NEW n \in Nat, NEW c, Holds(b, c), n <= Len(c)
    PROVE  /\ Sound(Bytes!Retrieve(b, n))
           /\ Holds(Bytes!Retrieve(b, n), SubSeq(c, n + 1, Len(c)))
<1>1. PICK r, w, v, y : r = b.read /\ w = b.write /\ v = b.bytes /\ y = SubSeq(c, n + 1, Len(c))
  OBVIOUS
<1>2. /\ r \in Nat /\ w \in Nat /\ v \in Seq(Nat) /\ Len(v) \in Nat /\ kCheapPrepend \in Nat
      /\ r <= w /\ w <= Len(v) /\ kCheapPrepend <= Len(v)
      /\ b = [read |-> r, write |-> w, bytes |-> v]
  BY <1>1, VectorFields DEF CheapPrepend, Sound, Vector
<1>3. c \in Seq(Nat) /\ Len(c) = w - r /\ \A i \in 1..Len(c) : c[i] = v[r + i]
  BY <1>1 DEF Holds
<1>4. y \in Seq(Nat) /\ Len(y) = Len(c) - n /\ \A i \in 1..(Len(c) - n) : y[i] = c[n + i]
  BY <1>1, <1>3, Halves
<1>5. CASE n < w - r
  <2>1. Bytes!Retrieve(b, n) = [read |-> r + n, write |-> w, bytes |-> v]
    <3>1. [b EXCEPT !.read = @ + n] = [read |-> r + n, write |-> w, bytes |-> v]
      BY <1>2
    <3> QED
      BY <1>1, <1>5, <3>1 DEF Bytes!Retrieve, Bytes!ReadableBytes
  <2>2. r + n \in Nat /\ r + n <= w
    BY <1>2, <1>5
  <2>3. Sound([read |-> r + n, write |-> w, bytes |-> v])
    BY <1>2, <2>2, MakeSound
  <2>4. ASSUME NEW i \in 1..Len(y) PROVE y[i] = v[(r + n) + i]
    <3>1. PICK l \in Nat : l = Len(c)
      BY <1>3
    <3>2. i \in 1..(l - n) /\ n + i \in 1..l /\ r + (n + i) = (r + n) + i
      BY <1>2, <1>4, <3>1
    <3> QED
      BY <1>3, <1>4, <3>1, <3>2
  <2>5. Len(y) = w - (r + n)
    BY <1>2, <1>3, <1>4
  <2>6. Holds([read |-> r + n, write |-> w, bytes |-> v], y)
    BY <1>4, <2>4, <2>5 DEF Holds
  <2> QED
    BY <1>1, <2>1, <2>3, <2>6
<1>6. CASE ~ (n < w - r)
  <2>1. Bytes!Retrieve(b, n) = [b EXCEPT !.read = kCheapPrepend, !.write = kCheapPrepend]
    BY <1>1, <1>6 DEF Bytes!Retrieve, Bytes!ReadableBytes, Bytes!RetrieveAll
  <2>2. PICK z, k : z = [b EXCEPT !.read = k] /\ k = kCheapPrepend
    OBVIOUS
  <2>3. z = [read |-> k, write |-> w, bytes |-> v]
    BY <1>2, <2>2
  <2>4. [b EXCEPT !.read = k, !.write = k] = [z EXCEPT !.write = k]
    BY <1>2, <2>2
  <2>5. [z EXCEPT !.write = k] = [read |-> k, write |-> k, bytes |-> v]
    BY <2>3
  <2>6. Bytes!Retrieve(b, n) = [read |-> k, write |-> k, bytes |-> v]
    BY <2>1, <2>2, <2>4, <2>5
  <2>7. Sound([read |-> k, write |-> k, bytes |-> v])
    BY <1>2, <2>2, MakeSound
  <2>8. Len(y) = 0 /\ Len(y) = k - k
    BY <1>2, <1>3, <1>4, <1>6, <2>2
  <2>9. Holds([read |-> k, write |-> k, bytes |-> v], y)
    BY <1>4, <2>8 DEF Holds
  <2> QED
    BY <1>1, <2>6, <2>7, <2>9
<1> QED
  BY <1>5, <1>6

\* The buffer is sound and holds the queue it stands for.
BytesInv == Sound(buff) /\ Holds(buff, content) /\ made \in Nat

LEMMA BytesInit ==
    ASSUME CheapPrepend, Bytes!Init
    PROVE  BytesInv
<1>1. PICK k, v : k = kCheapPrepend /\ v = Bytes!Zeros(kCheapPrepend)
  OBVIOUS
<1>2. buff = [read |-> k, write |-> k, bytes |-> v] /\ content = <<>> /\ made = 0
  BY <1>1 DEF Bytes!Init, Bytes!NewBuffer
<1>3. k \in Nat /\ v \in Seq(Nat) /\ Len(v) = k
  BY <1>1, ZerosFacts DEF CheapPrepend
<1>4. Sound(buff)
  BY <1>1, <1>2, <1>3, MakeSound
<1>5. Holds(buff, content)
  BY <1>2, <1>3 DEF Holds
<1> QED
  BY <1>2, <1>4, <1>5 DEF BytesInv

LEMMA FreshBytes ==
    ASSUME made \in Nat, NEW n \in Nat
    PROVE  Bytes!Fresh(n) \in Seq(Nat)
  BY DEF Bytes!Fresh

LEMMA BytesNext ==
    ASSUME CheapPrepend, BytesInv, Bytes!Next
    PROVE  BytesInv'
<1>1. PICK n \in 0..MaxCall :
        \/ made' = made + n /\ (Bytes!Write(n) \/ Bytes!Receive(n) \/ Bytes!Precede(n))
        \/ Bytes!Consume(n)
  BY Zenon DEF Bytes!Next
<1>2. n \in Nat
  OBVIOUS
<1>3. PICK s : s = Bytes!Fresh(n)
  OBVIOUS
<1>4. s \in Seq(Nat)
  BY <1>2, <1>3, FreshBytes DEF BytesInv
<1>5. Sound(buff) /\ Holds(buff, content) /\ made \in Nat
  BY DEF BytesInv
<1>6. CASE made' = made + n /\ Bytes!Write(n)
  <2>1. buff' = Bytes!AppendBytes(buff, s) /\ content' = Cat(content, s) /\ made' \in Nat
    BY <1>2, <1>3, <1>5, <1>6 DEF Bytes!Write, Cat
  <2> QED
    BY <1>4, <1>5, <2>1, AppendBytesHolds DEF BytesInv
<1>7. CASE made' = made + n /\ Bytes!Receive(n)
  <2>1. buff' = Bytes!ReadFd(buff, s) /\ content' = Cat(content, s) /\ made' \in Nat
    BY <1>2, <1>3, <1>5, <1>7 DEF Bytes!Receive, Cat
  <2> QED
    BY <1>4, <1>5, <2>1, ReadFdHolds DEF BytesInv
<1>8. CASE made' = made + n /\ Bytes!Precede(n)
  <2>1. buff' = Bytes!Prepend(buff, s) /\ content' = Cat(s, content) /\ made' \in Nat
    BY <1>2, <1>3, <1>5, <1>8 DEF Bytes!Precede, Cat
  <2> QED
    BY <1>4, <1>5, <2>1, PrependHolds DEF BytesInv
<1>9. CASE Bytes!Consume(n)
  <2>1. n <= Len(content) /\ buff' = Bytes!Retrieve(buff, n) /\ content' = SubSeq(content, n + 1, Len(content)) /\ made' = made
    BY <1>9 DEF Bytes!Consume, Bytes!WriteFd
  <2> QED
    BY <1>2, <1>5, <2>1, RetrieveHolds DEF BytesInv
<1> QED
  BY <1>1, <1>6, <1>7, <1>8, <1>9

\* Whatever was appended, received, put in front, moved or grown before, the
\* readable part of a Buffer (Buffer::write, ReadFd, prepend, retrieve) is
\* exactly the bytes not yet consumed, in order, inside the vector.
THEOREM BufferIsExact == CheapPrepend => (Bytes!Spec => []Bytes!BufferExact)
<1> SUFFICES ASSUME CheapPrepend PROVE Bytes!Spec => []Bytes!BufferExact
  OBVIOUS
<1>1. Bytes!Init => BytesInv
  BY BytesInit
<1>2. BytesInv /\ [Bytes!Next]_Bytes!vars => BytesInv'
  <2>1. BytesInv /\ UNCHANGED Bytes!vars => BytesInv'
    <3> SUFFICES ASSUME BytesInv, UNCHANGED Bytes!vars PROVE BytesInv'
      OBVIOUS
    <3>1. buff' = buff /\ content' = content /\ made' = made
      BY DEF Bytes!vars
    <3> QED
      BY <3>1 DEF BytesInv
  <2> QED
    BY <2>1, BytesNext
<1>3. BytesInv => Bytes!BufferExact
  <2> SUFFICES ASSUME BytesInv PROVE Bytes!BufferExact
    OBVIOUS
  <2>1. buff.read <= buff.write /\ buff.write <= Len(buff.bytes)
    BY DEF BytesInv, Sound
  <2>2. content = Bytes!Readable(buff)
    BY ReadableHeld DEF BytesInv
  <2> QED
    BY <2>1, <2>2 DEF Bytes!BufferExact
<1> QED
  BY <1>1, <1>2, <1>3, PTL DEF Bytes!Spec

-----------------------------------------------------------------------------
(* TimerQueue.                                                            *)

\* GateTimers and the times they expire at.
TimerMap(q) == q = [t \in DOMAIN q |-> q[t]] /\ DOMAIN q \subseteq GateTimers /\ \A t \in DOMAIN q : q[t] \in Nat

QueueTypes ==
    /\ now \in Nat /\ stamp \in Nat /\ fd \in Nat /\ armedUs \in Nat
    /\ TimerMap(timers) /\ TimerMap(expired)
    /\ handling \in BOOLEAN
    /\ cancelled \subseteq created

\* A timer is in one place: queued, expired and not run yet, or run.
OnePlace ==
    /\ DOMAIN timers \cup DOMAIN expired \cup ran \subseteq created /\ created \subseteq GateTimers
    /\ DOMAIN timers \cap (DOMAIN expired \cup ran) = {}
    /\ ~handling => DOMAIN expired = {} /\ ran = {}

\* A batch remembers which of its timers were cancelled.
Remembered ==
    /\ cancelled \cap DOMAIN timers = {}
    /\ cancelled \cap (DOMAIN expired \cup ran) \subseteq cancelling

\* The timerfd fires at the tick it is armed for, or at once.
Armed == armedUs # 0 => fd # 0 /\ (fd <= armedUs \/ fd <= now + 1)

\* Between two batches it is armed for the earliest timer's tick or sooner.
Covered ==
    ~handling /\ DOMAIN timers # {} =>
        fd # 0 /\ (fd <= alignUpTickUs(Earliest(timers)) \/ fd <= now + 1)

QueueInv == QueueTypes /\ OnePlace /\ Remembered /\ Armed /\ Covered

\* Two sets of timers have a later time and a least one.
LEMMA LaterTime ==
    ASSUME NEW a \in Int, NEW c \in Int
    PROVE  /\ Max({a, c}) \in {a, c}
           /\ Max({a, c}) >= a /\ Max({a, c}) >= c
<1>1. \E x \in {a, c} : \A y \in {a, c} : x >= y
  <2>1. CASE a >= c
    BY <2>1
  <2>2. CASE ~ (a >= c)
    BY <2>2
  <2> QED
    BY <2>1, <2>2
<1>2. PICK m : m = CHOOSE x \in {a, c} : \A y \in {a, c} : x >= y
  OBVIOUS
<1>3. m \in {a, c} /\ \A y \in {a, c} : m >= y
  BY <1>1, <1>2
<1>4. Max({a, c}) = m
  BY <1>2, Zenon DEF Max
<1> QED
  BY <1>3, <1>4

LEMMA EarliestTime ==
    ASSUME NEW q, TimerMap(q), DOMAIN q # {}
    PROVE  /\ Earliest(q) \in Nat
           /\ \E t \in DOMAIN q : q[t] = Earliest(q)
           /\ \A t \in DOMAIN q : Earliest(q) <= q[t]
<1> DEFINE S == {q[t] : t \in DOMAIN q}
<1>1. S \in SUBSET Nat /\ S # {}
  BY DEF TimerMap
<1>2. PICK m : m = CHOOSE x \in S : \A y \in S : x <= y
  OBVIOUS
<1>3. m \in S /\ \A y \in S : m <= y
  <2> HIDE DEF S
  <2> QED
    BY <1>1, <1>2, LeastNumber
<1>4. Earliest(q) = m
  BY <1>2, Zenon DEF Earliest, Min
<1> QED
  BY <1>1, <1>3, <1>4

LEMMA Aligned ==
    ASSUME NEW a \in Nat
    PROVE  /\ alignUpTickUs(a) \in Nat
           /\ \A c \in Nat : a <= c => alignUpTickUs(a) <= alignUpTickUs(c)
<1>1. PICK k : k = kTickUs
  OBVIOUS
<1>2. k \in Nat \ {0}
  BY <1>1, QueueAssumption
<1>3. \A x \in Nat : (x \div k) \in Nat
  BY <1>2
<1>4. \A x, y \in Nat : x <= y => (x \div k) <= (y \div k)
  BY <1>2
<1>5. \A x, y \in Nat : x <= y => x * k <= y * k
  BY <1>2
<1>6. \A x \in Nat : x * k \in Nat
  BY <1>2
<1>7. \A x \in Nat : alignUpTickUs(x) = ((x + k - 1) \div k) * k
  BY <1>1 DEF alignUpTickUs
<1>8. \A x \in Nat : x + k - 1 \in Nat
  BY <1>2
<1>9. ASSUME NEW x \in Nat, NEW y \in Nat, x <= y PROVE ((x + k - 1) \div k) * k <= ((y + k - 1) \div k) * k
  <2>1. PICK u, v : u = x + k - 1 /\ v = y + k - 1
    OBVIOUS
  <2>2. u \in Nat /\ v \in Nat /\ u <= v
    BY <1>2, <1>8, <1>9, <2>1
  <2>3. (u \div k) \in Nat /\ (v \div k) \in Nat /\ (u \div k) <= (v \div k)
    BY <1>3, <1>4, <2>2
  <2> QED
    BY <1>5, <2>1, <2>3
<1>10. ((a + k - 1) \div k) * k \in Nat
  <2>1. PICK u : u = a + k - 1
    OBVIOUS
  <2>2. u \in Nat
    BY <1>8, <2>1
  <2>3. (u \div k) \in Nat
    BY <1>3, <2>2
  <2> QED
    BY <1>6, <2>1, <2>3
<1> QED
  BY <1>7, <1>9, <1>10

\* Arming the timerfd covers the time it is armed for.
LEMMA Arms ==
    ASSUME now \in Nat, fd \in Nat, armedUs \in Nat, Armed, NEW w \in Nat, ArmTimerFd(w)
    PROVE  /\ armedUs' \in Nat /\ fd' \in Nat /\ fd' # 0
           /\ fd' <= alignUpTickUs(w) \/ fd' <= now + 1
           /\ armedUs' # 0 => fd' <= armedUs' \/ fd' <= now + 1
<1>1. PICK a : a = alignUpTickUs(w)
  OBVIOUS
<1>2. a \in Nat
  BY <1>1, Aligned
<1>3. CASE armedUs # 0 /\ armedUs = a
  <2>1. armedUs' = armedUs /\ fd' = fd
    BY <1>1, <1>3 DEF ArmTimerFd
  <2> QED
    BY <1>1, <1>3, <2>1 DEF Armed
<1>4. CASE ~ (armedUs # 0 /\ armedUs = a)
  <2>1. armedUs' = a /\ fd' = Max({a, now + 1})
    BY <1>1, <1>4 DEF ArmTimerFd
  <2>2. /\ Max({a, now + 1}) \in {a, now + 1}
        /\ Max({a, now + 1}) >= a /\ Max({a, now + 1}) >= now + 1
    <3>1. a \in Int /\ now + 1 \in Int
      BY <1>2
    <3> QED
      BY <3>1, LaterTime
  <2> QED
    BY <1>1, <1>2, <2>1, <2>2
<1> QED
  BY <1>3, <1>4

LEMMA QueueStarts == QueueInit => QueueInv
<1> SUFFICES ASSUME QueueInit PROVE QueueInv
  OBVIOUS
<1>1. /\ now = 1 /\ stamp = 0 /\ timers = [t \in {} |-> 0] /\ expired = [t \in {} |-> 0]
      /\ created = {} /\ ran = {} /\ cancelling = {} /\ cancelled = {}
      /\ armedUs = 0 /\ fd = 0 /\ handling = FALSE
  BY DEF QueueInit, NoTimers
<1>2. DOMAIN timers = {} /\ DOMAIN expired = {} /\ TimerMap(timers) /\ TimerMap(expired)
  BY <1>1 DEF TimerMap
<1> QED
  BY <1>1, <1>2 DEF QueueInv, QueueTypes, OnePlace, Remembered, Armed, Covered

\* What is taken away from and put into a map of timers.
LEMMA MapWithout ==
    ASSUME NEW q, TimerMap(q), NEW S
    PROVE  /\ TimerMap(Restrict(q, S \cap DOMAIN q)) /\ DOMAIN Restrict(q, S \cap DOMAIN q) = S \cap DOMAIN q
           /\ \A t \in S \cap DOMAIN q : Restrict(q, S \cap DOMAIN q)[t] = q[t]
<1> DEFINE r == [x \in S \cap DOMAIN q |-> q[x]]
<1>1. Restrict(q, S \cap DOMAIN q) = r
  BY Zenon DEF Restrict
<1>2. TimerMap(r) /\ DOMAIN r = S \cap DOMAIN q /\ \A t \in S \cap DOMAIN q : r[t] = q[t]
  BY DEF TimerMap
<1> HIDE DEF r
<1> QED
  BY <1>1, <1>2

LEMMA QueueAdd ==
    ASSUME QueueInv, NEW t \in GateTimers, QueueTimer(t)
    PROVE  QueueInv'
<1>1. /\ t \notin created /\ created' = created \cup {t}
      /\ UNCHANGED <<now, expired, ran, stamp, handling, cancelling, cancelled>>
  BY DEF QueueTimer
<1>2. PICK d \in GateDelays :
        /\ timers' = With(timers, t, now + d)
        /\ IF DOMAIN timers = {} \/ now + d < Earliest(timers)
           THEN ArmTimerFd(now + d) ELSE UNCHANGED <<armedUs, fd>>
  BY Zenon DEF QueueTimer, Queued
<1>3. PICK w : w = now + d
  OBVIOUS
<1>4. w \in Nat /\ w = now + d
  BY <1>3, QueueAssumption DEF QueueInv, QueueTypes
<1>5. timers' = [u \in DOMAIN timers \cup {t} |-> IF u = t THEN w ELSE timers[u]]
  BY <1>2, <1>3 DEF With
<1>6. /\ DOMAIN timers' = DOMAIN timers \cup {t} /\ timers'[t] = w
      /\ \A u \in DOMAIN timers : u # t => timers'[u] = timers[u]
  BY <1>5
<1>7. TimerMap(timers) /\ TimerMap(expired) /\ DOMAIN timers \subseteq created
  BY DEF QueueInv, QueueTypes, OnePlace
<1>8. TimerMap(timers')
  <2>1. \A u \in DOMAIN timers' : timers'[u] \in Nat
    BY <1>4, <1>6, <1>7 DEF TimerMap
  <2>2. timers' = [u \in DOMAIN timers' |-> timers'[u]]
    BY <1>5
  <2>3. DOMAIN timers' \subseteq GateTimers
    BY <1>6, <1>7 DEF TimerMap
  <2> QED
    BY <2>1, <2>2, <2>3 DEF TimerMap
<1>9. /\ armedUs' \in Nat /\ fd' \in Nat /\ Armed'
      /\ DOMAIN timers = {} \/ w < Earliest(timers) => fd' # 0 /\ (fd' <= alignUpTickUs(w) \/ fd' <= now + 1)
      /\ ~(DOMAIN timers = {} \/ w < Earliest(timers)) => fd' = fd
  <2>1. CASE DOMAIN timers = {} \/ w < Earliest(timers)
    <3>1. ArmTimerFd(w)
      BY <1>2, <1>3, <2>1
    <3>2. now \in Nat /\ fd \in Nat /\ armedUs \in Nat /\ Armed
      BY DEF QueueInv, QueueTypes
    <3>3. /\ armedUs' \in Nat /\ fd' \in Nat /\ fd' # 0
          /\ fd' <= alignUpTickUs(w) \/ fd' <= now + 1
          /\ armedUs' # 0 => fd' <= armedUs' \/ fd' <= now + 1
      BY <1>4, <3>1, <3>2, Arms
    <3> QED
      BY <1>1, <2>1, <3>3 DEF Armed
  <2>2. CASE ~ (DOMAIN timers = {} \/ w < Earliest(timers))
    <3>1. armedUs' = armedUs /\ fd' = fd
      BY <1>2, <1>3, <2>2
    <3> QED
      BY <1>1, <2>2, <3>1 DEF QueueInv, QueueTypes, Armed
  <2> QED
    BY <2>1, <2>2
<1>10. QueueTypes' /\ OnePlace' /\ Remembered'
  <2>1. QueueTypes'
    BY <1>1, <1>7, <1>8, <1>9 DEF QueueInv, QueueTypes
  <2>2. OnePlace'
    <3>1. ~handling => t \notin created
      BY <1>1
    <3>2. DOMAIN timers' = DOMAIN timers \cup {t} /\ expired' = expired /\ ran' = ran /\ created' = created \cup {t} /\ handling' = handling
      BY <1>1, <1>6
    <3> QED
      BY <1>1, <3>2 DEF QueueInv, OnePlace
  <2>3. Remembered'
    <3>1. cancelled \subseteq created /\ t \notin created
      BY <1>1 DEF QueueInv, QueueTypes
    <3> QED
      BY <1>1, <1>6, <3>1 DEF QueueInv, Remembered
  <2> QED
    BY <2>1, <2>2, <2>3
<1>11. Covered'
  <2> SUFFICES ASSUME ~handling'
               PROVE fd' # 0 /\ (fd' <= alignUpTickUs(Earliest(timers')) \/ fd' <= now' + 1)
    BY DEF Covered
  <2>1. /\ Earliest(timers') \in Nat /\ \E u \in DOMAIN timers' : timers'[u] = Earliest(timers')
        /\ \A u \in DOMAIN timers' : Earliest(timers') <= timers'[u]
    BY <1>6, <1>8, EarliestTime
  <2>2. CASE DOMAIN timers = {}
    <3>1. Earliest(timers') = w
      BY <1>6, <2>1, <2>2
    <3> QED
      BY <1>1, <1>9, <2>2, <3>1
  <2>3. CASE DOMAIN timers # {}
    <3>1. /\ Earliest(timers) \in Nat /\ \E u \in DOMAIN timers : timers[u] = Earliest(timers)
          /\ \A u \in DOMAIN timers : Earliest(timers) <= timers[u]
      BY <1>7, <2>3, EarliestTime
    <3>2. t \notin DOMAIN timers
      BY <1>1, <1>7
    <3>3. CASE w < Earliest(timers)
      <4>1. PICK u \in DOMAIN timers' : timers'[u] = Earliest(timers')
        BY <2>1
      <4>2. Earliest(timers') <= w
        BY <1>6, <2>1
      <4>3. u = t
        <5>1. u # t => u \in DOMAIN timers /\ timers'[u] = timers[u] /\ Earliest(timers) <= timers[u] /\ timers[u] \in Nat
          BY <1>6, <1>7, <3>1 DEF TimerMap
        <5> QED
          BY <1>4, <2>1, <3>1, <3>3, <4>1, <4>2, <5>1
      <4>4. Earliest(timers') = w
        BY <1>6, <4>1, <4>3
      <4> QED
        BY <1>1, <1>9, <3>3, <4>4
    <3>4. CASE ~ (w < Earliest(timers))
      <4>1. PICK u \in DOMAIN timers : timers[u] = Earliest(timers)
        BY <3>1
      <4>2. Earliest(timers') <= Earliest(timers)
        BY <1>6, <2>1, <3>2, <4>1
      <4>3. PICK x \in DOMAIN timers' : timers'[x] = Earliest(timers')
        BY <2>1
      <4>4. Earliest(timers) <= timers'[x]
        <5>1. CASE x = t
          BY <1>4, <1>6, <3>1, <3>4, <5>1
        <5>2. CASE x # t
          BY <1>6, <3>1, <4>3, <5>2
        <5> QED
          BY <5>1, <5>2
      <4>5. Earliest(timers') = Earliest(timers)
        BY <2>1, <3>1, <4>2, <4>3, <4>4
      <4>6. fd' = fd /\ now' = now /\ ~handling
        BY <1>1, <1>9, <2>3, <3>4
      <4>7. fd # 0 /\ (fd <= alignUpTickUs(Earliest(timers)) \/ fd <= now + 1)
        BY <2>3, <4>6 DEF QueueInv, Covered
      <4> QED
        BY <4>5, <4>6, <4>7
    <3> QED
      BY <3>3, <3>4
  <2> QED
    BY <2>2, <2>3
<1> QED
  BY <1>9, <1>10, <1>11 DEF QueueInv

\* Taking timers away does not uncover the timerfd.
LEMMA LessCovered ==
    ASSUME TimerMap(timers), NEW q, TimerMap(q), DOMAIN q \subseteq DOMAIN timers, DOMAIN q # {},
           \A t \in DOMAIN q : q[t] = timers[t]
    PROVE  /\ Earliest(q) \in Nat
           /\ alignUpTickUs(Earliest(timers)) <= alignUpTickUs(Earliest(q))
           /\ alignUpTickUs(Earliest(timers)) \in Nat /\ alignUpTickUs(Earliest(q)) \in Nat
<1>1. /\ Earliest(timers) \in Nat /\ \A t \in DOMAIN timers : Earliest(timers) <= timers[t]
  BY EarliestTime
<1>2. /\ Earliest(q) \in Nat /\ \E t \in DOMAIN q : q[t] = Earliest(q)
  BY EarliestTime
<1>3. Earliest(timers) <= Earliest(q)
  BY <1>1, <1>2
<1> QED
  BY <1>1, <1>2, <1>3, Aligned

LEMMA QueueCancel ==
    ASSUME QueueInv, NEW t \in GateTimers, CancelTimer(t)
    PROVE  QueueInv'
<1>1. /\ t \in created
      /\ cancelling' = IF t \notin DOMAIN timers /\ handling THEN cancelling \cup {t} ELSE cancelling
      /\ cancelled' = cancelled \cup {t}
      /\ UNCHANGED <<now, created, armedUs, fd, expired, ran, stamp, handling>>
  BY DEF CancelTimer, Queued
<1>2. timers' = Restrict(timers, DOMAIN timers \ {t})
  BY Zenon DEF CancelTimer, Without
<1>3. TimerMap(timers) /\ TimerMap(expired)
  BY DEF QueueInv, QueueTypes
<1>4. /\ TimerMap(timers') /\ DOMAIN timers' = DOMAIN timers \ {t}
      /\ \A u \in DOMAIN timers' : timers'[u] = timers[u]
  <2>1. (DOMAIN timers \ {t}) \cap DOMAIN timers = DOMAIN timers \ {t}
    OBVIOUS
  <2>2. /\ TimerMap(Restrict(timers, (DOMAIN timers \ {t}) \cap DOMAIN timers))
        /\ DOMAIN Restrict(timers, (DOMAIN timers \ {t}) \cap DOMAIN timers) = (DOMAIN timers \ {t}) \cap DOMAIN timers
        /\ \A u \in (DOMAIN timers \ {t}) \cap DOMAIN timers :
               Restrict(timers, (DOMAIN timers \ {t}) \cap DOMAIN timers)[u] = timers[u]
    BY <1>3, MapWithout
  <2> QED
    BY <1>2, <2>1, <2>2
<1>5. QueueTypes'
  BY <1>1, <1>3, <1>4 DEF QueueInv, QueueTypes
<1>6. OnePlace'
  BY <1>1, <1>4 DEF QueueInv, OnePlace
<1>7. Remembered'
  BY <1>1, <1>4 DEF QueueInv, OnePlace, Remembered
<1>8. Armed'
  BY <1>1 DEF QueueInv, Armed
<1>9. Covered'
  <2> SUFFICES ASSUME ~handling', DOMAIN timers' # {}
               PROVE fd' # 0 /\ (fd' <= alignUpTickUs(Earliest(timers')) \/ fd' <= now' + 1)
    BY DEF Covered
  <2>1. fd # 0 /\ (fd <= alignUpTickUs(Earliest(timers)) \/ fd <= now + 1)
    BY <1>1, <1>4 DEF QueueInv, Covered
  <2>2. PICK q : q = timers'
    OBVIOUS
  <2>3. /\ alignUpTickUs(Earliest(timers)) <= alignUpTickUs(Earliest(q))
        /\ alignUpTickUs(Earliest(timers)) \in Nat /\ alignUpTickUs(Earliest(q)) \in Nat
    <3>1. TimerMap(q) /\ DOMAIN q \subseteq DOMAIN timers /\ DOMAIN q # {} /\ \A u \in DOMAIN q : q[u] = timers[u]
      BY <1>4, <2>2
    <3> QED
      BY <1>3, <3>1, LessCovered
  <2>4. fd \in Nat
    BY DEF QueueInv, QueueTypes
  <2> QED
    BY <1>1, <2>1, <2>2, <2>3, <2>4
<1> QED
  BY <1>5, <1>6, <1>7, <1>8, <1>9 DEF QueueInv

LEMMA QueueRead == QueueInv /\ TimerRead => QueueInv'
<1> SUFFICES ASSUME QueueInv, TimerRead PROVE QueueInv'
  OBVIOUS
<1>1. /\ ~handling /\ armedUs' = 0 /\ fd' = 0 /\ stamp' = now /\ handling' = TRUE /\ ran' = {}
      /\ UNCHANGED <<now, created, cancelling, cancelled>>
  BY DEF TimerRead
<1> DEFINE due == {t \in DOMAIN timers : timers[t] <= now}
           later == {t \in DOMAIN timers : timers[t] > now}
<1>2. expired' = Restrict(timers, due) /\ timers' = Restrict(timers, later)
  BY Zenon DEF TimerRead, Queued
<1>3. TimerMap(timers) /\ now \in Nat
  BY DEF QueueInv, QueueTypes
<1>4. due \cap DOMAIN timers = due /\ later \cap DOMAIN timers = later /\ due \cap later = {}
  BY <1>3 DEF TimerMap
<1> HIDE DEF due, later
<1>5. TimerMap(expired') /\ DOMAIN expired' = due
  <2>1. /\ TimerMap(Restrict(timers, due \cap DOMAIN timers))
        /\ DOMAIN Restrict(timers, due \cap DOMAIN timers) = due \cap DOMAIN timers
    BY <1>3, MapWithout
  <2> QED
    BY <1>2, <1>4, <2>1
<1>6. TimerMap(timers') /\ DOMAIN timers' = later
  <2>1. /\ TimerMap(Restrict(timers, later \cap DOMAIN timers))
        /\ DOMAIN Restrict(timers, later \cap DOMAIN timers) = later \cap DOMAIN timers
    BY <1>3, MapWithout
  <2> QED
    BY <1>2, <1>4, <2>1
<1>7. QueueTypes'
  BY <1>1, <1>5, <1>6 DEF QueueInv, QueueTypes
<1>8. OnePlace' /\ Remembered'
  BY <1>1, <1>4, <1>5, <1>6 DEF QueueInv, OnePlace, Remembered
<1>9. Armed' /\ Covered'
  BY <1>1 DEF Armed, Covered
<1> QED
  BY <1>7, <1>8, <1>9 DEF QueueInv

LEMMA QueueRun == QueueInv /\ RunCallback => QueueInv'
<1> SUFFICES ASSUME QueueInv, RunCallback PROVE QueueInv'
  OBVIOUS
<1>1. handling /\ UNCHANGED <<now, timers, created, armedUs, fd, stamp, handling, cancelling, cancelled>>
  BY DEF RunCallback
<1>2. PICK t \in DOMAIN expired : expired' = Without(expired, {t}) /\ ran' = ran \cup {t}
  BY Zenon DEF RunCallback
<1>3. expired' = Restrict(expired, DOMAIN expired \ {t})
  BY <1>2, Zenon DEF Without
<1>4. TimerMap(timers) /\ TimerMap(expired)
  BY DEF QueueInv, QueueTypes
<1>5. TimerMap(expired') /\ DOMAIN expired' = DOMAIN expired \ {t}
  <2>1. (DOMAIN expired \ {t}) \cap DOMAIN expired = DOMAIN expired \ {t}
    OBVIOUS
  <2>2. /\ TimerMap(Restrict(expired, (DOMAIN expired \ {t}) \cap DOMAIN expired))
        /\ DOMAIN Restrict(expired, (DOMAIN expired \ {t}) \cap DOMAIN expired) = (DOMAIN expired \ {t}) \cap DOMAIN expired
    BY <1>4, MapWithout
  <2> QED
    BY <1>3, <2>1, <2>2
<1>6. QueueTypes'
  BY <1>1, <1>4, <1>5 DEF QueueInv, QueueTypes
<1>7. OnePlace' /\ Remembered'
  BY <1>1, <1>2, <1>5 DEF QueueInv, OnePlace, Remembered
<1>8. Armed' /\ Covered'
  BY <1>1 DEF QueueInv, Armed, Covered
<1> QED
  BY <1>6, <1>7, <1>8 DEF QueueInv

LEMMA QueueReset == QueueInv /\ Reset => QueueInv'
<1> SUFFICES ASSUME QueueInv, Reset PROVE QueueInv'
  OBVIOUS
<1>1. /\ handling /\ DOMAIN expired = {} /\ handling' = FALSE /\ cancelling' = {} /\ ran' = {}
      /\ UNCHANGED <<now, created, expired, stamp, cancelled>>
  BY DEF Reset
<1>2. PICK back : back = Restarted
  OBVIOUS
<1>3. back \subseteq ran \ cancelling
  BY <1>2 DEF Restarted
<1>4. timers' = [t \in DOMAIN timers \cup back |-> IF t \in back THEN stamp + Interval[t] ELSE timers[t]]
  BY <1>2 DEF Reset, Queued
<1>5. IF DOMAIN timers' = {} THEN UNCHANGED <<armedUs, fd>> ELSE ArmTimerFd(Earliest(timers'))
  BY Zenon DEF Reset
<1>6. DOMAIN timers' = DOMAIN timers \cup back
  BY <1>4
<1>7. TimerMap(timers')
  <2>1. TimerMap(timers) /\ stamp \in Nat /\ ran \subseteq GateTimers
    BY DEF QueueInv, QueueTypes, OnePlace
  <2>2. \A t \in back : stamp + Interval[t] \in Nat /\ t \in GateTimers
    BY <1>3, <2>1, QueueAssumption
  <2> QED
    BY <1>4, <2>1, <2>2 DEF TimerMap
<1>8. armedUs' \in Nat /\ fd' \in Nat /\ Armed' /\ Covered'
  <2>1. now \in Nat /\ fd \in Nat /\ armedUs \in Nat /\ Armed
    BY DEF QueueInv, QueueTypes
  <2>2. CASE DOMAIN timers' = {}
    <3>1. armedUs' = armedUs /\ fd' = fd
      BY <1>5, <2>2
    <3> QED
      BY <1>1, <2>1, <2>2, <3>1 DEF Armed, Covered
  <2>3. CASE DOMAIN timers' # {}
    <3>1. PICK w : w = Earliest(timers')
      OBVIOUS
    <3>2. w \in Nat
      BY <1>7, <2>3, <3>1, EarliestTime
    <3>3. ArmTimerFd(w)
      BY <1>5, <2>3, <3>1
    <3>4. /\ armedUs' \in Nat /\ fd' \in Nat /\ fd' # 0
          /\ fd' <= alignUpTickUs(w) \/ fd' <= now + 1
          /\ armedUs' # 0 => fd' <= armedUs' \/ fd' <= now + 1
      BY <2>1, <3>2, <3>3, Arms
    <3> QED
      BY <1>1, <3>1, <3>4 DEF Armed, Covered
  <2> QED
    BY <2>2, <2>3
<1>9. QueueTypes'
  BY <1>1, <1>7, <1>8 DEF QueueInv, QueueTypes
<1>10. OnePlace'
  BY <1>1, <1>3, <1>6 DEF QueueInv, OnePlace
<1>11. Remembered'
  BY <1>1, <1>3, <1>6 DEF QueueInv, Remembered
<1> QED
  BY <1>8, <1>9, <1>10, <1>11 DEF QueueInv

LEMMA QueueTick == QueueInv /\ (QueueClock \/ UNCHANGED queueVars) => QueueInv'
<1> SUFFICES ASSUME QueueInv, QueueClock \/ UNCHANGED queueVars PROVE QueueInv'
  OBVIOUS
<1>1. /\ now' \in Nat /\ now <= now'
      /\ UNCHANGED <<timers, created, armedUs, fd, expired, ran, stamp, handling, cancelling, cancelled>>
  BY DEF QueueInv, QueueTypes, QueueClock, queueVars
<1>2. now \in Nat /\ fd \in Nat
  BY DEF QueueInv, QueueTypes
<1>3. fd <= now + 1 => fd' <= now' + 1
  <2>1. PICK f, m, n : f = fd /\ m = now /\ n = now'
    OBVIOUS
  <2>2. fd' = f
    BY <1>1, <2>1
  <2>3. f \in Nat /\ m \in Nat /\ n \in Nat /\ m <= n
    BY <1>1, <1>2, <2>1
  <2>4. f <= m + 1 => f <= n + 1
    BY <2>3
  <2> QED
    BY <2>1, <2>2, <2>4
<1>4. QueueTypes' /\ OnePlace' /\ Remembered'
  BY <1>1 DEF QueueInv, QueueTypes, OnePlace, Remembered
<1>5. Armed' /\ Covered'
  BY <1>1, <1>3 DEF QueueInv, Armed, Covered
<1> QED
  BY <1>4, <1>5 DEF QueueInv

LEMMA QueueStep == QueueInv /\ [QueueNext]_queueVars => QueueInv'
<1> SUFFICES ASSUME QueueInv, [QueueNext]_queueVars PROVE QueueInv'
  OBVIOUS
<1>1. ASSUME NEW t \in GateTimers, QueueTimer(t) \/ CancelTimer(t) PROVE QueueInv'
  BY <1>1, QueueAdd, QueueCancel
<1>2. CASE TimerRead \/ RunCallback \/ Reset \/ QueueClock \/ UNCHANGED queueVars
  BY <1>2, QueueRead, QueueRun, QueueReset, QueueTick
<1> QED
  BY <1>1, <1>2, Zenon DEF QueueNext

\* The gateway's TimerQueue (addTimerInLoop, cancelInLoop, handleRead, reset):
\* between two batches the timerfd is armed for the earliest timer's tick or
\* sooner, and a cancelled timer is not queued again.
THEOREM TimersAreCovered == QueueSpec => []TimersCovered
<1>1. QueueInv => TimersCovered
  <2> SUFFICES ASSUME QueueInv PROVE FdCovers /\ CancelledGone
    BY DEF TimersCovered
  <2>1. CancelledGone
    BY DEF QueueInv, Remembered, CancelledGone, Queued
  <2>2. FdCovers
    <3> SUFFICES ASSUME ~handling, DOMAIN timers # {}
                 PROVE fd # 0 /\ fd <= Max({alignUpTickUs(Earliest(timers)), now + 1})
      BY Zenon DEF FdCovers, Queued
    <3>1. PICK a, c : a = alignUpTickUs(Earliest(timers)) /\ c = now + 1
      OBVIOUS
    <3>2. fd # 0 /\ (fd <= a \/ fd <= c)
      BY <3>1 DEF QueueInv, Covered
    <3>3. a \in Int /\ c \in Int /\ fd \in Int
      <4>1. Earliest(timers) \in Nat
        BY EarliestTime DEF QueueInv, QueueTypes
      <4>2. a \in Nat
        BY <3>1, <4>1, Aligned
      <4> QED
        BY <3>1, <4>2 DEF QueueInv, QueueTypes
    <3>4. PICK m : m = Max({a, c})
      OBVIOUS
    <3>5. m \in {a, c} /\ m >= a /\ m >= c
      BY <3>3, <3>4, LaterTime
    <3>6. fd <= m
      BY <3>2, <3>3, <3>5
    <3> QED
      BY <3>1, <3>2, <3>4, <3>6
  <2> QED
    BY <2>1, <2>2
<1> QED
  BY <1>1, QueueStarts, QueueStep, PTL DEF QueueSpec

-----------------------------------------------------------------------------
(* The timer wheel of the scene server: it never runs ahead of the clock,  *)
(* and it fires a timer from its slot at the tick it is due or at most one *)
(* turn later.                                                             *)

LEMMA ConstantFacts ==
    /\ Slots \in Nat /\ Slots > 1
    /\ Unit \in Nat /\ Unit > 0 /\ CatchUp \in Nat /\ CatchUp > 0 /\ MaxPending \in Nat /\ MaxPending > 0
    /\ MaxClock \in Nat /\ MaxIds \in Nat /\ MaxAsked \in Nat /\ MaxStops \in Nat
    /\ \A d \in Delays : d \in Nat
BY WheelAssumption

\* The parts of TypeOK: the numbers, and the containers.
Numbers ==
    /\ clock \in 0..MaxClock /\ started \in 0..clock
    /\ todo \in 0..CatchUp
    /\ advanced \in Nat /\ skipped \in Nat
    /\ nextId \in 1..(MaxIds + 1)
    /\ asked \in 0..MaxAsked /\ stops \in 0..MaxStops

Modes ==
    /\ phase \in {"ops", "tick", "stopped"}
    /\ phase = "tick" <=> todo > 0
    /\ phase = "stopped" => DOMAIN live = {} /\ advanced = 0 /\ skipped = 0

Queues == cmds \in Seq(Commands) /\ Len(cmds) <= MaxPending

Containers ==
    /\ cur \in SlotIds /\ slots \in [SlotIds -> SUBSET Used]
    /\ DOMAIN live \subseteq Used /\ live \in [DOMAIN live -> Timers]
    /\ byUser \in [Users -> SUBSET Used]

LEMMA TypeParts == TypeOK <=> Numbers /\ Modes /\ Queues /\ Containers
BY DEF TypeOK, Numbers, Modes, Queues, Containers

LEMMA TypePartsNext == TypeOK' <=> Numbers' /\ Modes' /\ Queues' /\ Containers'
BY TypeParts, PTL

-----------------------------------------------------------------------------
(* The arithmetic of the wheel.                                            *)

LEMMA Division ==
    ASSUME NEW t \in Nat, NEW u \in Nat, u > 0
    PROVE  /\ t \div u \in Nat /\ t % u \in 0..(u - 1) /\ t = (t \div u) * u + (t % u)
           /\ (t \div u) * u <= t
<1>1. PICK q, r : q = t \div u /\ r = t % u
  OBVIOUS
<1>2. q \in Nat /\ r \in 0..(u - 1)
  BY <1>1
<1>3. t = q * u + r
  BY <1>1
<1>4. q * u <= t
  BY <1>2, <1>3
<1> QED
  BY <1>1, <1>2, <1>3, <1>4

LEMMA TicksFacts ==
    ASSUME NEW delay \in Nat
    PROVE  TicksOf(delay) \in Nat /\ Larger(delay, Unit) \in Nat
<1>1. Larger(delay, Unit) \in Nat /\ Larger(delay, Unit) + Unit - 1 \in Nat
  BY ConstantFacts DEF Larger
<1> QED
  BY <1>1, ConstantFacts, Division DEF TicksOf

LEMMA DistanceFacts ==
    ASSUME NEW from \in SlotIds, NEW s \in SlotIds
    PROVE  Distance(from, s) \in 1..Slots
BY ConstantFacts DEF Distance, SlotIds

\* insert puts a timer where the wheel comes to it in time, with as many
\* turns to wait as its delay has; a delay of whole turns waits one more.
LEMMA Placement ==
    ASSUME NEW at \in SlotIds, NEW ticks \in Nat
    PROVE  /\ SlotFor(at, ticks) \in SlotIds /\ LeftRound(ticks) \in Nat
           /\ ticks <= Distance(at, SlotFor(at, ticks)) + LeftRound(ticks) * Slots
           /\ Distance(at, SlotFor(at, ticks)) + LeftRound(ticks) * Slots <= ticks + Slots
<1>1. PICK q, r : q = ticks \div Slots /\ r = ticks % Slots
  OBVIOUS
<1>2. q \in Nat /\ r \in 0..(Slots - 1) /\ ticks = q * Slots + r
  BY <1>1, ConstantFacts, Division
<1>3. PICK s : s = SlotFor(at, ticks)
  OBVIOUS
<1>4. s = (at + r) % Slots
  BY <1>1, <1>3 DEF SlotFor
<1>5. s = IF at + r < Slots THEN at + r ELSE at + r - Slots
  BY <1>2, <1>4, ConstantFacts DEF SlotIds
<1>6. s \in SlotIds
  BY <1>2, <1>5, ConstantFacts DEF SlotIds
<1>7. Distance(at, s) = IF r = 0 THEN Slots ELSE r
  BY <1>2, <1>5, ConstantFacts DEF Distance, SlotIds
<1>8. PICK p : p = q * Slots
  OBVIOUS
<1>9. p \in Nat /\ ticks = p + r
  BY <1>2, <1>8, ConstantFacts
<1>10. ticks <= Distance(at, s) + p /\ Distance(at, s) + p <= ticks + Slots
  BY <1>2, <1>7, <1>9, ConstantFacts
<1> QED
  BY <1>1, <1>2, <1>3, <1>6, <1>8, <1>10 DEF LeftRound

\* One tick brings every slot one nearer, and puts the one it comes to a
\* whole turn away.
LEMMA NextSlot ==
    ASSUME NEW at \in SlotIds, NEW n, n = (at + 1) % Slots
    PROVE  /\ n \in SlotIds /\ Distance(at, n) = 1 /\ Distance(n, n) = Slots
           /\ \A s \in SlotIds : s # n => Distance(n, s) = Distance(at, s) - 1
<1>1. n = IF at = Slots - 1 THEN 0 ELSE at + 1
  BY ConstantFacts DEF SlotIds
<1> QED
  BY <1>1, ConstantFacts DEF SlotIds, Distance

LEMMA TimerFacts ==
    ASSUME NEW user \in Users, NEW delay \in Nat, NEW repeat \in BOOLEAN, NEW at \in Nat, NEW tick \in Nat
    PROVE  /\ Timer(user, delay, repeat, at, tick) \in Timers
           /\ Timer(user, delay, repeat, at, tick).user = user
           /\ Timer(user, delay, repeat, at, tick).left = LeftRound(TicksOf(delay))
           /\ Timer(user, delay, repeat, at, tick).due = tick + TicksOf(delay)
<1>1. TicksOf(delay) \in Nat /\ Larger(delay, Unit) \in Nat
  BY TicksFacts
<1>2. LeftRound(TicksOf(delay)) \in Nat
  BY <1>1, ConstantFacts, Division DEF LeftRound
<1>3. PICK l, d, g : l = LeftRound(TicksOf(delay)) /\ d = tick + TicksOf(delay) /\ g = Larger(delay, Unit)
  OBVIOUS
<1>4. l \in Nat /\ d \in Nat /\ g \in Nat
  BY <1>1, <1>2, <1>3
<1>5. Timer(user, delay, repeat, at, tick)
        = [user |-> user, delay |-> g, repeat |-> repeat, left |-> l, at |-> at, due |-> d]
  BY <1>3 DEF Timer
<1>6. Timer(user, delay, repeat, at, tick) \in Timers
  BY <1>4, <1>5 DEF Timers
<1>7. /\ Timer(user, delay, repeat, at, tick).user = user
      /\ Timer(user, delay, repeat, at, tick).left = l
      /\ Timer(user, delay, repeat, at, tick).due = d
  BY <1>5
<1> QED
  BY <1>3, <1>6, <1>7

\* The new id of a repeating timer is one of the next ids.
LEMMA NewIdFacts ==
    ASSUME TypeOK, NEW slot \in SlotIds
    PROVE  /\ Cardinality(Repeating(slot)) \in Nat
           /\ \A i \in Repeating(slot) :
                /\ NewId(slot, i) \in Nat /\ nextId <= NewId(slot, i)
                /\ NewId(slot, i) < nextId + Cardinality(Repeating(slot))
<1>1. PICK R : R = Repeating(slot)
  OBVIOUS
<1>2. nextId \in Nat /\ nextId >= 1 /\ nextId - 1 \in Int
  BY ConstantFacts DEF TypeOK
<1>3. R \subseteq 1..(nextId - 1)
  BY <1>1 DEF TypeOK, Repeating, Fired, Used
<1>4. IsFiniteSet(1..(nextId - 1))
  BY <1>2, FS_Interval
<1>5. IsFiniteSet(R) /\ Cardinality(R) \in Nat
  BY <1>3, <1>4, FS_Subset, FS_CardinalityType
<1>6. ASSUME NEW i \in R
      PROVE  /\ Cardinality({j \in R : j < i}) \in Nat
             /\ Cardinality({j \in R : j < i}) < Cardinality(R)
  <2>1. {j \in R : j < i} \subseteq R \ {i}
    BY <1>2, <1>3
  <2>2. IsFiniteSet(R \ {i}) /\ Cardinality(R \ {i}) = Cardinality(R) - 1
    BY <1>5, FS_RemoveElement
  <2>3. IsFiniteSet({j \in R : j < i}) /\ Cardinality({j \in R : j < i}) <= Cardinality(R \ {i})
    BY <2>1, <2>2, FS_Subset
  <2>4. Cardinality({j \in R : j < i}) \in Nat
    BY <2>3, FS_CardinalityType
  <2> QED
    BY <1>5, <2>2, <2>3, <2>4
<1> QED
  BY <1>1, <1>2, <1>5, <1>6 DEF NewId


-----------------------------------------------------------------------------
(* The steps that leave the wheel alone.                                   *)

\* What WheelInv says of the wheel for its position.
Placed == InOneSlot /\ FiresInTime /\ CancelFindsAll

LEMMA PlacedSame ==
    ASSUME Placed, UNCHANGED <<wheel, advanced>>
    PROVE  Placed'
BY DEF Placed, InOneSlot, FiresInTime, CancelFindsAll, Distance, wheel

\* The ticks so far, as one number.
LEMMA AheadFacts ==
    ASSUME Numbers
    PROVE  (advanced + todo + skipped) * Unit \in Nat /\ clock - started \in Nat
<1>1. advanced + todo + skipped \in Nat /\ clock - started \in Nat
  BY ConstantFacts DEF Numbers
<1> QED
  BY <1>1, ConstantFacts

LEMMA InitHolds == Init => WheelInv
<1> SUFFICES ASSUME Init PROVE WheelInv
  OBVIOUS
<1>1. DOMAIN live = {} /\ live \in [DOMAIN live -> Timers]
  BY DEF Init, Empty
<1>2. slots \in [SlotIds -> SUBSET Used] /\ byUser \in [Users -> SUBSET Used]
  BY DEF Init
<1>3. cmds \in Seq(Commands) /\ Len(cmds) = 0
  BY DEF Init
<1>4. cur \in SlotIds /\ nextId \in 1..(MaxIds + 1) /\ todo \in 0..CatchUp
  BY ConstantFacts DEF Init, SlotIds
<1>5. TypeOK
  BY <1>1, <1>2, <1>3, <1>4, ConstantFacts DEF Init, TypeOK
<1>6. NeverAhead
  BY ConstantFacts DEF Init, NeverAhead
<1> QED
  BY <1>1, <1>5, <1>6 DEF WheelInv, InOneSlot, FiresInTime, CancelFindsAll

LEMMA TimePassesStep == WheelInv /\ TimePasses => WheelInv'
<1> SUFFICES ASSUME WheelInv, TimePasses PROVE WheelInv'
  OBVIOUS
<1>1. TypeOK /\ Placed /\ NeverAhead
  BY DEF WheelInv, Placed
<1>2. TypeOK'
  <2>1. Numbers /\ Modes /\ Queues /\ Containers
    BY <1>1, TypeParts
  <2>2. Numbers'
    BY <2>1, ConstantFacts DEF Numbers, TimePasses, position, wheel
  <2>3. Modes' /\ Queues' /\ Containers'
    BY <2>1 DEF Modes, Queues, Containers, TimePasses, position, wheel, Used
  <2> QED
    BY <2>2, <2>3, TypePartsNext
<1>3. NeverAhead'
  <2>1. Numbers
    BY <1>1, TypeParts
  <2>2. PICK p : p = (advanced + todo + skipped) * Unit
    OBVIOUS
  <2>3. p \in Nat /\ clock \in Nat /\ started \in Nat /\ p <= clock - started
    BY <1>1, <2>1, <2>2, AheadFacts DEF NeverAhead, Numbers
  <2>4. p <= clock' - started' /\ p = (advanced' + todo' + skipped') * Unit
    BY <2>2, <2>3 DEF TimePasses, position
  <2> QED
    BY <2>4 DEF NeverAhead
<1>4. Placed'
  BY <1>1, PlacedSame DEF TimePasses, position
<1> QED
  BY <1>2, <1>3, <1>4 DEF WheelInv, Placed

LEMMA PushStep ==
    ASSUME WheelInv, NEW op \in Commands, Push(op)
    PROVE  WheelInv'
<1>1. TypeOK /\ Placed /\ NeverAhead
  BY DEF WheelInv, Placed
<1>2. cmds' \in Seq(Commands) /\ Len(cmds') <= MaxPending /\ asked' \in 0..MaxAsked
  <2>1. cmds \in Seq(Commands) /\ asked \in 0..MaxAsked /\ Len(cmds) < MaxPending /\ asked < MaxAsked
    BY <1>1, TypeParts DEF Numbers, Queues, Push
  <2>2. cmds' = Append(cmds, op) /\ asked' = asked + 1
    BY DEF Push
  <2>3. cmds' \in Seq(Commands) /\ Len(cmds') = Len(cmds) + 1 /\ Len(cmds) \in Nat
    BY <2>1, <2>2
  <2> QED
    BY <2>1, <2>2, <2>3, ConstantFacts
<1>3. TypeOK'
  <2>1. Numbers /\ Modes /\ Queues /\ Containers
    BY <1>1, TypeParts
  <2>2. Numbers' /\ Queues'
    BY <2>1, <1>2 DEF Numbers, Queues, Push, position, wheel
  <2>3. Modes' /\ Containers'
    BY <2>1 DEF Modes, Containers, Push, position, wheel, Used
  <2> QED
    BY <2>2, <2>3, TypePartsNext
<1>4. NeverAhead'
  BY <1>1 DEF NeverAhead, Push, position
<1>5. Placed'
  BY <1>1, PlacedSame DEF Push, position
<1> QED
  BY <1>3, <1>4, <1>5 DEF WheelInv, Placed

LEMMA StartRoundStep == WheelInv /\ StartRound => WheelInv'
<1> SUFFICES ASSUME WheelInv, StartRound PROVE WheelInv'
  OBVIOUS
<1>1. TypeOK /\ Placed /\ NeverAhead
  BY DEF WheelInv, Placed
<1>2. todo = 0 /\ advanced \in Nat /\ skipped \in Nat /\ clock - started \in Nat
  BY <1>1, ConstantFacts DEF TypeOK, StartRound
<1>3. PICK q : q = (clock - started) \div Unit
  OBVIOUS
<1>4. q \in Nat /\ q * Unit <= clock - started
  BY <1>2, <1>3, ConstantFacts, Division
<1>5. Behind = q - skipped - advanced /\ Behind > 0 /\ Behind \in Nat
  BY <1>2, <1>3, <1>4 DEF Behind, Larger, StartRound
<1>6. todo' \in 0..CatchUp /\ todo' > 0 /\ skipped' \in Nat /\ advanced + todo' + skipped' = q
  BY <1>2, <1>4, <1>5, ConstantFacts DEF StartRound
<1>7. TypeOK'
  BY <1>1, <1>6 DEF TypeOK, StartRound, wheel, Used
<1>8. NeverAhead'
  BY <1>4, <1>6 DEF NeverAhead, StartRound
<1>9. Placed'
  BY <1>1, PlacedSame DEF StartRound
<1> QED
  BY <1>7, <1>8, <1>9 DEF WheelInv, Placed

LEMMA StopStep == WheelInv /\ Stop => WheelInv'
<1> SUFFICES ASSUME WheelInv, Stop PROVE WheelInv'
  OBVIOUS
<1>1. TypeOK
  BY DEF WheelInv
<1>2. DOMAIN live' = {} /\ live' \in [DOMAIN live' -> Timers]
  BY DEF Stop, ClearAll, Empty
<1>3. slots' \in [SlotIds -> SUBSET Used'] /\ byUser' \in [Users -> SUBSET Used']
  BY DEF Stop, ClearAll
<1>4. nextId' \in 1..(MaxIds + 1) /\ stops' \in 0..MaxStops /\ todo' \in 0..CatchUp /\ ~(todo' > 0)
  BY <1>1, TypeParts, ConstantFacts DEF Stop, ClearAll, Numbers
<1>5. TypeOK'
  BY <1>1, <1>2, <1>3, <1>4 DEF TypeOK, Stop, ClearAll
<1>6. NeverAhead'
  <2>1. advanced' + todo' + skipped' = 0
    BY DEF Stop, ClearAll
  <2> QED
    BY <1>1, <2>1, TypeParts, AheadFacts, ConstantFacts DEF NeverAhead, Stop
<1> QED
  BY <1>2, <1>5, <1>6 DEF WheelInv, InOneSlot, FiresInTime, CancelFindsAll

LEMMA StartStep == WheelInv /\ Start => WheelInv'
<1> SUFFICES ASSUME WheelInv, Start PROVE WheelInv'
  OBVIOUS
<1>1. TypeOK /\ phase = "stopped"
  BY DEF WheelInv, Start
<1>2. DOMAIN live' = {} /\ advanced' = 0 /\ skipped' = 0 /\ todo' = 0 /\ clock' = clock /\ started' = clock
  BY <1>1, ConstantFacts DEF TypeOK, Start, position
<1>3. 0 \in SlotIds /\ clock \in 0..clock
  BY <1>1, ConstantFacts DEF SlotIds, TypeOK
<1>4. TypeOK'
  BY <1>1, <1>2, <1>3, ConstantFacts DEF TypeOK, Start, position, Used
<1>5. NeverAhead'
  BY <1>1, <1>2, ConstantFacts DEF NeverAhead, TypeOK
<1> QED
  BY <1>2, <1>4, <1>5 DEF WheelInv, InOneSlot, FiresInTime, CancelFindsAll

-----------------------------------------------------------------------------
(* The commands.                                                           *)

LEMMA DoAddStep ==
    ASSUME WheelInv, NEW op \in Commands, DoAdd(op), UNCHANGED advanced
    PROVE  /\ Placed' /\ nextId' \in 1..(MaxIds + 1) /\ slots' \in [SlotIds -> SUBSET Used']
           /\ DOMAIN live' \subseteq Used' /\ live' \in [DOMAIN live' -> Timers]
           /\ byUser' \in [Users -> SUBSET Used'] /\ cur' = cur
<1>1. TypeOK /\ InOneSlot /\ FiresInTime /\ CancelFindsAll
  BY DEF WheelInv
<1>2. /\ nextId \in Nat /\ nextId >= 1 /\ nextId <= MaxIds /\ nextId' = nextId + 1 /\ cur \in SlotIds /\ cur' = cur
      /\ advanced \in Nat /\ slots \in [SlotIds -> SUBSET Used] /\ byUser \in [Users -> SUBSET Used]
      /\ DOMAIN live \subseteq Used /\ live \in [DOMAIN live -> Timers]
  BY <1>1, TypeParts, ConstantFacts DEF Numbers, Containers, DoAdd
<1>3. op.user \in Users /\ op.delay \in Nat /\ op.repeat \in BOOLEAN /\ op.at \in Nat
  BY DEF Commands
<1>4. PICK ticks : ticks = TicksOf(op.delay)
  OBVIOUS
<1>5. PICK s0 : s0 = SlotFor(cur, ticks)
  OBVIOUS
<1>6. PICK new : new = Timer(op.user, op.delay, op.repeat, op.at, advanced)
  OBVIOUS
<1>7. ticks \in Nat
  BY <1>3, <1>4, TicksFacts
<1>8. new \in Timers /\ new.user = op.user /\ new.left = LeftRound(ticks) /\ new.due = advanced + ticks
  BY <1>2, <1>3, <1>4, <1>6, TimerFacts
<1>9. /\ s0 \in SlotIds /\ LeftRound(ticks) \in Nat
      /\ ticks <= Distance(cur, s0) + LeftRound(ticks) * Slots
      /\ Distance(cur, s0) + LeftRound(ticks) * Slots <= ticks + Slots
  BY <1>2, <1>5, <1>7, Placement
<1>10. /\ live' = [i \in DOMAIN live \cup {nextId} |-> IF i = nextId THEN new ELSE live[i]]
       /\ slots' = [slots EXCEPT ![s0] = @ \cup {nextId}]
       /\ byUser' = [byUser EXCEPT ![op.user] = @ \cup {nextId}]
  BY <1>4, <1>5, <1>6 DEF DoAdd
<1>11. /\ nextId \notin Used /\ nextId \in Used' /\ Used \subseteq Used'
  BY <1>2 DEF Used
<1>12. /\ DOMAIN live' = DOMAIN live \cup {nextId} /\ nextId \notin DOMAIN live
       /\ live'[nextId] = new /\ \A i \in DOMAIN live : live'[i] = live[i]
  BY <1>2, <1>10, <1>11
<1>13. \A s \in SlotIds : /\ nextId \in slots'[s] <=> s = s0
                          /\ \A i \in DOMAIN live : i \in slots'[s] <=> i \in slots[s]
  BY <1>2, <1>9, <1>10, <1>11, <1>12
<1>14. InOneSlot'
  <2>1. {t \in SlotIds : nextId \in slots'[t]} = {s0}
    BY <1>9, <1>13
  <2>2. ASSUME NEW i \in DOMAIN live PROVE {t \in SlotIds : i \in slots'[t]} = {t \in SlotIds : i \in slots[t]}
    BY <1>13
  <2> QED
    BY <1>1, <1>9, <1>12, <2>1, <2>2 DEF InOneSlot
<1>15. FiresInTime'
  <2>1. ASSUME NEW i \in DOMAIN live', NEW s \in SlotIds, i \in slots'[s]
        PROVE  /\ live'[i].due <= advanced' + Distance(cur', s) + live'[i].left * Slots
               /\ advanced' + Distance(cur', s) + live'[i].left * Slots <= live'[i].due + Slots
    <3>1. CASE i = nextId
      <4>1. s = s0 /\ live'[i] = new
        BY <1>12, <1>13, <2>1, <3>1
      <4>2. PICK p, d : p = LeftRound(ticks) * Slots /\ d = Distance(cur, s0)
        OBVIOUS
      <4>3. p \in Nat /\ d \in Nat /\ ticks <= d + p /\ d + p <= ticks + Slots
        BY <1>2, <1>9, <4>2, ConstantFacts, DistanceFacts
      <4> QED
        BY <1>2, <1>7, <1>8, <4>1, <4>2, <4>3, ConstantFacts
    <3>2. CASE i # nextId
      BY <1>1, <1>2, <1>12, <1>13, <2>1, <3>2 DEF FiresInTime
    <3> QED
      BY <3>1, <3>2
  <2> QED
    BY <2>1 DEF FiresInTime, Distance
<1>16. CancelFindsAll'
  BY <1>1, <1>2, <1>3, <1>8, <1>10, <1>12 DEF CancelFindsAll, Timers
<1>17. nextId' \in 1..(MaxIds + 1)
  BY <1>2, ConstantFacts
<1>18. slots' \in [SlotIds -> SUBSET Used'] /\ byUser' \in [Users -> SUBSET Used']
  BY <1>2, <1>10, <1>11
<1>19. DOMAIN live' \subseteq Used' /\ live' \in [DOMAIN live' -> Timers]
  BY <1>2, <1>8, <1>10, <1>11, <1>12
<1> QED
  BY <1>2, <1>14, <1>15, <1>16, <1>17, <1>18, <1>19 DEF Placed

LEMMA DoCancelStep ==
    ASSUME WheelInv, NEW op \in Commands, DoCancel(op), UNCHANGED advanced
    PROVE  /\ Placed' /\ nextId' = nextId /\ slots' = slots /\ cur' = cur
           /\ DOMAIN live' \subseteq DOMAIN live /\ live' \in [DOMAIN live' -> Timers]
           /\ byUser' \in [Users -> SUBSET Used]
<1>1. TypeOK /\ InOneSlot /\ FiresInTime /\ CancelFindsAll
  BY DEF WheelInv
<1>2. /\ slots' = slots /\ cur' = cur /\ nextId' = nextId
      /\ live \in [DOMAIN live -> Timers] /\ byUser \in [Users -> SUBSET Used]
  BY <1>1 DEF TypeOK, DoCancel
<1>3. op.user \in Users
  BY DEF Commands
<1>4. /\ DOMAIN live' = DOMAIN live \ byUser[op.user] /\ \A i \in DOMAIN live' : live'[i] = live[i]
      /\ live' \in [DOMAIN live' -> Timers]
  BY <1>2 DEF DoCancel
<1>5. byUser' = [byUser EXCEPT ![op.user] = {}] /\ byUser' \in [Users -> SUBSET Used]
  BY <1>2 DEF DoCancel
<1>6. InOneSlot'
  BY <1>1, <1>2, <1>4 DEF InOneSlot
<1>7. FiresInTime'
  BY <1>1, <1>2, <1>4 DEF FiresInTime, Distance
<1>8. CancelFindsAll'
  <2>1. ASSUME NEW i \in DOMAIN live' PROVE i \in byUser'[live'[i].user]
    <3>1. i \in DOMAIN live /\ i \notin byUser[op.user] /\ live'[i] = live[i] /\ live[i].user \in Users
      BY <1>2, <1>4 DEF Timers
    <3>2. i \in byUser[live[i].user] /\ live[i].user # op.user
      BY <1>1, <3>1 DEF CancelFindsAll
    <3> QED
      BY <1>2, <1>5, <3>1, <3>2
  <2> QED
    BY <2>1 DEF CancelFindsAll
<1> QED
  BY <1>2, <1>4, <1>5, <1>6, <1>7, <1>8 DEF Placed

LEMMA ProcessOpStep == WheelInv /\ ProcessOp => WheelInv'
<1> SUFFICES ASSUME WheelInv, ProcessOp PROVE WheelInv'
  OBVIOUS
<1>1. TypeOK /\ NeverAhead
  BY DEF WheelInv
<1>2. /\ Head(cmds) \in Commands /\ Tail(cmds) \in Seq(Commands) /\ Len(Tail(cmds)) <= MaxPending
      /\ cmds' = Tail(cmds)
  <2>1. cmds \in Seq(Commands) /\ Len(cmds) <= MaxPending /\ MaxPending \in Nat
    BY <1>1, ConstantFacts DEF TypeOK
  <2>2. cmds # <<>> /\ cmds' = Tail(cmds)
    BY DEF ProcessOp
  <2> QED
    BY <2>1, <2>2
<1>3. NeverAhead' /\ advanced' = advanced
  BY <1>1 DEF NeverAhead, ProcessOp, position
<1>4. CASE DoAdd(Head(cmds))
  <2>1. /\ Placed' /\ nextId' \in 1..(MaxIds + 1) /\ slots' \in [SlotIds -> SUBSET Used']
        /\ DOMAIN live' \subseteq Used' /\ live' \in [DOMAIN live' -> Timers]
        /\ byUser' \in [Users -> SUBSET Used'] /\ cur' = cur
    BY <1>2, <1>3, <1>4, DoAddStep
  <2>2. TypeOK'
    BY <1>1, <1>2, <2>1 DEF TypeOK, ProcessOp, position
  <2> QED
    BY <1>3, <2>1, <2>2 DEF WheelInv, Placed
<1>5. CASE DoCancel(Head(cmds))
  <2>1. /\ Placed' /\ nextId' = nextId /\ slots' = slots /\ cur' = cur
        /\ DOMAIN live' \subseteq DOMAIN live /\ live' \in [DOMAIN live' -> Timers]
        /\ byUser' \in [Users -> SUBSET Used]
    BY <1>2, <1>3, <1>5, DoCancelStep
  <2>2. TypeOK'
    BY <1>1, <1>2, <2>1 DEF TypeOK, ProcessOp, position, Used
  <2> QED
    BY <1>3, <2>1, <2>2 DEF WheelInv, Placed
<1> QED
  BY <1>4, <1>5 DEF ProcessOp


-----------------------------------------------------------------------------
(* A tick.                                                                 *)

LEMMA TurnStep ==
    ASSUME WheelInv, NEW n, n = (cur + 1) % Slots, Turn(n), advanced' = advanced + 1, clock' = clock
    PROVE  /\ Placed' /\ nextId' \in 1..(MaxIds + 1) /\ slots' \in [SlotIds -> SUBSET Used']
           /\ DOMAIN live' \subseteq Used' /\ live' \in [DOMAIN live' -> Timers]
           /\ byUser' \in [Users -> SUBSET Used'] /\ cur' \in SlotIds
<1>1. TypeOK /\ InOneSlot /\ FiresInTime /\ CancelFindsAll
  BY DEF WheelInv
<1>2. /\ nextId \in Nat /\ nextId >= 1 /\ cur \in SlotIds /\ cur' = n /\ advanced \in Nat /\ clock \in Nat
      /\ slots \in [SlotIds -> SUBSET Used] /\ byUser \in [Users -> SUBSET Used]
      /\ DOMAIN live \subseteq Used /\ live \in [DOMAIN live -> Timers]
  BY <1>1, TypeParts, ConstantFacts DEF Numbers, Containers, Turn
<1>3. /\ n \in SlotIds /\ Distance(cur, n) = 1 /\ Distance(n, n) = Slots
      /\ \A s \in SlotIds : s # n => Distance(n, s) = Distance(cur, s) - 1
  BY <1>2, NextSlot
<1>4. PICK k : k = Cardinality(Repeating(n))
  OBVIOUS
<1>5. PICK born : born = Reborn(n)
  OBVIOUS
<1>6. k \in Nat /\ nextId' = nextId + k /\ nextId + k <= MaxIds + 1
  BY <1>1, <1>3, <1>4, NewIdFacts DEF Turn
<1>7. /\ \A m \in born : m \in Nat /\ nextId <= m /\ m < nextId + k /\ BornOf(n, m) \in Repeating(n)
  BY <1>1, <1>3, <1>4, <1>5, NewIdFacts DEF Reborn, BornOf
<1>8. Used \subseteq Used' /\ born \subseteq Used' /\ born \cap Used = {}
  BY <1>2, <1>6, <1>7 DEF Used
<1>9. ASSUME NEW i \in DOMAIN live
      PROVE  /\ live[i].user \in Users /\ live[i].delay \in Nat /\ live[i].left \in Nat /\ live[i].due \in Nat
             /\ live[i].repeat \in BOOLEAN /\ live[i].at \in Nat
  BY <1>2 DEF Timers
<1>10. Repeating(n) \subseteq DOMAIN live /\ Fired(n) \subseteq DOMAIN live /\ Kept(n) \subseteq DOMAIN live
  BY DEF Repeating, Fired, Kept
<1>11. ASSUME NEW m \in born
       PROVE  /\ TicksOf(live[BornOf(n, m)].delay) \in Nat
              /\ SlotFor(n, TicksOf(live[BornOf(n, m)].delay)) \in SlotIds
              /\ live[BornOf(n, m)].user \in Users /\ live[BornOf(n, m)].delay \in Nat
  BY <1>3, <1>7, <1>9, <1>10, TicksFacts, Placement
\* The containers after the tick.
<1>12. DOMAIN live' = (DOMAIN live \ Fired(n)) \cup born
  BY <1>5 DEF Turn
<1>13. ASSUME NEW m \in born
       PROVE  live'[m] = Timer(live[BornOf(n, m)].user, live[BornOf(n, m)].delay, TRUE, clock, advanced + 1)
  BY <1>5, <1>12 DEF Turn
<1>14. ASSUME NEW i \in DOMAIN live \ Fired(n)
       PROVE  /\ i \in DOMAIN live' /\ i \notin born
              /\ live'[i] = IF i \in Kept(n) THEN [live[i] EXCEPT !.left = @ - 1] ELSE live[i]
  <2>1. i \notin Reborn(n)
    BY <1>2, <1>5, <1>8
  <2> QED
    BY <1>5, <1>12, <2>1 DEF Turn
<1>15. \A s \in SlotIds :
          slots'[s] = (IF s = n THEN Kept(s) ELSE slots[s])
                        \cup {m \in born : SlotFor(n, TicksOf(live[BornOf(n, m)].delay)) = s}
  BY <1>5 DEF Turn
<1>16. \A u \in Users :
          byUser'[u] = (byUser[u] \ {i \in Fired(n) : live[i].user = u /\ ~live[i].repeat})
                         \cup {m \in born : live[BornOf(n, m)].user = u}
  BY <1>5 DEF Turn
\* A timer that stays live stays in its slot, and loses a turn where the wheel is.
<1>17. ASSUME NEW i \in DOMAIN live \ Fired(n), NEW s \in SlotIds
       PROVE  i \in slots'[s] <=> i \in slots[s]
  <2>1. i \in slots[n] => i \in Kept(n)
    BY <1>9 DEF Fired, Kept
  <2>2. i \in Kept(n) => i \in slots[n]
    BY DEF Kept
  <2> QED
    BY <1>3, <1>14, <1>15, <2>1, <2>2
<1>18. ASSUME NEW m \in born, NEW s \in SlotIds
       PROVE  m \in slots'[s] <=> s = SlotFor(n, TicksOf(live[BornOf(n, m)].delay))
  <2>1. m \notin slots[s] /\ m \notin Kept(s)
    BY <1>2, <1>8 DEF Kept
  <2> QED
    BY <1>15, <2>1
<1>19. ASSUME NEW i \in DOMAIN live \ Fired(n)
       PROVE  /\ live'[i] \in Timers /\ live'[i].user = live[i].user /\ live'[i].due = live[i].due
              /\ live'[i].left = IF i \in Kept(n) THEN live[i].left - 1 ELSE live[i].left
  <2>1. live[i] \in Timers
    BY <1>2
  <2>2. CASE i \in Kept(n)
    <3>1. PICK l : l = live[i].left - 1
      OBVIOUS
    <3>2. l \in Nat
      BY <1>9, <2>2, <3>1 DEF Kept
    <3>3. live'[i] = [live[i] EXCEPT !.left = l]
      BY <1>14, <2>2, <3>1
    <3>4. live'[i] \in Timers
      BY <2>1, <3>2, <3>3, Zenon DEF Timers
    <3>5. live'[i].user = live[i].user /\ live'[i].due = live[i].due /\ live'[i].left = l
      BY <2>1, <3>3 DEF Timers
    <3> QED
      BY <2>2, <3>1, <3>4, <3>5
  <2>3. CASE i \notin Kept(n)
    BY <1>14, <2>1, <2>3
  <2> QED
    BY <2>2, <2>3
<1>20. ASSUME NEW m \in born
       PROVE  /\ live'[m] \in Timers /\ live'[m].user = live[BornOf(n, m)].user
              /\ live'[m].left = LeftRound(TicksOf(live[BornOf(n, m)].delay))
              /\ live'[m].due = advanced + 1 + TicksOf(live[BornOf(n, m)].delay)
  <2>1. PICK r \in BOOLEAN : r = TRUE
    OBVIOUS
  <2>2. PICK a, u, d : a = advanced + 1 /\ u = live[BornOf(n, m)].user /\ d = live[BornOf(n, m)].delay
    OBVIOUS
  <2>3. a \in Nat /\ u \in Users /\ d \in Nat /\ clock \in Nat
    BY <1>2, <1>11, <2>2
  <2>4. live'[m] = Timer(u, d, r, clock, a)
    BY <1>13, <2>1, <2>2, Zenon
  <2>5. /\ Timer(u, d, r, clock, a) \in Timers /\ Timer(u, d, r, clock, a).user = u
        /\ Timer(u, d, r, clock, a).left = LeftRound(TicksOf(d))
        /\ Timer(u, d, r, clock, a).due = a + TicksOf(d)
    <3>1. r \in BOOLEAN
      BY <2>1
    <3> QED
      BY <2>3, <3>1, TimerFacts
  <2> QED
    BY <2>2, <2>4, <2>5
<1>21. InOneSlot'
  <2>1. ASSUME NEW i \in DOMAIN live' PROVE \E s \in SlotIds : {t \in SlotIds : i \in slots'[t]} = {s}
    <3>1. CASE i \in born
      BY <1>11, <1>18, <3>1
    <3>2. CASE i \in DOMAIN live \ Fired(n)
      <4>1. {t \in SlotIds : i \in slots'[t]} = {t \in SlotIds : i \in slots[t]}
        BY <1>17, <3>2
      <4> QED
        BY <1>1, <3>2, <4>1 DEF InOneSlot
    <3> QED
      BY <1>12, <3>1, <3>2
  <2> QED
    BY <2>1 DEF InOneSlot
<1>22. FiresInTime'
  <2>1. ASSUME NEW i \in DOMAIN live', NEW s \in SlotIds, i \in slots'[s]
        PROVE  /\ live'[i].due <= advanced' + Distance(cur', s) + live'[i].left * Slots
               /\ advanced' + Distance(cur', s) + live'[i].left * Slots <= live'[i].due + Slots
    <3>1. CASE i \in born
      <4>1. PICK ticks : ticks = TicksOf(live[BornOf(n, i)].delay)
        OBVIOUS
      <4>2. ticks \in Nat /\ s = SlotFor(n, ticks) /\ live'[i].left = LeftRound(ticks) /\ live'[i].due = advanced + 1 + ticks
        BY <1>11, <1>18, <1>20, <2>1, <3>1, <4>1
      <4>3. PICK p, d : p = LeftRound(ticks) * Slots /\ d = Distance(n, s)
        OBVIOUS
      <4>4. /\ LeftRound(ticks) \in Nat
            /\ ticks <= d + p /\ d + p <= ticks + Slots
        BY <1>3, <4>2, <4>3, Placement
      <4>5. p \in Nat /\ d \in Nat
        BY <1>3, <4>3, <4>4, ConstantFacts, DistanceFacts
      <4>6. /\ live'[i].due <= advanced + 1 + d + p
            /\ advanced + 1 + d + p <= live'[i].due + Slots
        BY <1>2, <4>2, <4>4, <4>5, ConstantFacts
      <4> QED
        BY <1>2, <4>2, <4>3, <4>6
    <3>2. CASE i \in DOMAIN live \ Fired(n)
      <4>1. PICK l, d : l = live[i].left /\ d = Distance(cur, s)
        OBVIOUS
      <4>2. l \in Nat /\ d \in Nat /\ i \in slots[s] /\ live[i].due \in Nat
        BY <1>2, <1>9, <1>17, <2>1, <3>2, <4>1, DistanceFacts
      <4>3. live[i].due <= advanced + d + l * Slots /\ advanced + d + l * Slots <= live[i].due + Slots
        BY <1>1, <3>2, <4>1, <4>2 DEF FiresInTime
      <4>4. CASE s = n
        <5>1. i \in Kept(n) /\ l > 0
          BY <1>9, <3>2, <4>1, <4>2, <4>4 DEF Kept, Fired
        <5>2. live'[i].due = live[i].due /\ live'[i].left = l - 1 /\ d = 1 /\ Distance(cur', s) = Slots
          BY <1>2, <1>3, <1>19, <3>2, <4>1, <4>4, <5>1
        <5>3. advanced + 1 + Slots + (l - 1) * Slots = advanced + d + l * Slots
          BY <1>2, <4>2, <5>2, ConstantFacts
        <5> QED
          BY <4>3, <5>2, <5>3
      <4>5. CASE s # n
        <5>1. i \notin Kept(n)
          <6>1. i \notin slots[n]
            BY <1>1, <1>3, <3>2, <4>2, <4>5 DEF InOneSlot
          <6> QED
            BY <6>1 DEF Kept
        <5>2. live'[i].due = live[i].due /\ live'[i].left = l /\ Distance(cur', s) = d - 1
          BY <1>2, <1>3, <1>19, <3>2, <4>1, <4>5, <5>1
        <5>3. PICK p : p = l * Slots
          OBVIOUS
        <5>4. p \in Nat
          BY <4>2, <5>3, ConstantFacts
        <5>5. advanced + 1 + (d - 1) + p = advanced + d + p
          BY <1>2, <4>2, <5>4
        <5> QED
          BY <4>3, <5>2, <5>3, <5>5
      <4> QED
        BY <4>4, <4>5
    <3> QED
      BY <1>12, <3>1, <3>2
  <2> QED
    BY <2>1 DEF FiresInTime, Distance
<1>23. CancelFindsAll'
  <2>1. ASSUME NEW i \in DOMAIN live' PROVE i \in byUser'[live'[i].user]
    <3>1. CASE i \in born
      BY <1>11, <1>16, <1>20, <3>1
    <3>2. CASE i \in DOMAIN live \ Fired(n)
      <4>1. i \in byUser[live[i].user] /\ live[i].user \in Users
        BY <1>1, <1>9, <3>2 DEF CancelFindsAll
      <4> QED
        BY <1>16, <1>19, <3>2, <4>1
    <3> QED
      BY <1>12, <3>1, <3>2
  <2> QED
    BY <2>1 DEF CancelFindsAll
<1>24. nextId' \in 1..(MaxIds + 1)
  BY <1>2, <1>6, ConstantFacts
<1>25. slots' \in [SlotIds -> SUBSET Used']
  <2>1. ASSUME NEW s \in SlotIds PROVE slots'[s] \subseteq Used'
    <3>1. slots[s] \subseteq Used' /\ Kept(s) \subseteq Used'
      BY <1>2, <1>8 DEF Kept
    <3> QED
      BY <1>8, <1>15, <3>1
  <2>2. slots' = [s \in SlotIds |-> slots'[s]]
    BY DEF Turn
  <2> QED
    BY <2>1, <2>2
<1>26. byUser' \in [Users -> SUBSET Used']
  <2>1. ASSUME NEW u \in Users PROVE byUser'[u] \subseteq Used'
    <3>1. byUser[u] \subseteq Used'
      BY <1>2, <1>8
    <3> QED
      BY <1>8, <1>16, <3>1
  <2>2. byUser' = [u \in Users |-> byUser'[u]]
    BY DEF Turn
  <2> QED
    BY <2>1, <2>2
<1>27. DOMAIN live' \subseteq Used'
  BY <1>2, <1>8, <1>12
<1>28. live' \in [DOMAIN live' -> Timers]
  <2>1. \A i \in DOMAIN live' : live'[i] \in Timers
    BY <1>12, <1>19, <1>20
  <2>2. live' = [i \in DOMAIN live' |-> live'[i]]
    BY DEF Turn
  <2> QED
    BY <2>1, <2>2
<1> QED
  BY <1>2, <1>3, <1>21, <1>22, <1>23, <1>24, <1>25, <1>26, <1>27, <1>28 DEF Placed

LEMMA TickStep == WheelInv /\ Tick => WheelInv'
<1> SUFFICES ASSUME WheelInv, Tick PROVE WheelInv'
  OBVIOUS
<1>1. Numbers /\ Modes /\ Queues /\ Containers /\ NeverAhead
  BY TypeParts DEF WheelInv
<1>2. /\ Placed' /\ nextId' \in 1..(MaxIds + 1) /\ slots' \in [SlotIds -> SUBSET Used']
      /\ DOMAIN live' \subseteq Used' /\ live' \in [DOMAIN live' -> Timers]
      /\ byUser' \in [Users -> SUBSET Used'] /\ cur' \in SlotIds
  <2>1. PICK n : n = (cur + 1) % Slots
    OBVIOUS
  <2>2. Turn(n) /\ advanced' = advanced + 1 /\ clock' = clock
    BY <2>1 DEF Tick
  <2> QED
    BY <2>1, <2>2, TurnStep
<1>3. todo > 0 /\ todo \in 0..CatchUp /\ advanced \in Nat /\ skipped \in Nat
  BY <1>1 DEF Tick, Modes, Numbers
<1>4. Numbers' /\ Modes'
  BY <1>1, <1>2, <1>3, ConstantFacts DEF Numbers, Modes, Tick
<1>5. Queues' /\ Containers'
  BY <1>1, <1>2 DEF Queues, Containers, Tick
<1>6. NeverAhead'
  <2>1. advanced' + todo' + skipped' = advanced + todo + skipped
    BY <1>3, ConstantFacts DEF Tick
  <2> QED
    BY <1>1, <2>1 DEF NeverAhead, Tick
<1> QED
  BY <1>2, <1>4, <1>5, <1>6, TypePartsNext DEF WheelInv, Placed

-----------------------------------------------------------------------------

\* Whatever commands come and however late the rounds are, the wheel never
\* runs ahead of the real clock, and every live timer is in exactly one
\* bucket, from which it will fire in time, and in the list of its user,
\* where CANCEL finds it (TimerThread::run, doAdd, doCancel, collect, fire).
THEOREM WheelHolds == Spec => []WheelInv
<1>1. WheelInv /\ [Next]_vars => WheelInv'
  <2> SUFFICES ASSUME WheelInv, [Next]_vars PROVE WheelInv'
    OBVIOUS
  <2>1. clock \in Nat
    BY TypeParts, ConstantFacts DEF WheelInv, Numbers
  <2>2. CASE TimePasses
    BY <2>2, TimePassesStep
  <2>3. ASSUME NEW u \in Users, Cancel(u) PROVE WheelInv'
    <3>1. [kind |-> "cancel", user |-> u, delay |-> 0, repeat |-> FALSE, at |-> clock] \in Commands
      BY <2>1 DEF Commands
    <3> QED
      BY <2>3, <3>1, PushStep DEF Cancel
  <2>4. ASSUME NEW u \in Users, NEW d \in Delays, NEW r \in BOOLEAN, AddTimer(u, d, r) PROVE WheelInv'
    <3>1. d \in Nat
      BY ConstantFacts
    <3>2. [kind |-> "add", user |-> u, delay |-> d, repeat |-> r, at |-> clock] \in Commands
      BY <2>1, <3>1 DEF Commands
    <3> QED
      BY <2>4, <3>2, PushStep DEF AddTimer
  <2>5. CASE ProcessOp
    BY <2>5, ProcessOpStep
  <2>6. CASE StartRound
    BY <2>6, StartRoundStep
  <2>7. CASE Tick
    BY <2>7, TickStep
  <2>8. CASE Stop
    BY <2>8, StopStep
  <2>9. CASE Start
    BY <2>9, StartStep
  <2>10. CASE UNCHANGED vars
    <3>1. TypeOK /\ Placed /\ NeverAhead
      BY DEF WheelInv, Placed
    <3>2. UNCHANGED <<clock, started, cmds, phase, todo, advanced, skipped, wheel, asked, stops>>
      BY <2>10 DEF vars, position
    <3>3. Placed'
      BY <3>1, <3>2, PlacedSame
    <3>4. TypeOK' /\ NeverAhead'
      BY <3>1, <3>2 DEF TypeOK, NeverAhead, Used, wheel
    <3> QED
      BY <3>3, <3>4 DEF WheelInv, Placed
  <2> QED
    BY <2>2, <2>3, <2>4, <2>5, <2>6, <2>7, <2>8, <2>9, <2>10 DEF Next, Quiescent
<1> QED
  BY InitHolds, <1>1, PTL DEF Spec

\* In wheel time a timer never fires before it is due, and none is left over
\* for more than one turn of the wheel after that (insert's slot and
\* leftRound, collect).
THEOREM FiresWhenDue == Spec => []DueInWheelTime
<1>1. WheelInv => DueInWheelTime
  <2> SUFFICES ASSUME WheelInv PROVE DueInWheelTime
    OBVIOUS
  <2>1. /\ cur \in SlotIds /\ advanced \in Nat /\ live \in [DOMAIN live -> Timers]
        /\ InOneSlot /\ FiresInTime
    BY TypeParts DEF WheelInv, Numbers, Containers
  <2>2. ASSUME NEW i \in DOMAIN live PROVE live[i].left \in Nat /\ live[i].due \in Nat
    BY <2>1 DEF Timers
  <2>3. ASSUME NEW i \in FiredNow PROVE live[i].due <= advanced + 1
    <3>1. PICK n : n = (cur + 1) % Slots
      OBVIOUS
    <3>2. n \in SlotIds /\ Distance(cur, n) = 1
      BY <2>1, <3>1, NextSlot
    <3>3. i \in DOMAIN live /\ i \in slots[n] /\ live[i].left = 0
      BY <3>1 DEF FiredNow, Fired
    <3>4. live[i].due <= advanced + Distance(cur, n) + live[i].left * Slots
      BY <2>1, <3>2, <3>3 DEF FiresInTime
    <3>5. live[i].left * Slots = 0
      BY <3>3, ConstantFacts
    <3> QED
      BY <2>1, <2>2, <3>2, <3>3, <3>4, <3>5
  <2>4. ASSUME NEW i \in DOMAIN live PROVE advanced < live[i].due + Slots
    <3>1. PICK s \in SlotIds : i \in slots[s]
      BY <2>1 DEF InOneSlot
    <3>2. advanced + Distance(cur, s) + live[i].left * Slots <= live[i].due + Slots
      BY <2>1, <3>1 DEF FiresInTime
    <3>3. PICK p : p = live[i].left * Slots
      OBVIOUS
    <3>4. p \in Nat /\ Distance(cur, s) \in 1..Slots
      BY <2>1, <2>2, <3>3, ConstantFacts, DistanceFacts
    <3> QED
      BY <2>1, <2>2, <3>2, <3>3, <3>4, ConstantFacts
  <2> QED
    BY <2>3, <2>4 DEF DueInWheelTime
<1> QED
  BY <1>1, WheelHolds, PTL

-----------------------------------------------------------------------------
(* A connection of the gateway, for any callers and any numbers of         *)
(* messages, calls and retries: what it has sent and what it has buffered  *)
(* are together what sendInLoop took.                                      *)

\* The units of the first n / 2 messages, in the order they were taken.
Units(n) == [i \in 1..n |-> i]

\* The connection c has kept the order of its units.
UnitsInOrder(c) == c \in Connections /\ c.wire \o c.buffer = Units(c.taken)

\* d has sent and buffered what c has, has not closed less often, and has not
\* a later retry than c.
Keeps(c, d) ==
    /\ d \in Connections
    /\ d.wire = c.wire /\ d.buffer = c.buffer /\ d.taken = c.taken
    /\ d.closed >= c.closed
    /\ d.tries = c.tries \/ d.tries = None

\* Step c to d of a handler: the order is kept, and no close is taken back.
Leads(c, d) == UnitsInOrder(d) /\ d.closed >= c.closed

LEMMA ConnectionConstants ==
    /\ kMaxRetries \in Nat /\ MaxSends \in Nat /\ MaxCalls \in Nat /\ MaxInput \in Nat
    /\ None \in None..kMaxRetries /\ 0 \in None..kMaxRetries
    /\ None = -1
BY ConnectionAssumption DEF None

LEMMA FieldFacts ==
    ASSUME NEW c \in Connections
    PROVE  /\ c.wire \in Seq(Nat) /\ c.buffer \in Seq(Nat) /\ c.taken \in Nat /\ c.file \in 0..2
           /\ c.tries \in None..kMaxRetries /\ c.notified \in Nat /\ c.closed \in Nat /\ c.destroyed \in Nat
           /\ c.notified + 1 \in Nat /\ c.closed + 1 \in Nat /\ c.destroyed + 1 \in Nat /\ c.taken + 2 \in Nat
BY DEF Connections

LEMMA KeepsLeads ==
    ASSUME NEW c, UnitsInOrder(c), NEW d, Keeps(c, d)
    PROVE  Leads(c, d)
BY DEF UnitsInOrder, Keeps, Leads

LEMMA KeepsItself == ASSUME NEW c \in Connections PROVE Keeps(c, c)
BY FieldFacts DEF Keeps

LEMMA KeepsTrans ==
    ASSUME NEW c \in Connections, NEW d, Keeps(c, d), NEW e, Keeps(d, e)
    PROVE  Keeps(c, e)
<1>1. c.closed \in Nat /\ d.closed \in Nat /\ e.closed \in Nat
  BY FieldFacts DEF Keeps
<1> QED
  BY <1>1 DEF Keeps

LEMMA LeadsTrans ==
    ASSUME NEW c \in Connections, NEW d, Leads(c, d), NEW e, Leads(d, e)
    PROVE  Leads(c, e)
<1>1. c.closed \in Nat /\ d.closed \in Nat /\ e.closed \in Nat
  BY FieldFacts DEF Leads, UnitsInOrder
<1> QED
  BY <1>1 DEF Leads

-----------------------------------------------------------------------------
(* The operations that touch neither the buffer nor the wire.              *)

LEMMA ChannelKeeps ==
    ASSUME NEW c \in Connections
    PROVE  /\ Keeps(c, RemoveChannel(c)) /\ Keeps(c, Update(c)) /\ Keeps(c, CancelTimers(c))
           /\ CancelTimers(c).tries = None
<1>1. RemoveChannel(c) \in Connections
  BY Zenon DEF RemoveChannel, Connections
<1>2. Update(c) \in Connections
  BY Zenon DEF Update, Connections
<1>3. CancelTimers(c) \in Connections
  BY ConnectionConstants, Zenon DEF CancelTimers, Connections
<1>4. /\ RemoveChannel(c).wire = c.wire /\ RemoveChannel(c).buffer = c.buffer /\ RemoveChannel(c).taken = c.taken
      /\ RemoveChannel(c).closed = c.closed /\ RemoveChannel(c).tries = c.tries
  BY DEF RemoveChannel, Connections
<1>5. /\ Update(c).wire = c.wire /\ Update(c).buffer = c.buffer /\ Update(c).taken = c.taken
      /\ Update(c).closed = c.closed /\ Update(c).tries = c.tries
  BY DEF Update, Connections
<1>6. /\ CancelTimers(c).wire = c.wire /\ CancelTimers(c).buffer = c.buffer /\ CancelTimers(c).taken = c.taken
      /\ CancelTimers(c).closed = c.closed /\ CancelTimers(c).tries = None
  BY DEF CancelTimers, Connections
<1> QED
  BY <1>1, <1>2, <1>3, <1>4, <1>5, <1>6, FieldFacts DEF Keeps

LEMMA WritingKeeps ==
    ASSUME NEW c \in Connections
    PROVE  Keeps(c, EnableWriting(c)) /\ Keeps(c, DisableWriting(c))
<1>1. ASSUME NEW b \in BOOLEAN PROVE Keeps(c, [c EXCEPT !.writing = b])
  <2>1. [c EXCEPT !.writing = b] \in Connections
    BY Zenon DEF Connections
  <2> QED
    BY <2>1, FieldFacts DEF Keeps, Connections
<1>2. ASSUME NEW b \in BOOLEAN PROVE Keeps(c, Update([c EXCEPT !.writing = b]))
  <2>1. Keeps(c, [c EXCEPT !.writing = b]) /\ [c EXCEPT !.writing = b] \in Connections
    BY <1>1 DEF Keeps
  <2> QED
    BY <2>1, ChannelKeeps, KeepsTrans
<1> QED
  BY <1>2 DEF EnableWriting, DisableWriting

\* The ways a connection closes.
LEMMA CloseKeeps ==
    ASSUME NEW c \in Connections
    PROVE  Keeps(c, Close(c)) /\ Keeps(c, HandleClose(c)) /\ Keeps(c, ForceCloseInLoop(c))
<1>1. PICK d : d = CancelTimers(RemoveChannel(c))
  OBVIOUS
<1>2. Keeps(c, d) /\ d \in Connections
  BY <1>1, ChannelKeeps, KeepsTrans DEF Keeps
<1>3. Close(c) = [d EXCEPT !.state = "disconnected", !.file = 0, !.notified = @ + 1, !.closed = @ + 1]
  BY <1>1 DEF Close
<1>4. Close(c) \in Connections
  <2>1. d.notified + 1 \in Nat /\ d.closed + 1 \in Nat /\ 0 \in 0..2
    BY <1>2, FieldFacts
  <2>2. Close(c) = [d EXCEPT !.state = "disconnected", !.file = 0, !.notified = d.notified + 1, !.closed = d.closed + 1]
    BY <1>3
  <2> QED
    BY <1>2, <2>1, <2>2, Zenon DEF Connections
<1>5. /\ Close(c).wire = d.wire /\ Close(c).buffer = d.buffer /\ Close(c).taken = d.taken
      /\ Close(c).closed = d.closed + 1 /\ Close(c).tries = d.tries
  BY <1>2, <1>3 DEF Connections
<1>6. Keeps(d, Close(c))
  BY <1>2, <1>4, <1>5, FieldFacts DEF Keeps
<1>7. Keeps(c, Close(c))
  BY <1>2, <1>6, KeepsTrans
<1>8. Keeps(c, HandleClose(c))
  BY <1>7, KeepsItself DEF HandleClose
<1> QED
  BY <1>7, <1>8, KeepsItself DEF ForceCloseInLoop

LEMMA ShutdownKeeps ==
    ASSUME NEW c \in Connections
    PROVE  Keeps(c, ShutdownInLoop([c EXCEPT !.state = "disconnecting"]))
<1>1. PICK d : d = [c EXCEPT !.state = "disconnecting"]
  OBVIOUS
<1>2. d \in Connections
  BY <1>1, Zenon DEF Connections
<1>3. Keeps(c, d)
  BY <1>1, <1>2, FieldFacts DEF Keeps, Connections
<1>4. PICK e : e = [d EXCEPT !.shut = TRUE]
  OBVIOUS
<1>5. e \in Connections
  BY <1>2, <1>4, Zenon DEF Connections
<1>6. Keeps(d, e)
  BY <1>2, <1>4, <1>5, FieldFacts DEF Keeps, Connections
<1>7. Keeps(c, e) /\ Keeps(c, HandleClose(e))
  BY <1>3, <1>5, <1>6, KeepsTrans, CloseKeeps
<1>8. ShutdownInLoop(d) = e \/ ShutdownInLoop(d) = HandleClose(e)
  BY <1>4 DEF ShutdownInLoop
<1> QED
  BY <1>1, <1>7, <1>8

LEMMA LifeKeeps ==
    ASSUME NEW c \in Connections
    PROVE  Keeps(c, ConnectDestroyed(c)) /\ Keeps(c, ConnectEstablelished(c))
<1>1. PICK d : d = RemoveChannel(CancelTimers(c))
  OBVIOUS
<1>2. Keeps(c, d) /\ d \in Connections
  BY <1>1, ChannelKeeps, KeepsTrans DEF Keeps
<1>3. PICK n : n = IF c.state = "disconnected" THEN d.notified ELSE d.notified + 1
  OBVIOUS
<1>4. PICK k : k = d.destroyed + 1
  OBVIOUS
<1>5. n \in Nat /\ k \in Nat
  BY <1>2, <1>3, <1>4, FieldFacts
<1>6. ConnectDestroyed(c) = [d EXCEPT !.state = "disconnected", !.destroyed = k, !.notified = n]
  BY <1>1, <1>3, <1>4 DEF ConnectDestroyed
<1>7. ConnectDestroyed(c) \in Connections
  BY <1>2, <1>5, <1>6, Zenon DEF Connections
<1>8. Keeps(d, ConnectDestroyed(c))
  BY <1>2, <1>6, <1>7, FieldFacts DEF Keeps, Connections
<1>9. PICK e : e = Update(c)
  OBVIOUS
<1>10. Keeps(c, e) /\ e \in Connections
  BY <1>9, ChannelKeeps DEF Keeps
<1>11. ConnectEstablelished(c) = [e EXCEPT !.state = "connected", !.active = FALSE, !.idle = TRUE]
  BY <1>9 DEF ConnectEstablelished
<1>12. ConnectEstablelished(c) \in Connections
  BY <1>10, <1>11, Zenon DEF Connections
<1>13. Keeps(e, ConnectEstablelished(c))
  BY <1>10, <1>11, <1>12, FieldFacts DEF Keeps, Connections
<1> QED
  BY <1>2, <1>8, <1>10, <1>13, KeepsTrans


-----------------------------------------------------------------------------
(* Sending.                                                                *)

LEMMA UnitsGrow ==
    ASSUME NEW n \in Nat
    PROVE  <<n + 1, n + 2>> \in Seq(Nat) /\ Len(<<n + 1, n + 2>>) = 2 /\ Units(n) \o <<n + 1, n + 2>> = Units(n + 2)
<1>1. PICK m : m = <<n + 1, n + 2>>
  OBVIOUS
<1>2. m \in Seq(Nat) /\ Len(m) = 2 /\ m[1] = n + 1 /\ m[2] = n + 2
  BY <1>1
<1>3. PICK u : u = Units(n)
  OBVIOUS
<1>4. u \in Seq(Nat) /\ Len(u) = n /\ \A i \in 1..n : u[i] = i
  BY <1>3 DEF Units
<1>5. PICK v : v = Units(n + 2)
  OBVIOUS
<1>6. v \in Seq(Nat) /\ Len(v) = n + 2 /\ \A i \in 1..n + 2 : v[i] = i
  BY <1>5 DEF Units
<1>7. /\ u \o m \in Seq(Nat) /\ Len(u \o m) = Len(u) + Len(m)
      /\ \A i \in 1..Len(u) + Len(m) : (u \o m)[i] = IF i <= Len(u) THEN u[i] ELSE m[i - Len(u)]
  BY <1>2, <1>4, ConcatProperties, Zenon
<1>8. ASSUME NEW i \in 1..n + 2 PROVE (u \o m)[i] = i
  <2>1. (u \o m)[i] = IF i <= n THEN u[i] ELSE m[i - n]
    BY <1>2, <1>4, <1>7
  <2>2. i <= n \/ i = n + 1 \/ i = n + 2
    OBVIOUS
  <2>3. CASE i <= n
    BY <1>4, <2>1, <2>3
  <2>4. CASE i = n + 1
    BY <1>2, <2>1, <2>4
  <2>5. CASE i = n + 2
    BY <1>2, <2>1, <2>5
  <2> QED
    BY <2>2, <2>3, <2>4, <2>5
<1>9. Len(u \o m) = n + 2
  BY <1>2, <1>4, <1>7
<1>10. \A i \in 1..Len(u \o m) : (u \o m)[i] = v[i]
  BY <1>6, <1>8, <1>9
<1>11. u \o m = v
  BY <1>6, <1>7, <1>9, <1>10, SeqEqual, Zenon
<1> QED
  BY <1>1, <1>2, <1>3, <1>5, <1>11

\* Sending a prefix and buffering the rest loses and reorders nothing.
LEMMA SplitKeepsOrder ==
    ASSUME NEW w \in Seq(Nat), NEW u \in Seq(Nat), NEW k \in 0..Len(u)
    PROVE  /\ w \o SubSeq(u, 1, k) \in Seq(Nat) /\ SubSeq(u, k + 1, Len(u)) \in Seq(Nat)
           /\ (w \o SubSeq(u, 1, k)) \o SubSeq(u, k + 1, Len(u)) = w \o u
<1>1. Len(u) \in Nat /\ \A i \in 1..Len(u) : u[i] \in Nat
  BY ElementOfSeq
<1>2. PICK x : x = SubSeq(u, 1, k)
  OBVIOUS
<1>3. PICK y : y = SubSeq(u, k + 1, Len(u))
  OBVIOUS
<1>4. x \in Seq(Nat)
  BY <1>1, <1>2, SubSeqProperties
<1>5. y \in Seq(Nat)
  BY <1>1, <1>3, SubSeqProperties
<1>6. 1 \in 1..Len(u) + 1 /\ k \in (1 - 1)..Len(u) /\ Len(u) \in k..Len(u)
  BY <1>1
<1>7. x \o y = SubSeq(u, 1, Len(u))
  BY <1>2, <1>3, <1>6, ConcatAdjacentSubSeq, Zenon
<1>8. SubSeq(u, 1, Len(u)) = u
  BY SubSeqFull, Zenon
<1>9. (w \o x) \o y = w \o (x \o y)
  BY <1>4, <1>5
<1>10. w \o x \in Seq(Nat)
  BY <1>4, ConcatProperties, Zenon
<1> QED
  BY <1>2, <1>3, <1>5, <1>7, <1>8, <1>9, <1>10, Zenon

LEMMA PutKeepsOrder ==
    ASSUME NEW c \in Connections, NEW u \in Seq(Nat), NEW k \in 0..Len(u)
    PROVE  /\ Put(c, u, k) \in Connections
           /\ Put(c, u, k).wire \o Put(c, u, k).buffer = c.wire \o u
           /\ Put(c, u, k).taken = c.taken /\ Put(c, u, k).closed = c.closed /\ Put(c, u, k).tries = c.tries
<1>1. PICK w : w = c.wire \o SubSeq(u, 1, k)
  OBVIOUS
<1>2. PICK b : b = SubSeq(u, k + 1, Len(u))
  OBVIOUS
<1>3. w \in Seq(Nat) /\ b \in Seq(Nat) /\ w \o b = c.wire \o u
  BY <1>1, <1>2, FieldFacts, SplitKeepsOrder
<1>4. Put(c, u, k) = [c EXCEPT !.wire = w, !.buffer = b]
  BY <1>1, <1>2 DEF Put
<1>5. Put(c, u, k) \in Connections
  BY <1>3, <1>4, Zenon DEF Connections
<1>6. /\ Put(c, u, k).wire = w /\ Put(c, u, k).buffer = b
      /\ Put(c, u, k).taken = c.taken /\ Put(c, u, k).closed = c.closed /\ Put(c, u, k).tries = c.tries
  BY <1>4 DEF Connections
<1> QED
  BY <1>3, <1>5, <1>6

\* What every outcome of sendInLoop is: the order is kept, no close is taken
\* back, and the retries are as they were or forgotten with the close.
Sends(c, d) == Leads(c, d) /\ (d.tries = c.tries \/ d.tries = None)

LEMMA KeepsSends ==
    ASSUME NEW c, UnitsInOrder(c), NEW d, Keeps(c, d)
    PROVE  Sends(c, d)
BY KeepsLeads DEF Sends, Keeps

LEMMA SendsTrans ==
    ASSUME NEW c \in Connections, NEW d, Sends(c, d), NEW e, Sends(d, e)
    PROVE  Sends(c, e)
BY LeadsTrans DEF Sends

LEMMA ActiveKeeps ==
    ASSUME NEW c \in Connections
    PROVE  Keeps(c, [c EXCEPT !.active = TRUE])
<1>1. [c EXCEPT !.active = TRUE] \in Connections
  BY Zenon DEF Connections
<1> QED
  BY <1>1, FieldFacts DEF Keeps, Connections

\* A message is taken with an empty buffer and part of it is sent.
LEMMA TakenPutInOrder ==
    ASSUME NEW c, UnitsInOrder(c), c.buffer = <<>>, NEW n \in 0..2,
           NEW d \in Connections, d.wire = c.wire, d.taken = c.taken + 2
    PROVE  UnitsInOrder(Put(d, Message(c), n)) /\ Put(d, Message(c), n).closed = d.closed
           /\ Put(d, Message(c), n).tries = d.tries
<1>1. c \in Connections /\ c.taken \in Nat /\ c.wire \in Seq(Nat)
  BY FieldFacts DEF UnitsInOrder
<1>2. Message(c) \in Seq(Nat) /\ Len(Message(c)) = 2 /\ Units(c.taken) \o Message(c) = Units(c.taken + 2)
  BY <1>1, UnitsGrow DEF Message
<1>3. c.wire = Units(c.taken)
  BY <1>1, ConcatEmptySeq DEF UnitsInOrder
<1>4. PICK p : p = Put(d, Message(c), n)
  OBVIOUS
<1>5. /\ p \in Connections /\ p.wire \o p.buffer = d.wire \o Message(c)
      /\ p.taken = d.taken /\ p.closed = d.closed /\ p.tries = d.tries
  BY <1>2, <1>4, PutKeepsOrder
<1>6. UnitsInOrder(p)
  BY <1>2, <1>3, <1>5 DEF UnitsInOrder
<1> QED
  BY <1>4, <1>5, <1>6

LEMMA SendInLoopInOrder ==
    ASSUME NEW c, UnitsInOrder(c), NEW e \in SendInLoop(c)
    PROVE  Sends(c, e)
<1>1. /\ c \in Connections /\ c.taken \in Nat /\ c.wire \in Seq(Nat) /\ c.buffer \in Seq(Nat)
      /\ c.wire \o c.buffer = Units(c.taken) /\ c.closed \in Nat
  BY FieldFacts DEF UnitsInOrder
<1>2. PICK m : m = Message(c)
  OBVIOUS
<1>3. m \in Seq(Nat) /\ Len(m) = 2 /\ Units(c.taken) \o m = Units(c.taken + 2)
  BY <1>1, <1>2, UnitsGrow DEF Message
<1>4. PICK k : k = c.taken + 2
  OBVIOUS
<1>5. k \in Nat
  BY <1>1, <1>4
<1>6. PICK d : d = [c EXCEPT !.taken = k]
  OBVIOUS
<1>7. d \in Connections
  BY <1>1, <1>5, <1>6, Zenon DEF Connections
<1>8. /\ d.wire = c.wire /\ d.buffer = c.buffer /\ d.taken = c.taken + 2 /\ d.closed = c.closed
      /\ d.tries = c.tries
  BY <1>1, <1>4, <1>6 DEF Connections
<1>9. CASE e = c
  BY <1>1, <1>9, KeepsItself, KeepsSends
<1>10. CASE e = EnableWriting([d EXCEPT !.buffer = @ \o m])
  <2>1. PICK b : b = c.buffer \o m
    OBVIOUS
  <2>2. b \in Seq(Nat) /\ c.wire \o b = Units(c.taken + 2)
    <3>1. b \in Seq(Nat)
      BY <1>1, <1>3, <2>1, ConcatProperties, Zenon
    <3>2. (c.wire \o c.buffer) \o m = c.wire \o b
      <4>1. ASSUME NEW x \in Seq(Nat), NEW y \in Seq(Nat), NEW z \in Seq(Nat)
            PROVE  (x \o y) \o z = x \o (y \o z)
        OBVIOUS
      <4> QED
        BY <1>1, <1>3, <2>1, <4>1, Zenon
    <3> QED
      BY <1>1, <1>3, <3>1, <3>2, Zenon
  <2>3. PICK f : f = [d EXCEPT !.buffer = b]
    OBVIOUS
  <2>4. f \in Connections
    BY <1>7, <2>2, <2>3, Zenon DEF Connections
  <2>5. /\ f.wire = c.wire /\ f.buffer = b /\ f.taken = c.taken + 2 /\ f.closed = c.closed
        /\ f.tries = c.tries
    BY <1>7, <1>8, <2>3 DEF Connections
  <2>6. e = EnableWriting(f)
    BY <1>8, <1>10, <2>1, <2>3
  <2>7. UnitsInOrder(f) /\ Sends(c, f)
    BY <1>1, <2>2, <2>4, <2>5 DEF UnitsInOrder, Sends, Leads
  <2>8. Sends(f, e)
    BY <2>4, <2>6, <2>7, WritingKeeps, KeepsSends
  <2> QED
    BY <1>1, <2>7, <2>8, SendsTrans
<1>11. CASE c.buffer = <<>> /\ e = EnableWriting(Put(HandleClose(d), m, 0))
  <2>1. PICK h : h = HandleClose(d)
    OBVIOUS
  <2>2. Keeps(d, h) /\ h \in Connections
    BY <1>7, <2>1, CloseKeeps DEF Keeps
  <2>3. PICK p : p = Put(h, m, 0)
    OBVIOUS
  <2>4. UnitsInOrder(p) /\ p.closed = h.closed /\ p.tries = h.tries
    BY <1>2, <1>8, <1>11, <2>2, <2>3, TakenPutInOrder DEF Keeps
  <2>5. Sends(c, p)
    BY <1>8, <2>2, <2>4 DEF Sends, Leads, Keeps
  <2>6. Sends(p, e)
    BY <1>11, <2>1, <2>3, <2>4, WritingKeeps, KeepsSends DEF UnitsInOrder
  <2> QED
    BY <1>1, <2>5, <2>6, SendsTrans
<1>12. ASSUME NEW n \in 0..2, c.buffer = <<>>,
              e = [Put(d, m, n) EXCEPT !.active = TRUE] \/ e = EnableWriting([Put(d, m, n) EXCEPT !.active = TRUE])
       PROVE  Sends(c, e)
  <2>1. PICK p : p = Put(d, m, n)
    OBVIOUS
  <2>2. UnitsInOrder(p) /\ p.closed = d.closed /\ p.tries = d.tries
    BY <1>2, <1>7, <1>8, <1>12, <2>1, TakenPutInOrder
  <2>3. Sends(c, p) /\ p \in Connections
    BY <1>1, <1>8, <2>2 DEF Sends, Leads, UnitsInOrder
  <2>4. PICK f : f = [p EXCEPT !.active = TRUE]
    OBVIOUS
  <2>5. Sends(p, f) /\ f \in Connections /\ UnitsInOrder(f)
    BY <2>2, <2>3, <2>4, ActiveKeeps, KeepsSends DEF Sends, Leads, UnitsInOrder
  <2>6. Sends(c, f)
    BY <1>1, <2>3, <2>5, SendsTrans
  <2>7. Sends(f, EnableWriting(f))
    BY <2>5, WritingKeeps, KeepsSends
  <2>8. Sends(c, EnableWriting(f))
    BY <1>1, <2>6, <2>7, SendsTrans
  <2> QED
    BY <1>12, <2>1, <2>4, <2>6, <2>8
<1>13. d = [c EXCEPT !.taken = @ + 2]
  BY <1>4, <1>6
<1>14. \/ e = c
       \/ e = EnableWriting([d EXCEPT !.buffer = @ \o m])
       \/ c.buffer = <<>> /\ e = EnableWriting(Put(HandleClose(d), m, 0))
       \/ c.buffer = <<>> /\ \E n \in 0..2 : \/ e = [Put(d, m, n) EXCEPT !.active = TRUE]
                                              \/ e = EnableWriting([Put(d, m, n) EXCEPT !.active = TRUE])
  BY <1>2, <1>13 DEF SendInLoop
<1> QED
  BY <1>9, <1>10, <1>11, <1>12, <1>14


LEMMA SendInOrder ==
    ASSUME NEW c, UnitsInOrder(c), NEW e \in Send(c)
    PROVE  Sends(c, e)
<1>1. c \in Connections
  BY DEF UnitsInOrder
<1> QED
  BY <1>1, SendInLoopInOrder, KeepsItself, KeepsSends DEF Send

LEMMA SendFileKeeps ==
    ASSUME NEW c \in Connections, NEW e \in SendFileInLoop(c)
    PROVE  Keeps(c, e)
<1>1. PICK d : d = [c EXCEPT !.file = 2]
  OBVIOUS
<1>2. d \in Connections
  <2>1. 2 \in 0..2
    OBVIOUS
  <2> QED
    BY <1>1, <2>1, Zenon DEF Connections
<1>3. Keeps(c, d)
  BY <1>1, <1>2, FieldFacts DEF Keeps, Connections
<1>4. Keeps(c, EnableWriting(d))
  BY <1>2, <1>3, WritingKeeps, KeepsTrans
<1>5. e = c \/ e = ForceCloseInLoop(c) \/ e = EnableWriting(d)
  BY <1>1 DEF SendFileInLoop
<1> QED
  BY <1>4, <1>5, CloseKeeps, KeepsItself

-----------------------------------------------------------------------------
(* Writing what is buffered.                                               *)

LEMMA WriteBufferInOrder ==
    ASSUME NEW c, UnitsInOrder(c), NEW e \in WriteBuffer(c)
    PROVE  Sends(c, e)
<1>1. /\ c \in Connections /\ c.buffer \in Seq(Nat) /\ c.wire \o c.buffer = Units(c.taken)
      /\ Len(c.buffer) \in Nat /\ c.closed \in Nat
  BY FieldFacts DEF UnitsInOrder
<1>2. CASE e = c \/ e = HandleClose(c)
  BY <1>1, <1>2, CloseKeeps, KeepsItself, KeepsSends
<1>3. ASSUME NEW n \in 1..Len(c.buffer), e = Put(c, c.buffer, n) \/ e = DisableWriting(Put(c, c.buffer, n))
      PROVE  Sends(c, e)
  <2>1. PICK p : p = Put(c, c.buffer, n)
    OBVIOUS
  <2>2. n \in 0..Len(c.buffer)
    BY <1>1
  <2>3. /\ p \in Connections /\ p.wire \o p.buffer = c.wire \o c.buffer
        /\ p.taken = c.taken /\ p.closed = c.closed /\ p.tries = c.tries
    BY <1>1, <2>1, <2>2, PutKeepsOrder
  <2>4. UnitsInOrder(p) /\ Sends(c, p)
    BY <1>1, <2>3 DEF UnitsInOrder, Sends, Leads
  <2>5. Sends(p, DisableWriting(p))
    BY <2>3, <2>4, WritingKeeps, KeepsSends
  <2>6. Sends(c, DisableWriting(p))
    BY <1>1, <2>4, <2>5, SendsTrans
  <2> QED
    BY <1>3, <2>1, <2>4, <2>6
<1>4. \/ e = c \/ e = HandleClose(c)
      \/ \E n \in 1..Len(c.buffer) : e = Put(c, c.buffer, n) \/ e = DisableWriting(Put(c, c.buffer, n))
  BY DEF WriteBuffer
<1> QED
  BY <1>2, <1>3, <1>4

LEMMA FileKeeps ==
    ASSUME NEW c \in Connections, NEW n \in 0..2
    PROVE  Keeps(c, [c EXCEPT !.file = n])
<1>1. [c EXCEPT !.file = n] \in Connections
  BY Zenon DEF Connections
<1> QED
  BY <1>1, FieldFacts DEF Keeps, Connections

LEMMA WriteFileKeeps ==
    ASSUME NEW c \in Connections
    PROVE  Keeps(c, WriteFile(c))
<1>1. c.file \in 0..2 /\ 0 \in 0..2 /\ (c.file > 1 => c.file - 1 \in 0..2)
  BY FieldFacts
<1>2. PICK z : z = [c EXCEPT !.file = 0]
  OBVIOUS
<1>3. Keeps(c, z) /\ z \in Connections
  BY <1>1, <1>2, FileKeeps DEF Keeps
<1>4. Keeps(c, DisableWriting(z)) /\ DisableWriting(z) \in Connections
  BY <1>3, WritingKeeps, KeepsTrans DEF Keeps
<1>5. Keeps(c, HandleClose(DisableWriting(z)))
  BY <1>4, CloseKeeps, KeepsTrans
<1>6. CASE WriteFile(c) = c \/ WriteFile(c) = HandleClose(DisableWriting(z)) \/ WriteFile(c) = DisableWriting(z)
  BY <1>4, <1>5, <1>6, KeepsItself
<1>7. CASE c.file > 1 /\ WriteFile(c) = [c EXCEPT !.file = @ - 1]
  <2>1. PICK n : n = c.file - 1
    OBVIOUS
  <2>2. n \in 0..2 /\ WriteFile(c) = [c EXCEPT !.file = n]
    BY <1>1, <1>7, <2>1
  <2> QED
    BY <2>2, FileKeeps
<1> QED
  BY <1>2, <1>6, <1>7 DEF WriteFile

LEMMA HandleWriteInOrder ==
    ASSUME NEW c, UnitsInOrder(c), NEW e \in HandleWrite(c)
    PROVE  Sends(c, e)
<1>1. c \in Connections
  BY DEF UnitsInOrder
<1>2. CASE e = c
  BY <1>1, <1>2, KeepsItself, KeepsSends
<1>3. PICK a : a = [c EXCEPT !.active = TRUE]
  OBVIOUS
<1>4. Sends(c, a) /\ UnitsInOrder(a)
  BY <1>1, <1>3, ActiveKeeps, KeepsSends DEF Sends, Leads
<1>5. ASSUME NEW d \in WriteBuffer(a), e = WriteFile(d) PROVE Sends(c, e)
  <2>1. Sends(a, d) /\ UnitsInOrder(d) /\ d \in Connections
    BY <1>4, WriteBufferInOrder DEF Sends, Leads, UnitsInOrder
  <2>2. Sends(d, e)
    BY <1>5, <2>1, WriteFileKeeps, KeepsSends
  <2>3. Sends(c, d)
    BY <1>1, <1>4, <2>1, SendsTrans
  <2> QED
    BY <1>1, <2>2, <2>3, SendsTrans
<1> QED
  BY <1>2, <1>3, <1>5 DEF HandleWrite

-----------------------------------------------------------------------------
(* The timers.                                                             *)

\* Setting the entry and its timer, or the timer no entry owns.
LEMMA TriesLead ==
    ASSUME NEW c, UnitsInOrder(c), NEW n \in None..kMaxRetries, NEW b \in BOOLEAN
    PROVE  /\ Leads(c, [c EXCEPT !.tries = n, !.timer = b]) /\ Leads(c, [c EXCEPT !.tries = n])
           /\ Leads(c, [c EXCEPT !.unowned = b])
<1>1. c \in Connections
  BY DEF UnitsInOrder
<1>2. PICK d : d = [c EXCEPT !.tries = n, !.timer = b]
  OBVIOUS
<1>3. PICK e : e = [c EXCEPT !.tries = n]
  OBVIOUS
<1>4. PICK f : f = [c EXCEPT !.unowned = b]
  OBVIOUS
<1>5. d \in Connections
  BY <1>1, <1>2, Zenon DEF Connections
<1>6. e \in Connections
  BY <1>1, <1>3, Zenon DEF Connections
<1>7. f \in Connections
  BY <1>1, <1>4, Zenon DEF Connections
<1>8. d.wire = c.wire /\ d.buffer = c.buffer /\ d.taken = c.taken /\ d.closed = c.closed
  BY <1>1, <1>2 DEF Connections
<1>9. e.wire = c.wire /\ e.buffer = c.buffer /\ e.taken = c.taken /\ e.closed = c.closed
  BY <1>1, <1>3 DEF Connections
<1>10. f.wire = c.wire /\ f.buffer = c.buffer /\ f.taken = c.taken /\ f.closed = c.closed
  BY <1>1, <1>4 DEF Connections
<1>11. c.closed \in Nat
  BY <1>1, FieldFacts
<1>12. ASSUME NEW x \in Connections, x.wire = c.wire, x.buffer = c.buffer, x.taken = c.taken, x.closed = c.closed
       PROVE  Leads(c, x)
  <2>1. c.wire \o c.buffer = Units(c.taken)
    BY DEF UnitsInOrder
  <2>2. x.wire \o x.buffer = Units(x.taken)
    BY <1>12, <2>1
  <2>3. x.closed >= c.closed
    BY <1>11, <1>12
  <2>4. UnitsInOrder(x)
    BY <2>2 DEF UnitsInOrder
  <2> QED
    BY <2>3, <2>4 DEF Leads
<1> QED
  BY <1>2, <1>3, <1>4, <1>5, <1>6, <1>7, <1>8, <1>9, <1>10, <1>12

LEMMA SendFuncInOrder ==
    ASSUME NEW c, UnitsInOrder(c), NEW e \in SendFunc(c)
    PROVE  Leads(c, e)
<1>1. PICK d \in Send(c) : e = [d EXCEPT !.tries = 0, !.timer = TRUE]
  BY DEF SendFunc
<1>2. Leads(c, d) /\ UnitsInOrder(d)
  BY SendInOrder DEF Sends, Leads
<1>3. Leads(d, e)
  BY <1>1, <1>2, TriesLead, ConnectionConstants
<1> QED
  BY <1>2, <1>3, LeadsTrans DEF UnitsInOrder

LEMMA RetransmitInOrder ==
    ASSUME NEW c, UnitsInOrder(c), NEW e \in OnRetransmitTimeout(c)
    PROVE  Leads(c, e)
<1>1. c \in Connections /\ c.tries \in None..kMaxRetries
  BY FieldFacts DEF UnitsInOrder
<1>2. CASE e = c
  BY <1>1, <1>2, KeepsItself, KeepsLeads
<1>3. CASE e = ForceCloseInLoop([c EXCEPT !.tries = None])
  <2>1. PICK d : d = [c EXCEPT !.tries = None]
    OBVIOUS
  <2>2. Leads(c, d) /\ UnitsInOrder(d) /\ d \in Connections
    BY <2>1, TriesLead, ConnectionConstants DEF Leads, UnitsInOrder
  <2>3. Leads(d, e)
    BY <1>3, <2>1, <2>2, CloseKeeps, KeepsLeads
  <2> QED
    BY <1>1, <2>2, <2>3, LeadsTrans
<1>4. ASSUME c.tries # None, ~(c.tries >= kMaxRetries), NEW d \in SendInLoop(c),
             e = IF d.tries = None THEN [d EXCEPT !.unowned = TRUE]
                 ELSE [d EXCEPT !.tries = @ + 1, !.timer = TRUE]
      PROVE  Leads(c, e)
  <2>1. Leads(c, d) /\ UnitsInOrder(d) /\ (d.tries = c.tries \/ d.tries = None)
    BY SendInLoopInOrder DEF Sends, Leads
  <2>2. CASE d.tries = None
    <3>1. Leads(d, e)
      BY <1>4, <2>1, <2>2, TriesLead, ConnectionConstants
    <3> QED
      BY <1>1, <2>1, <3>1, LeadsTrans
  <2>3. CASE d.tries # None
    <3>1. PICK n : n = d.tries + 1
      OBVIOUS
    <3>2. n \in None..kMaxRetries
      BY <1>1, <1>4, <2>1, <2>3, <3>1, ConnectionConstants
    <3>3. e = [d EXCEPT !.tries = n, !.timer = TRUE]
      BY <1>4, <2>3, <3>1
    <3>4. Leads(d, e)
      BY <2>1, <3>2, <3>3, TriesLead
    <3> QED
      BY <1>1, <2>1, <3>4, LeadsTrans
  <2> QED
    BY <2>2, <2>3
<1> QED
  BY <1>2, <1>3, <1>4 DEF OnRetransmitTimeout

LEMMA IdleInOrder ==
    ASSUME NEW c, UnitsInOrder(c), NEW e \in OnIdleTimeout(c)
    PROVE  Leads(c, e)
<1>1. c \in Connections
  BY DEF UnitsInOrder
<1>2. CASE e = ForceCloseInLoop(c)
  BY <1>1, <1>2, CloseKeeps, KeepsLeads
<1>3. CASE e = [c EXCEPT !.idle = TRUE, !.active = FALSE]
  <2>1. e \in Connections
    BY <1>1, <1>3, Zenon DEF Connections
  <2>2. Keeps(c, e)
    BY <1>1, <1>3, <2>1, FieldFacts DEF Keeps, Connections
  <2> QED
    BY <2>2, KeepsLeads
<1> QED
  BY <1>2, <1>3 DEF OnIdleTimeout

LEMMA FireInOrder ==
    ASSUME NEW c, UnitsInOrder(c), NEW timer, NEW e \in Fire(timer, c)
    PROVE  Leads(c, e)
BY IdleInOrder, RetransmitInOrder DEF Fire

-----------------------------------------------------------------------------
(* The events.                                                             *)

LEMMA ReadInOrder ==
    ASSUME NEW c, UnitsInOrder(c), NEW e \in HandleRead(c)
    PROVE  Sends(c, e)
<1>1. c \in Connections
  BY DEF UnitsInOrder
<1>2. CASE e = HandleClose(c)
  BY <1>1, <1>2, CloseKeeps, KeepsSends
<1>3. PICK a : a = [c EXCEPT !.active = TRUE]
  OBVIOUS
<1>4. Sends(c, a) /\ UnitsInOrder(a) /\ a \in Connections
  BY <1>1, <1>3, ActiveKeeps, KeepsSends DEF Sends, Leads, UnitsInOrder
<1>5. CASE e \in OnMessage(a)
  <2>1. e = a \/ e = ForceCloseInLoop(a) \/ e \in Send(a)
    BY <1>5 DEF OnMessage
  <2>2. Sends(a, e)
    BY <1>4, <2>1, KeepsItself, CloseKeeps, KeepsSends, SendInOrder
  <2> QED
    BY <1>1, <1>4, <2>2, SendsTrans
<1> QED
  BY <1>2, <1>3, <1>5 DEF HandleRead

LEMMA EventInOrder ==
    ASSUME NEW c, UnitsInOrder(c), NEW revents, NEW e \in HandleEvent(c, revents)
    PROVE  Sends(c, e)
<1>1. c \in Connections
  BY DEF UnitsInOrder
<1>2. CASE e = HandleClose(c)
  BY <1>1, <1>2, CloseKeeps, KeepsSends
<1>3. ASSUME NEW d, d = c \/ d \in HandleRead(c),
             e = d \/ e = HandleClose(d) \/ e \in HandleWrite(d)
      PROVE  Sends(c, e)
  <2>1. Sends(c, d)
    BY <1>1, <1>3, ReadInOrder, KeepsItself, KeepsSends
  <2>2. UnitsInOrder(d) /\ d \in Connections
    BY <2>1 DEF Sends, Leads, UnitsInOrder
  <2>3. Sends(d, e)
    BY <1>3, <2>2, KeepsItself, CloseKeeps, KeepsSends, HandleWriteInOrder
  <2> QED
    BY <1>1, <2>1, <2>3, SendsTrans
<1>4. \/ e = HandleClose(c)
      \/ \E d : (d = c \/ d \in HandleRead(c)) /\ (e = d \/ e = HandleClose(d) \/ e \in HandleWrite(d))
  BY DEF HandleEvent
<1> QED
  BY <1>2, <1>3, <1>4

LEMMA RunInOrder ==
    ASSUME UnitsInOrder(conn), NEW f \in Functions, NEW e \in Run(f)
    PROVE  Leads(conn, e)
<1>1. conn \in Connections
  BY DEF UnitsInOrder
<1>2. CASE f = "establish"
  BY <1>1, <1>2, LifeKeeps, KeepsLeads DEF Run
<1>3. CASE f = "send"
  BY <1>3, SendInLoopInOrder DEF Run, Sends
<1>4. CASE f = "forceClose"
  BY <1>1, <1>4, CloseKeeps, KeepsLeads DEF Run
<1>5. CASE f = "destroy"
  BY <1>1, <1>5, LifeKeeps, KeepsLeads DEF Run
<1> QED
  BY <1>2, <1>3, <1>4, <1>5 DEF Functions


-----------------------------------------------------------------------------
(* The specification.                                                      *)

\* The parts of ConnectionTypes that are not about conn.
Around ==
    /\ ioQueue \in Seq(Functions) /\ removals \in Nat /\ listed \in BOOLEAN /\ released \in BOOLEAN
    /\ pc \in [Callers -> [op : {"idle", "send", "forceClose"}, step : 0..2]]
    /\ calls \in 0..MaxCalls
    /\ peer \in [sent : 0..MaxInput, unread : 0..MaxInput, half : BOOLEAN, reset : BOOLEAN]
    /\ peer.unread <= peer.sent
    /\ released => ~listed /\ ioQueue = <<>> /\ removals = 0 /\ \A t \in Callers : pc[t] = Idle

LEMMA OrderIsParts == StreamInOrder <=> UnitsInOrder(conn) /\ Around
BY DEF StreamInOrder, ConnectionTypes, UnitsInOrder, Around, Units

\* The connection and the removals it asks for after a handler.
LEMMA BecomesInOrder ==
    ASSUME UnitsInOrder(conn), removals \in Nat, NEW d, Leads(conn, d), Becomes(d)
    PROVE  UnitsInOrder(conn)' /\ removals' \in Nat
<1>1. conn' = d /\ removals' = removals + (d.closed - conn.closed) /\ UnitsInOrder(d) /\ d.closed >= conn.closed
  BY DEF Becomes, Leads
<1>2. d.closed \in Nat /\ conn.closed \in Nat
  BY <1>1, FieldFacts DEF UnitsInOrder
<1>3. removals' \in Nat
  BY <1>1, <1>2
<1> QED
  BY <1>1, <1>3 DEF UnitsInOrder

LEMMA InitInOrder == ConnectionInit => StreamInOrder
<1> SUFFICES ASSUME ConnectionInit PROVE UnitsInOrder(conn) /\ Around
  BY OrderIsParts
<1>1. conn = NewConnection
  BY DEF ConnectionInit
<1>2. NewConnection \in Connections
  <2>1. <<>> \in Seq(Nat) /\ 0 \in Nat /\ 0 \in 0..2
    OBVIOUS
  <2> QED
    BY <2>1, ConnectionConstants, Zenon DEF NewConnection, Connections
<1>3. conn.wire = <<>> /\ conn.buffer = <<>> /\ conn.taken = 0
  BY <1>1 DEF NewConnection
<1>4. <<>> \o <<>> = Units(0)
  BY DEF Units
<1>5. UnitsInOrder(conn)
  BY <1>1, <1>2, <1>3, <1>4 DEF UnitsInOrder
<1>6. pc \in [Callers -> [op : {"idle", "send", "forceClose"}, step : 0..2]]
  BY DEF ConnectionInit, Idle
<1>7. /\ peer \in [sent : 0..MaxInput, unread : 0..MaxInput, half : BOOLEAN, reset : BOOLEAN]
      /\ peer.unread <= peer.sent
  <2>1. 0 \in 0..MaxInput
    BY ConnectionConstants
  <2> QED
    BY <2>1 DEF ConnectionInit
<1>8. ioQueue \in Seq(Functions) /\ removals \in Nat /\ calls \in 0..MaxCalls
  BY ConnectionConstants DEF ConnectionInit, Functions
<1>9. listed \in BOOLEAN /\ released \in BOOLEAN /\ ~released
  BY DEF ConnectionInit
<1> QED
  BY <1>5, <1>6, <1>7, <1>8, <1>9 DEF Around

LEMMA EventStep == StreamInOrder /\ Event => StreamInOrder'
<1> SUFFICES ASSUME StreamInOrder, Event PROVE UnitsInOrder(conn)' /\ Around'
  BY OrderIsParts, PTL
<1>1. UnitsInOrder(conn) /\ Around
  BY OrderIsParts
<1>2. PICK revents : /\ \E c \in HandleEvent(conn, revents) : Becomes(c)
                     /\ peer' = IF "IN" \in revents /\ "ERR" \notin revents THEN [peer EXCEPT !.unread = 0] ELSE peer
  BY DEF Event
<1>3. UnitsInOrder(conn)' /\ removals' \in Nat
  BY <1>1, <1>2, EventInOrder, BecomesInOrder DEF Sends, Around
<1>4. /\ peer' \in [sent : 0..MaxInput, unread : 0..MaxInput, half : BOOLEAN, reset : BOOLEAN]
      /\ peer'.unread <= peer'.sent
  BY <1>1, <1>2, ConnectionConstants DEF Around
<1> QED
  BY <1>1, <1>3, <1>4 DEF Event, Around

LEMMA ExpireStep == StreamInOrder /\ Expire => StreamInOrder'
<1> SUFFICES ASSUME StreamInOrder, Expire PROVE UnitsInOrder(conn)' /\ Around'
  BY OrderIsParts, PTL
<1>1. UnitsInOrder(conn) /\ Around /\ conn \in Connections
  BY OrderIsParts DEF UnitsInOrder
<1>2. PICK batch, first : \E d \in FireBatch(batch, first, Expired(batch)) : Becomes(d)
  BY DEF Expire
<1>3. PICK i \in BOOLEAN : i <=> conn.idle /\ "idle" \notin batch
  OBVIOUS
<1>4. PICK j \in BOOLEAN : j <=> conn.timer /\ "retransmit" \notin batch
  OBVIOUS
<1>5. PICK c : c = [conn EXCEPT !.idle = i, !.timer = j]
  OBVIOUS
<1>6. c \in Connections
  BY <1>1, <1>5, Zenon DEF Connections
<1>7. Keeps(conn, c)
  BY <1>1, <1>5, <1>6, FieldFacts DEF Keeps, Connections
<1>8. Leads(conn, c) /\ UnitsInOrder(c)
  BY <1>1, <1>7, KeepsLeads DEF Leads
<1>9. c = Expired(batch)
  BY <1>3, <1>4, <1>5 DEF Expired
<1>10. PICK d : /\ Becomes(d)
                /\ d \in Fire(first, c) \/ \E second : \E b \in Fire(first, c) : d \in Fire(second, b)
  BY <1>2, <1>9 DEF FireBatch
<1>11. Leads(c, d)
  <2>1. CASE d \in Fire(first, c)
    BY <1>8, <2>1, FireInOrder
  <2>2. ASSUME NEW second, NEW b \in Fire(first, c), d \in Fire(second, b) PROVE Leads(c, d)
    <3>1. Leads(c, b) /\ UnitsInOrder(b)
      BY <1>8, FireInOrder DEF Leads
    <3>2. Leads(b, d)
      BY <2>2, <3>1, FireInOrder
    <3> QED
      BY <1>6, <3>1, <3>2, LeadsTrans
  <2> QED
    BY <1>10, <2>1, <2>2
<1>12. Leads(conn, d)
  BY <1>1, <1>8, <1>11, LeadsTrans
<1>13. UnitsInOrder(conn)' /\ removals' \in Nat
  BY <1>1, <1>10, <1>12, BecomesInOrder DEF Around
<1> QED
  BY <1>1, <1>13 DEF Expire, Around

LEMMA RunPendingStep == StreamInOrder /\ RunPending => StreamInOrder'
<1> SUFFICES ASSUME StreamInOrder, RunPending PROVE UnitsInOrder(conn)' /\ Around'
  BY OrderIsParts, PTL
<1>1. UnitsInOrder(conn) /\ Around
  BY OrderIsParts
<1>2. Head(ioQueue) \in Functions /\ Tail(ioQueue) \in Seq(Functions) /\ ioQueue # <<>>
  BY <1>1 DEF RunPending, Around
<1>3. UnitsInOrder(conn)' /\ removals' \in Nat
  BY <1>1, <1>2, RunInOrder, BecomesInOrder DEF RunPending, Around
<1> QED
  BY <1>1, <1>2, <1>3 DEF RunPending, Around

\* The calls made inside the loop.
LEMMA ApiStep == StreamInOrder /\ Api => StreamInOrder'
<1> SUFFICES ASSUME StreamInOrder, Api PROVE UnitsInOrder(conn)' /\ Around'
  BY OrderIsParts, PTL
<1>1. UnitsInOrder(conn) /\ Around /\ conn \in Connections
  BY OrderIsParts DEF UnitsInOrder
<1>2. ~released /\ calls' \in 0..MaxCalls /\ UNCHANGED <<ioQueue, listed, pc, peer, released>>
  BY <1>1, ConnectionConstants DEF Api, Shutdown, SendFile, SendWithRetransmit, Ack, ApiCall, Around
<1>3. \E d : Leads(conn, d) /\ Becomes(d)
  <2>1. CASE Shutdown
    BY <1>1, <2>1, ShutdownKeeps, KeepsLeads DEF Shutdown
  <2>2. CASE SendFile
    BY <1>1, <2>2, SendFileKeeps, KeepsLeads DEF SendFile
  <2>3. CASE SendWithRetransmit
    BY <1>1, <2>3, SendFuncInOrder DEF SendWithRetransmit
  <2>4. CASE Ack
    BY <1>1, <2>4, TriesLead, ConnectionConstants DEF Ack, AckReceived
  <2> QED
    BY <2>1, <2>2, <2>3, <2>4 DEF Api
<1>4. UnitsInOrder(conn)' /\ removals' \in Nat
  BY <1>1, <1>3, BecomesInOrder DEF Around
<1> QED
  BY <1>1, <1>2, <1>4 DEF Around

\* The calls made by another thread: only the store of state_ touches conn.
LEMMA OutsideStep ==
    ASSUME StreamInOrder, NEW t \in Callers, Call(t) \/ SetState(t) \/ QueueCall(t)
    PROVE  StreamInOrder'
<1> SUFFICES UnitsInOrder(conn)' /\ Around'
  BY OrderIsParts, PTL
<1>1. UnitsInOrder(conn) /\ Around /\ conn \in Connections
  BY OrderIsParts DEF UnitsInOrder
<1>2. Idle \in [op : {"idle", "send", "forceClose"}, step : 0..2] /\ Idle.op = "idle"
  BY DEF Idle
<1>3. CASE Call(t)
  <2>1. pc' \in [Callers -> [op : {"idle", "send", "forceClose"}, step : 0..2]]
    BY <1>1, <1>2, <1>3 DEF Call, Around
  <2>2. ~released /\ calls' \in 0..MaxCalls
    BY <1>1, <1>3, ConnectionConstants DEF Call, ApiCall, Around
  <2> QED
    BY <1>1, <1>3, <2>1, <2>2 DEF Call, UnitsInOrder, Around
<1>4. CASE SetState(t)
  <2>1. pc' \in [Callers -> [op : {"idle", "send", "forceClose"}, step : 0..2]]
    BY <1>1, <1>4 DEF SetState, Around
  <2>2. ~released
    BY <1>1, <1>2, <1>4 DEF SetState, Around
  <2>3. conn' \in Connections
    BY <1>1, <1>4, Zenon DEF SetState, Connections
  <2>4. conn'.wire = conn.wire /\ conn'.buffer = conn.buffer /\ conn'.taken = conn.taken
    BY <1>1, <1>4 DEF SetState, Connections
  <2>5. UnitsInOrder(conn)'
    BY <1>1, <2>3, <2>4 DEF UnitsInOrder
  <2> QED
    BY <1>1, <1>4, <2>1, <2>2, <2>5 DEF SetState, Around
<1>5. CASE QueueCall(t)
  <2>1. pc' \in [Callers -> [op : {"idle", "send", "forceClose"}, step : 0..2]]
    BY <1>1, <1>2, <1>5 DEF QueueCall, Around
  <2>2. ~released
    BY <1>1, <1>2, <1>5 DEF QueueCall, Around
  <2>3. pc[t].op \in Functions /\ ioQueue' = Append(ioQueue, pc[t].op)
    BY <1>5 DEF QueueCall, Functions
  <2>4. ioQueue' \in Seq(Functions)
    BY <1>1, <2>3 DEF Around
  <2> QED
    BY <1>1, <1>5, <2>1, <2>2, <2>4 DEF QueueCall, UnitsInOrder, Around
<1> QED
  BY <1>3, <1>4, <1>5

\* The base loop, the destructor, the peer and the timer without an entry.
LEMMA RestStep ==
    StreamInOrder /\ (ExpireUnowned \/ RemoveConnectionInLoop \/ Release \/ PeerActs) => StreamInOrder'
<1> SUFFICES ASSUME StreamInOrder, ExpireUnowned \/ RemoveConnectionInLoop \/ Release \/ PeerActs
             PROVE  UnitsInOrder(conn)' /\ Around'
  BY OrderIsParts, PTL
<1>1. UnitsInOrder(conn) /\ Around /\ conn \in Connections
  BY OrderIsParts DEF UnitsInOrder
<1>2. CASE ExpireUnowned
  <2>1. UnitsInOrder(conn)'
    BY <1>1, <1>2, TriesLead, ConnectionConstants DEF ExpireUnowned, Leads
  <2> QED
    BY <1>1, <1>2, <2>1 DEF ExpireUnowned, Around
<1>3. CASE RemoveConnectionInLoop
  <2>1. ioQueue' \in Seq(Functions) /\ removals' \in Nat /\ ~released
    BY <1>1, <1>3 DEF RemoveConnectionInLoop, Around, Functions
  <2> QED
    BY <1>1, <1>3, <2>1 DEF RemoveConnectionInLoop, UnitsInOrder, Around
<1>4. CASE Release
  <2>1. UnitsInOrder(conn)'
    BY <1>1, <1>4, ChannelKeeps, KeepsLeads DEF Release, Leads
  <2> QED
    BY <1>1, <1>4, <2>1 DEF Release, Around
<1>5. CASE PeerActs
  <2>1. /\ peer' \in [sent : 0..MaxInput, unread : 0..MaxInput, half : BOOLEAN, reset : BOOLEAN]
        /\ peer'.unread <= peer'.sent
    <3>1. CASE peer.sent < MaxInput /\ peer' = [peer EXCEPT !.sent = @ + 1, !.unread = @ + 1]
      <4>1. PICK s, u : s = peer.sent + 1 /\ u = peer.unread + 1
        OBVIOUS
      <4>2. s \in 0..MaxInput /\ u \in 0..MaxInput /\ u <= s
        BY <1>1, <3>1, <4>1, ConnectionConstants DEF Around
      <4>3. peer' = [peer EXCEPT !.sent = s, !.unread = u]
        BY <3>1, <4>1
      <4> QED
        BY <1>1, <4>2, <4>3 DEF Around
    <3>2. CASE peer' = [peer EXCEPT !.half = TRUE]
      BY <1>1, <3>2 DEF Around
    <3>3. CASE peer' = [peer EXCEPT !.reset = TRUE]
      BY <1>1, <3>3 DEF Around
    <3> QED
      BY <1>5, <3>1, <3>2, <3>3 DEF PeerActs
  <2> QED
    BY <1>1, <1>5, <2>1 DEF PeerActs, UnitsInOrder, Around
<1> QED
  BY <1>2, <1>3, <1>4, <1>5

-----------------------------------------------------------------------------

\* What a connection has sent, followed by what it has buffered, is always
\* exactly what sendInLoop took and in that order: for any number of threads
\* calling send() and forceClose(), and whatever writes were cut short,
\* messages were sent again by a timer, or closes came in between
\* (sendInLoop, handleWrite, onRetransmitTimeout).
THEOREM SentInOrder == ConnectionSpec => []StreamInOrder
<1>1. StreamInOrder /\ [ConnectionNext]_connectionVars => StreamInOrder'
  <2> SUFFICES ASSUME StreamInOrder, [ConnectionNext]_connectionVars PROVE StreamInOrder'
    OBVIOUS
  <2>1. CASE Event
    BY <2>1, EventStep
  <2>2. CASE Expire
    BY <2>2, ExpireStep
  <2>3. CASE RunPending
    BY <2>3, RunPendingStep
  <2>4. CASE Api
    BY <2>4, ApiStep
  <2>5. CASE Outside
    BY <2>5, OutsideStep DEF Outside
  <2>6. CASE ExpireUnowned \/ RemoveConnectionInLoop \/ Release \/ PeerActs
    BY <2>6, RestStep
  <2>7. CASE UNCHANGED connectionVars
    BY <2>7 DEF StreamInOrder, ConnectionTypes, connectionVars
  <2> QED
    BY <2>1, <2>2, <2>3, <2>4, <2>5, <2>6, <2>7 DEF ConnectionNext, Io
<1> QED
  BY InitInOrder, <1>1, PTL DEF ConnectionSpec

-----------------------------------------------------------------------------
(* The chat and global service, for any number of gateways and any queue   *)
(* and buffer sizes: every gateway is given the same pushes, and no        *)
(* request is answered twice.                                              *)

Requests == [id : Nat, from : Gateways, kind : {"chat", "plain", "bad"}]
Messages == [to : Nat, kind : {"handshake", "reply", "push"}, id : Nat]

\* What one message adds to the ids of its kind, and all that is added.
IdOf(g, kind, m) == IF m.to = g /\ m.kind = kind THEN <<m.id>> ELSE <<>>
IdsEach(g, kind, s) == [i \in 1..Len(s) |-> IdOf(g, kind, s[i])]

LEMMA IdsForIs == \A g, kind, s : IdsFor(g, kind, s) = FlattenSeq(IdsEach(g, kind, s))
  BY Zenon DEF IdsFor, IdsEach, IdOf

LEMMA IdsEachType ==
    ASSUME NEW g, NEW kind, NEW s \in Seq(Messages)
    PROVE  /\ IdsEach(g, kind, s) \in Seq(Seq(Nat)) /\ Len(IdsEach(g, kind, s)) = Len(s)
           /\ \A i \in 1..Len(s) : IdsEach(g, kind, s)[i] = IdOf(g, kind, s[i])
           /\ \A m \in Messages : IdOf(g, kind, m) \in Seq(Nat)
<1>1. \A m \in Messages : IdOf(g, kind, m) \in Seq(Nat)
  <2>1. <<>> \in Seq(Nat) /\ \A n \in Nat : <<n>> \in Seq(Nat)
    OBVIOUS
  <2> QED
    BY <2>1 DEF IdOf, Messages
<1>2. \A i \in 1..Len(s) : s[i] \in Messages
  BY ElementOfSeq
<1>3. Len(s) \in Nat
  OBVIOUS
<1>4. \A i \in 1..Len(s) : IdOf(g, kind, s[i]) \in Seq(Nat)
  BY <1>1, <1>2
<1> QED
  BY <1>1, <1>3, <1>4 DEF IdsEach

LEMMA IdsForType ==
    ASSUME NEW g, NEW kind, NEW s \in Seq(Messages)
    PROVE  IdsFor(g, kind, s) \in Seq(Nat)
<1>1. PICK p \in Seq(Seq(Nat)) : p = IdsEach(g, kind, s)
  BY IdsEachType
<1>2. FlattenSeq(p) \in Seq(Nat)
  BY FlattenType
<1> QED
  BY <1>1, <1>2, IdsForIs

LEMMA IdsForNone ==
    ASSUME NEW g, NEW kind, NEW s \in Seq(Messages), \A i \in 1..Len(s) : IdOf(g, kind, s[i]) = <<>>
    PROVE  IdsFor(g, kind, s) = <<>>
<1>1. PICK p \in Seq(Seq(Nat)) : p = IdsEach(g, kind, s)
  BY IdsEachType
<1>2. \A i \in 1..Len(p) : p[i] = <<>>
  BY <1>1, IdsEachType
<1>3. FlattenSeq(p) = <<>>
  BY <1>2, FlattenNothing
<1> QED
  BY <1>1, <1>3, IdsForIs

LEMMA IdsForEmpty == \A g, kind : IdsFor(g, kind, <<>>) = <<>>
<1> SUFFICES ASSUME NEW g, NEW kind PROVE IdsFor(g, kind, <<>>) = <<>>
  OBVIOUS
<1>0. <<>> \in Seq(Messages)
  OBVIOUS
<1>1. PICK s \in Seq(Messages) : s = <<>>
  BY <1>0
<1>2. \A i \in 1..Len(s) : IdOf(g, kind, s[i]) = <<>>
  BY <1>1
<1> QED
  BY <1>1, <1>2, IdsForNone

\* m is s with x at the end.
Extended(s, x, m) == m = Append(s, x)

LEMMA IdsForAppend ==
    ASSUME NEW g, NEW kind, NEW s \in Seq(Messages), NEW x \in Messages, NEW m, Extended(s, x, m)
    PROVE  IdsFor(g, kind, m) = Cat(IdsFor(g, kind, s), IdOf(g, kind, x))
<1>1. /\ m \in Seq(Messages) /\ Len(s) \in Nat /\ Len(m) = Len(s) + 1 /\ m[Len(s) + 1] = x
      /\ \A i \in 1..Len(s) : m[i] = s[i]
  BY DEF Extended
<1>2. PICK p \in Seq(Seq(Nat)) : p = IdsEach(g, kind, s)
  BY IdsEachType
<1>3. PICK q \in Seq(Seq(Nat)) : q = IdsEach(g, kind, m)
  BY <1>1, IdsEachType
<1>4. PICK z \in Seq(Nat) : z = IdOf(g, kind, x)
  BY <1>1, IdsEachType
<1>5. Len(p) = Len(s) /\ \A i \in 1..Len(s) : p[i] = IdOf(g, kind, s[i])
  BY <1>2, IdsEachType
<1>6. Len(q) = Len(m) /\ \A i \in 1..Len(m) : q[i] = IdOf(g, kind, m[i])
  BY <1>1, <1>3, IdsEachType
<1>7. q = Append(p, z)
  <2>1. Len(Append(p, z)) = Len(q) /\ Append(p, z) \in Seq(Seq(Nat))
    BY <1>1, <1>5, <1>6
  <2>2. ASSUME NEW i \in 1..Len(q) PROVE q[i] = Append(p, z)[i]
    <3>1. CASE i \in 1..Len(s)
      <4>1. q[i] = IdOf(g, kind, s[i]) /\ p[i] = IdOf(g, kind, s[i])
        BY <1>1, <1>5, <1>6, <3>1
      <4>2. Append(p, z)[i] = p[i]
        BY <1>5, <3>1
      <4> QED
        BY <4>1, <4>2
    <3>2. CASE i = Len(s) + 1
      <4>1. q[i] = z
        BY <1>1, <1>4, <1>6, <3>2
      <4>2. Append(p, z)[i] = z
        BY <1>5, <3>2
      <4> QED
        BY <4>1, <4>2
    <3>3. Len(q) = Len(s) + 1 /\ Len(s) \in Nat
      BY <1>1, <1>6
    <3>4. i \in 1..Len(s) \/ i = Len(s) + 1
      BY <3>3
    <3> QED
      BY <3>1, <3>2, <3>4
  <2> QED
    BY <2>1, <2>2, SeqEqual
<1>8. FlattenSeq(q) = Cat(FlattenSeq(p), z)
  BY <1>7, FlattenAppend
<1> QED
  BY <1>2, <1>3, <1>4, <1>8, IdsForIs

\* The ids of s and then of t.
LEMMA IdsForCat ==
    ASSUME NEW g, NEW kind, NEW s \in Seq(Messages), NEW t \in Seq(Messages)
    PROVE  IdsFor(g, kind, Cat(s, t)) = Cat(IdsFor(g, kind, s), IdsFor(g, kind, t))
<1> DEFINE Good(n) == \A u \in Seq(Messages) : Len(u) = n =>
                         IdsFor(g, kind, Cat(s, u)) = Cat(IdsFor(g, kind, s), IdsFor(g, kind, u))
           T == {n \in Nat : Good(n)}
<1>1. 0 \in T
  <2>1. Cat(s, <<>>) = s /\ <<>> \in Seq(Messages)
    BY CatFacts
  <2>2. IdsFor(g, kind, <<>>) = <<>>
    BY IdsForEmpty
  <2>3. IdsFor(g, kind, s) \in Seq(Nat)
    BY IdsForType
  <2>4. Cat(IdsFor(g, kind, s), <<>>) = IdsFor(g, kind, s)
    BY <2>3, CatFacts
  <2>5. \A u \in Seq(Messages) : Len(u) = 0 => u = <<>>
    BY EmptySeq
  <2> QED
    BY <2>1, <2>2, <2>4, <2>5
<1>2. ASSUME NEW n \in T PROVE n + 1 \in T
  <2>1. n \in Nat /\ Good(n)
    OBVIOUS
  <2> SUFFICES ASSUME NEW u \in Seq(Messages), Len(u) = n + 1
               PROVE  IdsFor(g, kind, Cat(s, u)) = Cat(IdsFor(g, kind, s), IdsFor(g, kind, u))
    BY <2>1
  <2> HIDE DEF T
  <2>2. PICK v, x : v = [i \in 1..n |-> u[i]] /\ x = u[n + 1]
    OBVIOUS
  <2>3. v \in Seq(Messages) /\ Len(v) = n /\ x \in Messages
    <3>1. \A i \in 1..(n + 1) : u[i] \in Messages
      BY ElementOfSeq
    <3> QED
      BY <2>1, <2>2, <3>1
  <2>4. Extended(v, x, u)
    <3>1. Append(v, x) \in Seq(Messages) /\ Len(Append(v, x)) = Len(u)
      BY <2>1, <2>3
    <3>2. \A i \in 1..Len(u) : Append(v, x)[i] = u[i]
      BY <2>1, <2>2, <2>3
    <3> QED
      BY <3>1, <3>2, SeqEqual DEF Extended
  <2>5. PICK w \in Seq(Messages) : w = Cat(s, v)
    BY <2>3, CatFacts
  <2>6. PICK z \in Seq(Messages) : z = Cat(s, u)
    BY CatFacts
  <2>7. Extended(w, x, z)
    <3>1. Cat(s, Append(v, x)) = Append(Cat(s, v), x)
      BY <2>3, CatAppend
    <3> QED
      BY <2>4, <2>5, <2>6, <3>1 DEF Extended
  <2>8. IdsFor(g, kind, z) = Cat(IdsFor(g, kind, w), IdOf(g, kind, x))
    BY <2>3, <2>7, IdsForAppend
  <2>9. IdsFor(g, kind, u) = Cat(IdsFor(g, kind, v), IdOf(g, kind, x))
    BY <2>3, <2>4, IdsForAppend
  <2>10. IdsFor(g, kind, w) = Cat(IdsFor(g, kind, s), IdsFor(g, kind, v))
    BY <2>1, <2>3, <2>5
  <2>11. IdsFor(g, kind, s) \in Seq(Nat) /\ IdsFor(g, kind, v) \in Seq(Nat) /\ IdOf(g, kind, x) \in Seq(Nat)
    BY <2>3, IdsForType, IdsEachType
  <2> QED
    BY <2>6, <2>8, <2>9, <2>10, <2>11, CatFacts
<1>3. T = Nat
  <2>1. T \in SUBSET Nat
    OBVIOUS
  <2> HIDE DEF T
  <2> QED
    BY <1>1, <1>2, <2>1, NatSetInduction
<1>4. Good(Len(t))
  <2>1. Len(t) \in T
    BY <1>3
  <2> HIDE DEF Good
  <2> QED
    BY <2>1
<1> QED
  BY <1>4

\* One message by itself.
LEMMA IdsForOne ==
    ASSUME NEW g, NEW kind, NEW m \in Messages
    PROVE  IdsFor(g, kind, <<m>>) = IdOf(g, kind, m)
<1>1. <<>> \in Seq(Messages) /\ Extended(<<>>, m, <<m>>)
  BY DEF Extended
<1>2. IdsFor(g, kind, <<m>>) = Cat(IdsFor(g, kind, <<>>), IdOf(g, kind, m))
  BY <1>1, IdsForAppend
<1>3. IdsFor(g, kind, <<>>) = <<>>
  BY IdsForEmpty
<1>4. IdOf(g, kind, m) \in Seq(Nat)
  BY <1>1, IdsEachType
<1> QED
  BY <1>2, <1>3, <1>4, CatFacts

\* The pushes of a request: one for every gateway.
LEMMA PushesIds ==
    ASSUME NEW r \in Requests
    PROVE  /\ Pushes(r) \in Seq(Messages) /\ \A i \in 1..Len(Pushes(r)) : Pushes(r)[i].to \in Gateways
           /\ Gateways \subseteq Nat
           /\ \A g \in Gateways : /\ IdsFor(g, "push", Pushes(r)) = <<r.id>>
                                  /\ IdsFor(g, "reply", Pushes(r)) = <<>>
<1>1. PICK n \in Nat : Gateways = 1..n
  BY ServiceAssumption
<1>2. PICK p : p = Pushes(r)
  OBVIOUS
<1>3. p = [i \in 1..n |-> [to |-> i, kind |-> "push", id |-> r.id]]
  BY <1>1, <1>2 DEF Pushes
<1>4. r.id \in Nat
  BY DEF Requests
<1>5. \A i \in 1..n : [to |-> i, kind |-> "push", id |-> r.id] \in Messages
  BY <1>4 DEF Messages
<1>6. p \in Seq(Messages) /\ Len(p) = n /\ \A i \in 1..n : p[i].to = i /\ p[i].kind = "push" /\ p[i].id = r.id
  BY <1>3, <1>5
<1>7. ASSUME NEW g \in Gateways PROVE IdsFor(g, "reply", p) = <<>>
  <2>1. \A i \in 1..Len(p) : IdOf(g, "reply", p[i]) = <<>>
    BY <1>6 DEF IdOf
  <2> QED
    BY <1>6, <2>1, IdsForNone
<1>8. ASSUME NEW g \in Gateways PROVE IdsFor(g, "push", p) = <<r.id>>
  <2>0. PICK kind : kind = "push"
    OBVIOUS
  <2>1. PICK q \in Seq(Seq(Nat)) : q = IdsEach(g, kind, p)
    BY <1>6, IdsEachType
  <2>2. Len(q) = n /\ \A i \in 1..n : q[i] = IF i = g THEN <<r.id>> ELSE <<>>
    <3>1. /\ Len(IdsEach(g, kind, p)) = Len(p)
          /\ \A i \in 1..Len(p) : IdsEach(g, kind, p)[i] = IdOf(g, kind, p[i])
      <4>1. p \in Seq(Messages)
        BY <1>6
      <4> QED
        BY <4>1, IdsEachType
    <3>2. Len(q) = n /\ \A i \in 1..n : q[i] = IdOf(g, kind, p[i])
      BY <1>6, <2>1, <3>1
    <3> QED
      BY <1>6, <2>0, <3>2 DEF IdOf
  <2>3. g \in 1..Len(q) /\ \A j \in 1..(g - 1) : q[j] = <<>>
    BY <1>1, <2>2
  <2>4. FlattenSeq(q) = Cat(q[g], FlattenSeq([q EXCEPT ![g] = <<>>]))
    BY <2>3, FlattenTakeFirst
  <2>5. PICK o : o = [q EXCEPT ![g] = <<>>]
    OBVIOUS
  <2>6. o \in Seq(Seq(Nat)) /\ Len(o) = n /\ \A i \in 1..Len(o) : o[i] = <<>>
    <3>1. <<>> \in Seq(Nat)
      OBVIOUS
    <3>2. o \in Seq(Seq(Nat)) /\ Len(o) = n
      BY <2>2, <2>3, <2>5, <3>1
    <3> QED
      BY <2>2, <2>3, <2>5, <3>2
  <2>7. FlattenSeq(o) = <<>>
    BY <2>6, FlattenNothing
  <2>8. q[g] = <<r.id>> /\ <<r.id>> \in Seq(Nat)
    BY <1>4, <2>2, <2>3
  <2>9. FlattenSeq(q) = <<r.id>>
    BY <2>4, <2>5, <2>7, <2>8, CatFacts
  <2> QED
    BY <2>0, <2>1, <2>9, IdsForIs
<1> QED
  BY <1>1, <1>2, <1>6, <1>7, <1>8

\* The ids of waiting requests, and that none waits twice.
RequestIds(s) == {s[i].id : i \in 1..Len(s)}
Once(s) == \A i, j \in 1..Len(s) : s[i].id = s[j].id => i = j
IdRange(q) == {q[i] : i \in 1..Len(q)}

LEMMA FirstTaken ==
    ASSUME NEW s \in Seq(Requests), s # <<>>
    PROVE  /\ Head(s) \in Requests /\ Tail(s) \in Seq(Requests)
           /\ RequestIds(s) = RequestIds(Tail(s)) \cup {Head(s).id}
           /\ Once(s) => Once(Tail(s)) /\ Head(s).id \notin RequestIds(Tail(s))
<1>1. PICK n \in Nat : Len(s) = n
  OBVIOUS
<1>2. PICK t : t = Tail(s)
  OBVIOUS
<1>3. /\ n # 0 /\ Head(s) = s[1] /\ s[1] \in Requests /\ t \in Seq(Requests) /\ Len(t) = n - 1
      /\ \A i \in 1..(n - 1) : t[i] = s[i + 1]
  BY <1>1, <1>2
<1>4. RequestIds(t) = {s[i + 1].id : i \in 1..(n - 1)}
  <2>1. RequestIds(t) = {t[i].id : i \in 1..(n - 1)}
    BY <1>3 DEF RequestIds
  <2>2. \A i \in 1..(n - 1) : t[i].id = s[i + 1].id
    BY <1>3
  <2> QED
    BY <2>1, <2>2
<1>5. \A i \in 1..n : i = 1 \/ (i - 1 \in 1..(n - 1) /\ i = (i - 1) + 1)
  BY <1>1
<1>6. RequestIds(s) = RequestIds(t) \cup {s[1].id}
  <2>1. RequestIds(s) = {s[i].id : i \in 1..n}
    BY <1>1 DEF RequestIds
  <2>2. 1 \in 1..n /\ \A i \in 1..(n - 1) : i + 1 \in 1..n
    BY <1>1, <1>3
  <2> QED
    BY <1>4, <1>5, <2>1, <2>2
<1>7. ASSUME Once(s) PROVE Once(t) /\ s[1].id \notin RequestIds(t)
  <2>1. \A i, j \in 1..n : s[i].id = s[j].id => i = j
    BY <1>1, <1>7 DEF Once
  <2>2. 1 \in 1..n /\ \A i \in 1..(n - 1) : i + 1 \in 1..n /\ i + 1 # 1
    BY <1>1, <1>3
  <2>3. s[1].id \notin RequestIds(t)
    BY <1>4, <2>1, <2>2
  <2>4. Once(t)
    <3> SUFFICES ASSUME NEW i \in 1..(n - 1), NEW j \in 1..(n - 1), t[i].id = t[j].id PROVE i = j
      BY <1>3 DEF Once
    <3>1. i + 1 \in 1..n /\ j + 1 \in 1..n /\ t[i] = s[i + 1] /\ t[j] = s[j + 1]
      BY <1>3, <2>2
    <3>2. i + 1 = j + 1
      BY <2>1, <3>1
    <3> QED
      BY <3>2
  <2> QED
    BY <2>3, <2>4
<1> QED
  BY <1>2, <1>3, <1>6, <1>7

LEMMA LastAdded ==
    ASSUME NEW s \in Seq(Requests), NEW x \in Requests, NEW m, Extended(s, x, m)
    PROVE  /\ m \in Seq(Requests) /\ RequestIds(m) = RequestIds(s) \cup {x.id}
           /\ Once(s) /\ x.id \notin RequestIds(s) => Once(m)
<1>1. PICK n \in Nat : Len(s) = n
  OBVIOUS
<1>2. m \in Seq(Requests) /\ Len(m) = n + 1 /\ m[n + 1] = x /\ \A i \in 1..n : m[i] = s[i]
  BY <1>1 DEF Extended
<1>3. \A i \in 1..(n + 1) : i \in 1..n \/ i = n + 1
  BY <1>1
<1>4. n + 1 \in 1..(n + 1) /\ \A i \in 1..n : i \in 1..(n + 1)
  BY <1>1
<1>5. RequestIds(m) = RequestIds(s) \cup {x.id}
  <2>1. RequestIds(m) = {m[i].id : i \in 1..(n + 1)} /\ RequestIds(s) = {s[i].id : i \in 1..n}
    BY <1>1, <1>2 DEF RequestIds
  <2> QED
    BY <1>2, <1>3, <1>4, <2>1
<1>6. ASSUME Once(s), x.id \notin RequestIds(s) PROVE Once(m)
  <2> SUFFICES ASSUME NEW i \in 1..(n + 1), NEW j \in 1..(n + 1), m[i].id = m[j].id PROVE i = j
    BY <1>2 DEF Once
  <2>1. \A k \in 1..n : s[k].id # x.id
    BY <1>1, <1>6 DEF RequestIds
  <2>2. \A k, l \in 1..n : s[k].id = s[l].id => k = l
    BY <1>1, <1>6 DEF Once
  <2> QED
    BY <1>2, <1>3, <2>1, <2>2
<1> QED
  BY <1>2, <1>5, <1>6

LEMMA InjectiveAdded ==
    ASSUME NEW q \in Seq(Nat), NEW x \in Nat
    PROVE  /\ IdRange(Append(q, x)) = IdRange(q) \cup {x} /\ Append(q, x) \in Seq(Nat)
           /\ IsInjective(q) /\ x \notin IdRange(q) => IsInjective(Append(q, x))
<1>1. PICK n \in Nat : Len(q) = n
  OBVIOUS
<1>2. PICK m : m = Append(q, x)
  OBVIOUS
<1>3. m \in Seq(Nat) /\ Len(m) = n + 1 /\ m[n + 1] = x /\ \A i \in 1..n : m[i] = q[i]
  BY <1>1, <1>2
<1>4. \A i \in 1..(n + 1) : i \in 1..n \/ i = n + 1
  BY <1>1
<1>5. n + 1 \in 1..(n + 1) /\ \A i \in 1..n : i \in 1..(n + 1)
  BY <1>1
<1>6. IdRange(m) = IdRange(q) \cup {x}
  <2>1. IdRange(m) = {m[i] : i \in 1..(n + 1)} /\ IdRange(q) = {q[i] : i \in 1..n}
    BY <1>1, <1>3 DEF IdRange
  <2> QED
    BY <1>3, <1>4, <1>5, <2>1
<1>7. ASSUME IsInjective(q), x \notin IdRange(q) PROVE IsInjective(m)
  <2>1. DOMAIN m = 1..(n + 1) /\ DOMAIN q = 1..n
    BY <1>1, <1>3
  <2> SUFFICES ASSUME NEW i \in 1..(n + 1), NEW j \in 1..(n + 1), m[i] = m[j] PROVE i = j
    BY <2>1 DEF IsInjective
  <2>2. \A k \in 1..n : q[k] # x
    BY <1>1, <1>7 DEF IdRange
  <2>3. \A k, l \in 1..n : q[k] = q[l] => k = l
    BY <1>7, <2>1 DEF IsInjective
  <2> QED
    BY <1>3, <1>4, <2>2, <2>3
<1> QED
  BY <1>2, <1>3, <1>6, <1>7

-----------------------------------------------------------------------------

ServiceTypes ==
    /\ toLogic \in Seq(Requests)
    /\ toNet \in Seq(Messages) /\ \A i \in 1..Len(toNet) : toNet[i].to \in Gateways
    /\ output \in [Gateways -> Seq(Messages)] /\ outbox \in [Gateways -> Seq(Messages)]
    /\ wire \in [Gateways -> Seq(Requests)]
    /\ accepted \in Seq(Nat) /\ requested \in Nat
    /\ logic \in {"batch", "reply"} => msg \in Requests

\* While the links are being connected nothing has come in.
NotConnected ==
    poller = "connect" =>
        /\ toNet = <<>> /\ accepted = <<>> /\ logic = "get"
        /\ \A g \in Gateways : /\ outbox[g] = <<>>
                               /\ IdsFor(g, "push", output[g]) = <<>>
                               /\ IdsFor(g, "reply", output[g]) = <<>>

\* Every gateway has been given the pushes of the accepted messages.
Pushed(g) == IdsFor(g, "push", Sent(g))
Replied(g) == IdsFor(g, "reply", Sent(g))

\* A request is in one place, on a wire, in the queue or with the logic
\* thread, and it is not answered there.
HeldIds == IF logic \in {"batch", "reply"} THEN {msg.id} ELSE {}
Waiting == HeldIds \cup RequestIds(toLogic)
Unanswered ==
    /\ Once(toLogic) /\ HeldIds \cap RequestIds(toLogic) = {}
    /\ \A g \in Gateways : Once(wire[g]) /\ RequestIds(wire[g]) \cap Waiting = {}
    /\ \A g, h \in Gateways : g # h => RequestIds(wire[g]) \cap RequestIds(wire[h]) = {}
    /\ \A g \in Gateways : IdRange(Replied(g)) \cap Waiting = {}
    /\ \A g, h \in Gateways : IdRange(Replied(g)) \cap RequestIds(wire[h]) = {}
    /\ Waiting \subseteq 1..requested
    /\ \A g \in Gateways : RequestIds(wire[g]) \cup IdRange(Replied(g)) \subseteq 1..requested
    /\ \A g \in Gateways : IsInjective(Replied(g))

ServiceInv ==
    /\ ServiceTypes /\ NotConnected
    /\ ok => Unanswered /\ \A g \in Gateways : Pushed(g) = accepted

\* What a link was given, in its three parts.
LEMMA ThreeParts ==
    ASSUME NEW a \in Seq(Messages), NEW b \in Seq(Messages), NEW c \in Seq(Messages), NEW g, NEW kind
    PROVE  /\ IdsFor(g, kind, a \o b \o c) = Cat(Cat(IdsFor(g, kind, a), IdsFor(g, kind, b)), IdsFor(g, kind, c))
           /\ IdsFor(g, kind, a) \in Seq(Nat) /\ IdsFor(g, kind, b) \in Seq(Nat)
           /\ IdsFor(g, kind, c) \in Seq(Nat) /\ IdsFor(g, kind, a \o b \o c) \in Seq(Nat)
<1>1. PICK d \in Seq(Messages) : d = Cat(a, b)
  BY CatFacts
<1>2. a \o b \o c = Cat(d, c)
  BY <1>1 DEF Cat
<1>3. IdsFor(g, kind, Cat(d, c)) = Cat(IdsFor(g, kind, d), IdsFor(g, kind, c))
  BY IdsForCat
<1>4. IdsFor(g, kind, d) = Cat(IdsFor(g, kind, a), IdsFor(g, kind, b))
  BY <1>1, IdsForCat
<1>5. /\ IdsFor(g, kind, a) \in Seq(Nat) /\ IdsFor(g, kind, b) \in Seq(Nat)
      /\ IdsFor(g, kind, c) \in Seq(Nat)
  BY IdsForType
<1>6. \A x, y \in Seq(Nat) : Cat(x, y) \in Seq(Nat)
  BY CatFacts
<1> QED
  BY <1>2, <1>3, <1>4, <1>5, <1>6

\* Before and after a step.
LEMMA SentParts ==
    ASSUME ServiceTypes, NEW g \in Gateways, NEW kind
    PROVE  /\ IdsFor(g, kind, Sent(g)) = Cat(Cat(IdsFor(g, kind, outbox[g]), IdsFor(g, kind, output[g])),
                                             IdsFor(g, kind, toNet))
           /\ IdsFor(g, kind, outbox[g]) \in Seq(Nat) /\ IdsFor(g, kind, output[g]) \in Seq(Nat)
           /\ IdsFor(g, kind, toNet) \in Seq(Nat) /\ IdsFor(g, kind, Sent(g)) \in Seq(Nat)
<1>1. outbox[g] \in Seq(Messages) /\ output[g] \in Seq(Messages) /\ toNet \in Seq(Messages)
  BY DEF ServiceTypes
<1> QED
  BY <1>1, ThreeParts DEF Sent

LEMMA SentPartsNext ==
    ASSUME ServiceTypes', NEW g \in Gateways, NEW kind
    PROVE  /\ IdsFor(g, kind, Sent(g)') = Cat(Cat(IdsFor(g, kind, outbox'[g]), IdsFor(g, kind, output'[g])),
                                             IdsFor(g, kind, toNet'))
           /\ IdsFor(g, kind, outbox'[g]) \in Seq(Nat) /\ IdsFor(g, kind, output'[g]) \in Seq(Nat)
           /\ IdsFor(g, kind, toNet') \in Seq(Nat) /\ IdsFor(g, kind, Sent(g)') \in Seq(Nat)
<1>1. outbox'[g] \in Seq(Messages) /\ output'[g] \in Seq(Messages) /\ toNet' \in Seq(Messages)
  BY DEF ServiceTypes
<1> QED
  BY <1>1, ThreeParts DEF Sent

LEMMA ServiceStarts == ServiceInit => ServiceInv
<1> SUFFICES ASSUME ServiceInit PROVE ServiceInv
  OBVIOUS
<1> USE DEF ServiceInit
<1>1. <<>> \in Seq(Requests) /\ <<>> \in Seq(Messages) /\ <<>> \in Seq(Nat) /\ Len(<<>>) = 0
  OBVIOUS
<1>2. ServiceTypes
  BY <1>1 DEF ServiceTypes
<1>3. \A g \in Gateways : outbox[g] = <<>> /\ output[g] = <<>> /\ wire[g] = <<>>
  OBVIOUS
<1>4. NotConnected
  BY <1>3, IdsForEmpty DEF NotConnected
<1>5. ASSUME NEW g \in Gateways PROVE Pushed(g) = <<>> /\ Replied(g) = <<>>
  <2>1. Sent(g) = <<>>
    BY <1>1, <1>3, ConcatEmptySeq DEF Sent
  <2> QED
    BY <2>1, IdsForEmpty DEF Pushed, Replied
<1>6. RequestIds(<<>>) = {} /\ IdRange(<<>>) = {} /\ Once(<<>>) /\ IsInjective(<<>>)
  BY DEF RequestIds, IdRange, Once, IsInjective
<1>7. HeldIds = {} /\ RequestIds(toLogic) = {} /\ Waiting = {}
  BY <1>6 DEF HeldIds, Waiting
<1>8. Unanswered
  BY <1>3, <1>5, <1>6, <1>7 DEF Unanswered
<1> QED
  BY <1>2, <1>4, <1>5, <1>8 DEF ServiceInv

\* Whatever leaves requests, messages and their places alone.
LEMMA ServiceSame ==
    ASSUME ServiceInv, UNCHANGED <<toLogic, toNet, output, outbox, wire, accepted, requested, logic, msg>>,
           ok' => ok, poller' = "connect" => poller = "connect"
    PROVE  ServiceInv'
<1>1. ServiceTypes'
  BY DEF ServiceInv, ServiceTypes
<1>2. NotConnected'
  BY DEF ServiceInv, NotConnected
<1>3. \A g \in Gateways : Pushed(g)' = Pushed(g) /\ Replied(g)' = Replied(g)
  BY DEF Pushed, Replied, Sent
<1>4. HeldIds' = HeldIds /\ Waiting' = Waiting
  BY DEF HeldIds, Waiting
<1>5. Unanswered => Unanswered'
  BY <1>3, <1>4 DEF Unanswered
<1> QED
  BY <1>1, <1>2, <1>3, <1>5 DEF ServiceInv

\* The logic thread takes a request, or leaves.
LEMMA GetStep == ServiceInv /\ Get => ServiceInv'
<1> SUFFICES ASSUME ServiceInv, Get PROVE ServiceInv'
  OBVIOUS
<1>1. /\ logic = "get" /\ poller # "connect"
      /\ UNCHANGED <<toNet, accepted, ok, poller, output, wire, requested, outbox>>
      /\ \/ /\ toLogic # <<>> /\ msg' = Head(toLogic) /\ toLogic' = Tail(toLogic)
            /\ logic' \in {"batch", "reply"}
         \/ logic' = "done" /\ UNCHANGED <<msg, toLogic>>
  BY DEF Get, LogicUnchanged
<1>2. NotConnected'
  BY <1>1 DEF NotConnected
<1>3. \A g \in Gateways : Pushed(g)' = Pushed(g) /\ Replied(g)' = Replied(g)
  BY <1>1 DEF Pushed, Replied, Sent
<1>4. HeldIds = {}
  BY <1>1 DEF HeldIds
<1>5. CASE toLogic # <<>> /\ msg' = Head(toLogic) /\ toLogic' = Tail(toLogic) /\ logic' \in {"batch", "reply"}
  <2>1. toLogic \in Seq(Requests) /\ toLogic # <<>>
    BY <1>5 DEF ServiceInv, ServiceTypes
  <2>2. /\ msg' \in Requests /\ toLogic' \in Seq(Requests)
        /\ RequestIds(toLogic) = RequestIds(toLogic') \cup {msg'.id}
        /\ Once(toLogic) => Once(toLogic') /\ msg'.id \notin RequestIds(toLogic')
    BY <1>5, <2>1, FirstTaken
  <2>3. ServiceTypes'
    BY <1>1, <2>2 DEF ServiceInv, ServiceTypes
  <2>4. HeldIds' = {msg'.id} /\ Waiting' = Waiting /\ RequestIds(toLogic)' = RequestIds(toLogic')
    BY <1>4, <1>5, <2>2 DEF HeldIds, Waiting, RequestIds
  <2>5. ok' => Unanswered'
    <3> SUFFICES ASSUME ok PROVE Unanswered'
      BY <1>1
    <3>1. Unanswered
      BY DEF ServiceInv
    <3>2. Once(toLogic') /\ HeldIds' \cap RequestIds(toLogic') = {}
      BY <2>2, <2>4, <3>1 DEF Unanswered
    <3> QED
      BY <1>1, <1>3, <2>4, <3>1, <3>2 DEF Unanswered
  <2> QED
    BY <1>1, <1>2, <1>3, <2>3, <2>5 DEF ServiceInv
<1>6. CASE logic' = "done" /\ UNCHANGED <<msg, toLogic>>
  <2>1. HeldIds' = {} /\ Waiting' = Waiting
    BY <1>4, <1>6 DEF HeldIds, Waiting
  <2>2. Unanswered => Unanswered'
    BY <1>1, <1>3, <1>4, <1>6, <2>1 DEF Unanswered
  <2>3. ServiceTypes'
    BY <1>1, <1>6 DEF ServiceInv, ServiceTypes
  <2> QED
    BY <1>1, <1>2, <1>3, <2>2, <2>3 DEF ServiceInv
<1> QED
  BY <1>1, <1>5, <1>6

\* Messages at the end of the queue come after all that was given before.
LEMMA GivenMore ==
    ASSUME ServiceTypes, ServiceTypes', UNCHANGED <<output, outbox>>,
           NEW b \in Seq(Messages), toNet' = Cat(toNet, b), NEW g \in Gateways, NEW kind
    PROVE  IdsFor(g, kind, Sent(g)') = Cat(IdsFor(g, kind, Sent(g)), IdsFor(g, kind, b))
<1>1. PICK x, y, n, z : /\ x = IdsFor(g, kind, outbox[g]) /\ y = IdsFor(g, kind, output[g])
                        /\ n = IdsFor(g, kind, toNet) /\ z = IdsFor(g, kind, b)
  OBVIOUS
<1>2. /\ IdsFor(g, kind, Sent(g)) = Cat(Cat(x, y), n)
      /\ x \in Seq(Nat) /\ y \in Seq(Nat) /\ n \in Seq(Nat)
  BY <1>1, SentParts
<1>3. IdsFor(g, kind, Sent(g)') = Cat(Cat(x, y), IdsFor(g, kind, toNet'))
  BY <1>1, SentPartsNext
<1>4. toNet \in Seq(Messages)
  BY DEF ServiceTypes
<1>5. IdsFor(g, kind, toNet') = Cat(n, z) /\ z \in Seq(Nat)
  BY <1>1, <1>4, IdsForCat, IdsForType
<1>6. Cat(x, y) \in Seq(Nat)
  BY <1>2, CatFacts
<1> QED
  BY <1>1, <1>2, <1>3, <1>5, <1>6, CatFacts

\* The request the logic thread holds is answered.
LEMMA HeldAnswered ==
    ASSUME Unanswered, msg \in Requests, logic \in {"batch", "reply"}, logic' = "get", requested \in Nat,
           UNCHANGED <<toLogic, wire, requested>>,
           \A g \in Gateways : Replied(g) \in Seq(Nat),
           \A g \in Gateways : Replied(g)' = IF g = msg.from THEN Append(Replied(g), msg.id) ELSE Replied(g)
    PROVE  Unanswered'
<1>1. HeldIds = {msg.id} /\ HeldIds' = {} /\ msg.id \in Nat
  BY DEF HeldIds, Requests
<1>2. RequestIds(toLogic)' = RequestIds(toLogic) /\ Once(toLogic)' = Once(toLogic)
  BY DEF RequestIds, Once
<1>3. Waiting' = RequestIds(toLogic) /\ Waiting = RequestIds(toLogic) \cup {msg.id}
  BY <1>1, <1>2 DEF Waiting
<1>4. msg.id \in 1..requested /\ msg.id \notin RequestIds(toLogic)
  BY <1>1, <1>3 DEF Unanswered
<1>5. ASSUME NEW g \in Gateways
      PROVE  /\ IdRange(Replied(g)') \subseteq IdRange(Replied(g)) \cup {msg.id}
             /\ IsInjective(Replied(g)')
  <2>1. IsInjective(Replied(g)) /\ msg.id \notin IdRange(Replied(g))
    BY <1>3 DEF Unanswered
  <2>2. PICK q \in Seq(Nat) : q = Replied(g)
    OBVIOUS
  <2>3. /\ IdRange(Append(q, msg.id)) = IdRange(q) \cup {msg.id}
        /\ IsInjective(Append(q, msg.id))
    BY <1>1, <2>1, <2>2, InjectiveAdded
  <2> QED
    BY <2>1, <2>2, <2>3
<1>6. \A g \in Gateways : msg.id \notin RequestIds(wire[g])
  BY <1>3 DEF Unanswered
<1>7. \A g \in Gateways : IdRange(Replied(g)') \cap RequestIds(toLogic) = {}
  BY <1>3, <1>4, <1>5 DEF Unanswered
<1>8. \A g, h \in Gateways : IdRange(Replied(g)') \cap RequestIds(wire[h]) = {}
  BY <1>5, <1>6 DEF Unanswered
<1>9. \A g \in Gateways : RequestIds(wire[g]) \cup IdRange(Replied(g)') \subseteq 1..requested
  BY <1>4, <1>5 DEF Unanswered
<1> QED
  BY <1>1, <1>2, <1>3, <1>5, <1>7, <1>8, <1>9 DEF Unanswered

\* The answer by itself.
LEMMA ReplyIds ==
    ASSUME NEW r \in Requests
    PROVE  /\ Reply(r) \in Messages /\ <<Reply(r)>> \in Seq(Messages) /\ Len(<<Reply(r)>>) = 1
           /\ Reply(r).to \in Gateways
           /\ \A g : /\ IdsFor(g, "push", <<Reply(r)>>) = <<>>
                     /\ IdsFor(g, "reply", <<Reply(r)>>) = IF g = r.from THEN <<r.id>> ELSE <<>>
<1>1. Gateways \subseteq Nat
  BY ServiceAssumption
<1>2. r.from \in Gateways /\ r.id \in Nat
  BY DEF Requests
<1>3. PICK m : m = Reply(r)
  OBVIOUS
<1>4. m \in Messages /\ m.to = r.from /\ m.kind = "reply" /\ m.id = r.id
  BY <1>1, <1>2, <1>3 DEF Reply, Messages
<1>5. \A g : IdOf(g, "push", m) = <<>> /\ IdOf(g, "reply", m) = IF g = r.from THEN <<r.id>> ELSE <<>>
  BY <1>4 DEF IdOf
<1>6. <<m>> \in Seq(Messages) /\ Len(<<m>>) = 1
  BY <1>4
<1>7. \A g : IdsFor(g, "push", <<m>>) = IdOf(g, "push", m) /\ IdsFor(g, "reply", <<m>>) = IdOf(g, "reply", m)
  BY <1>4, IdsForOne
<1> QED
  BY <1>2, <1>3, <1>4, <1>5, <1>6, <1>7

\* Messages for gateways, and more of them behind.
LEMMA AddressedCat ==
    ASSUME NEW q \in Seq(Messages), \A i \in 1..Len(q) : q[i].to \in Gateways,
           NEW b \in Seq(Messages), \A i \in 1..Len(b) : b[i].to \in Gateways
    PROVE  /\ Cat(q, b) \in Seq(Messages) /\ Len(Cat(q, b)) = Len(q) + Len(b)
           /\ \A i \in 1..Len(Cat(q, b)) : Cat(q, b)[i].to \in Gateways
<1>1. PICK m, n \in Nat : Len(q) = m /\ Len(b) = n
  OBVIOUS
<1>2. PICK c : c = Cat(q, b)
  OBVIOUS
<1>3. /\ c \in Seq(Messages) /\ Len(c) = m + n
      /\ \A i \in 1..(m + n) : c[i] = IF i <= m THEN q[i] ELSE b[i - m]
  BY <1>1, <1>2, ConcatProperties DEF Cat
<1>4. ASSUME NEW i \in 1..(m + n) PROVE c[i].to \in Gateways
  <2>1. CASE i <= m
    <3>1. i \in 1..Len(q) /\ c[i] = q[i]
      BY <1>1, <1>3, <2>1
    <3> QED
      BY <3>1
  <2>2. CASE ~ (i <= m)
    <3>1. i - m \in 1..Len(b) /\ c[i] = b[i - m]
      BY <1>1, <1>3, <2>2
    <3> QED
      BY <3>1
  <2> QED
    BY <2>1, <2>2
<1> QED
  BY <1>1, <1>2, <1>3, <1>4

\* A batch goes into the queue in full, or not at all.
LEMMA BatchPut ==
    ASSUME NEW q \in Seq(Messages), \A i \in 1..Len(q) : q[i].to \in Gateways,
           NEW b \in Seq(Messages), \A i \in 1..Len(b) : b[i].to \in Gateways, Len(b) # 0
    PROVE  /\ Fits(q, b) => PutBatch(q, b) = Cat(q, b) /\ PutBatch(q, b) # q
           /\ ~Fits(q, b) => PutBatch(q, b) = q
           /\ PutBatch(q, b) \in Seq(Messages)
           /\ \A i \in 1..Len(PutBatch(q, b)) : PutBatch(q, b)[i].to \in Gateways
<1>1. PICK c : c = Cat(q, b)
  OBVIOUS
<1>2. c \in Seq(Messages) /\ Len(c) = Len(q) + Len(b) /\ \A i \in 1..Len(c) : c[i].to \in Gateways
  BY <1>1, AddressedCat
<1>3. Len(q) \in Nat /\ Len(b) \in Nat
  OBVIOUS
<1>4. c # q
  BY <1>2, <1>3
<1>5. Fits(q, b) => PutBatch(q, b) = c
  BY <1>1 DEF PutBatch, Cat
<1>6. ~Fits(q, b) => PutBatch(q, b) = q
  BY DEF PutBatch
<1> QED
  BY <1>1, <1>2, <1>4, <1>5, <1>6

\* The answer and the pushes together.
LEMMA BatchIds ==
    ASSUME NEW r \in Requests, NEW b, b = <<Reply(r)>> \o Pushes(r)
    PROVE  /\ b \in Seq(Messages) /\ Len(b) # 0 /\ \A i \in 1..Len(b) : b[i].to \in Gateways
           /\ \A g \in Gateways : /\ IdsFor(g, "push", b) = <<r.id>>
                                  /\ IdsFor(g, "reply", b) = IF g = r.from THEN <<r.id>> ELSE <<>>
<1>1. PICK a, p : a = <<Reply(r)>> /\ p = Pushes(r)
  OBVIOUS
<1>2. /\ a \in Seq(Messages) /\ Len(a) = 1 /\ \A i \in 1..Len(a) : a[i].to \in Gateways
      /\ \A g \in Gateways : /\ IdsFor(g, "push", a) = <<>>
                             /\ IdsFor(g, "reply", a) = IF g = r.from THEN <<r.id>> ELSE <<>>
  <2>1. \A i \in 1..Len(a) : a[i] = Reply(r)
    BY <1>1
  <2> QED
    BY <1>1, <2>1, ReplyIds
<1>3. /\ p \in Seq(Messages) /\ \A i \in 1..Len(p) : p[i].to \in Gateways
      /\ \A g \in Gateways : IdsFor(g, "push", p) = <<r.id>> /\ IdsFor(g, "reply", p) = <<>>
  BY <1>1, PushesIds
<1>4. b = Cat(a, p)
  BY <1>1 DEF Cat
<1>5. Len(p) \in Nat
  BY <1>3
<1>6. /\ Cat(a, p) \in Seq(Messages) /\ Len(Cat(a, p)) = Len(a) + Len(p)
      /\ \A i \in 1..Len(Cat(a, p)) : Cat(a, p)[i].to \in Gateways
  BY <1>2, <1>3, AddressedCat
<1>7. b \in Seq(Messages) /\ Len(b) # 0 /\ \A i \in 1..Len(b) : b[i].to \in Gateways
  <2>1. Len(b) = 1 + Len(p)
    BY <1>2, <1>4, <1>6
  <2>2. Len(b) # 0
    BY <1>5, <2>1
  <2> QED
    BY <1>4, <1>6, <2>2
<1>8. \A g, k : IdsFor(g, k, b) = Cat(IdsFor(g, k, a), IdsFor(g, k, p))
  BY <1>2, <1>3, <1>4, IdsForCat
<1>9. r.id \in Nat /\ <<r.id>> \in Seq(Nat) /\ <<>> \in Seq(Nat)
  BY DEF Requests
<1>10. /\ Cat(<<>>, <<r.id>>) = <<r.id>> /\ Cat(<<r.id>>, <<>>) = <<r.id>> /\ Cat(<<>>, <<>>) = <<>>
  BY <1>9, CatFacts
<1>11. ASSUME NEW g \in Gateways
       PROVE  /\ IdsFor(g, "push", b) = <<r.id>>
              /\ IdsFor(g, "reply", b) = IF g = r.from THEN <<r.id>> ELSE <<>>
  BY <1>2, <1>3, <1>8, <1>10
<1> QED
  BY <1>7, <1>11

\* A message for the logic thread is queued in full or refused.
LEMMA CatOne == ASSUME NEW q \in Seq(Nat), NEW x \in Nat PROVE Cat(q, <<x>>) = Append(q, x) /\ Cat(q, <<>>) = q
<1>1. Cat(q, Append(<<>>, x)) = Append(q, x)
  BY CatAppend
<1>2. Append(<<>>, x) = <<x>>
  OBVIOUS
<1> QED
  BY <1>1, <1>2, CatFacts

\* The batch of a chat message.
LEMMA BatchStep == ServiceInv /\ QueueBatch => ServiceInv'
<1> SUFFICES ASSUME ServiceInv, QueueBatch PROVE ServiceInv'
  OBVIOUS
<1>1. PICK b : b = <<Reply(msg)>> \o Pushes(msg)
  OBVIOUS
<1>2. /\ logic = "batch" /\ toNet' = PutBatch(toNet, b)
      /\ accepted' = IF toNet' = toNet THEN accepted ELSE Append(accepted, msg.id)
      /\ logic' = IF Fits(toNet, b) THEN "get" ELSE "reply"
      /\ msg' = IF Fits(toNet, b) THEN NoMsg ELSE msg
      /\ UNCHANGED <<toLogic, ok, poller, output, wire, requested, outbox>>
  BY <1>1 DEF QueueBatch, LogicUnchanged
<1>3. msg \in Requests /\ msg.id \in Nat
  BY <1>2 DEF ServiceInv, ServiceTypes, Requests
<1>4. toNet \in Seq(Messages) /\ \A i \in 1..Len(toNet) : toNet[i].to \in Gateways
  BY DEF ServiceInv, ServiceTypes
<1>5. /\ b \in Seq(Messages) /\ Len(b) # 0 /\ \A i \in 1..Len(b) : b[i].to \in Gateways
      /\ \A g \in Gateways : /\ IdsFor(g, "push", b) = <<msg.id>>
                             /\ IdsFor(g, "reply", b) = IF g = msg.from THEN <<msg.id>> ELSE <<>>
  BY <1>1, <1>3, BatchIds
<1>6. /\ Fits(toNet, b) => toNet' = Cat(toNet, b) /\ toNet' # toNet
      /\ ~Fits(toNet, b) => toNet' = toNet
      /\ toNet' \in Seq(Messages) /\ \A i \in 1..Len(toNet') : toNet'[i].to \in Gateways
  BY <1>2, <1>4, <1>5, BatchPut
<1>7. poller # "connect"
  BY <1>2 DEF ServiceInv, NotConnected
<1>8. NotConnected'
  BY <1>2, <1>7 DEF NotConnected
<1>9. CASE ~Fits(toNet, b)
  <2>1. logic' = "reply" /\ msg' = msg /\ toNet' = toNet /\ accepted' = accepted
    BY <1>2, <1>6, <1>9
  <2>2. ServiceTypes'
    BY <1>2, <1>3, <2>1 DEF ServiceInv, ServiceTypes
  <2>3. \A g \in Gateways : Pushed(g)' = Pushed(g) /\ Replied(g)' = Replied(g)
    BY <1>2, <2>1 DEF Pushed, Replied, Sent
  <2>4. HeldIds' = HeldIds /\ Waiting' = Waiting
    BY <1>2, <2>1 DEF HeldIds, Waiting
  <2>5. Unanswered => Unanswered'
    BY <1>2, <2>3, <2>4 DEF Unanswered
  <2> QED
    BY <1>2, <1>8, <2>1, <2>2, <2>3, <2>5 DEF ServiceInv
<1>10. CASE Fits(toNet, b)
  <2>1. logic' = "get" /\ toNet' = Cat(toNet, b) /\ accepted' = Append(accepted, msg.id)
    BY <1>2, <1>6, <1>10
  <2>2. accepted \in Seq(Nat) /\ accepted' \in Seq(Nat) /\ ServiceTypes
    BY <1>3, <2>1 DEF ServiceInv, ServiceTypes
  <2>3. ServiceTypes'
    BY <1>2, <1>6, <2>1, <2>2 DEF ServiceTypes
  <2>4. ASSUME NEW g \in Gateways
        PROVE  /\ Pushed(g)' = Append(Pushed(g), msg.id) /\ Replied(g) \in Seq(Nat)
               /\ Replied(g)' = IF g = msg.from THEN Append(Replied(g), msg.id) ELSE Replied(g)
    <3>1. \A kind : IdsFor(g, kind, Sent(g)') = Cat(IdsFor(g, kind, Sent(g)), IdsFor(g, kind, b))
      BY <1>2, <1>5, <2>1, <2>2, <2>3, GivenMore
    <3>2. Pushed(g) \in Seq(Nat) /\ Replied(g) \in Seq(Nat)
      BY <2>2, SentParts DEF Pushed, Replied
    <3>3. Pushed(g)' = Cat(Pushed(g), <<msg.id>>)
      BY <1>5, <3>1 DEF Pushed
    <3>4. Replied(g)' = Cat(Replied(g), IF g = msg.from THEN <<msg.id>> ELSE <<>>)
      BY <1>5, <3>1 DEF Replied
    <3> QED
      BY <1>3, <3>2, <3>3, <3>4, CatOne
  <2>5. Unanswered => Unanswered'
    <3>1. requested \in Nat
      BY <2>2 DEF ServiceTypes
    <3> QED
      BY <1>2, <1>3, <2>1, <2>4, <3>1, HeldAnswered
  <2>6. ok' => \A g \in Gateways : Pushed(g)' = accepted'
    BY <1>2, <2>1, <2>4 DEF ServiceInv
  <2> QED
    BY <1>2, <1>8, <2>3, <2>5, <2>6 DEF ServiceInv
<1> QED
  BY <1>9, <1>10

\* The answer to any other message, or to a chat message that was refused.
LEMMA ReplyStep == ServiceInv /\ QueueReply => ServiceInv'
<1> SUFFICES ASSUME ServiceInv, QueueReply PROVE ServiceInv'
  OBVIOUS
<1>1. PICK b : b = <<Reply(msg)>>
  OBVIOUS
<1>2. /\ logic = "reply" /\ toNet' = PutBatch(toNet, b) /\ logic' = "get"
      /\ UNCHANGED <<toLogic, accepted, ok, poller, output, wire, requested, outbox>>
  BY <1>1 DEF QueueReply, LogicUnchanged
<1>3. msg \in Requests /\ msg.id \in Nat
  BY <1>2 DEF ServiceInv, ServiceTypes, Requests
<1>4. toNet \in Seq(Messages) /\ \A i \in 1..Len(toNet) : toNet[i].to \in Gateways
  BY DEF ServiceInv, ServiceTypes
<1>5. /\ b \in Seq(Messages) /\ Len(b) # 0 /\ \A i \in 1..Len(b) : b[i].to \in Gateways
      /\ \A g \in Gateways : /\ IdsFor(g, "push", b) = <<>>
                             /\ IdsFor(g, "reply", b) = IF g = msg.from THEN <<msg.id>> ELSE <<>>
  <2>1. \A i \in 1..Len(b) : b[i] = Reply(msg)
    BY <1>1
  <2> QED
    BY <1>1, <1>3, <2>1, ReplyIds
<1>6. /\ Fits(toNet, b) => toNet' = Cat(toNet, b)
      /\ ~Fits(toNet, b) => toNet' = toNet
      /\ toNet' \in Seq(Messages) /\ \A i \in 1..Len(toNet') : toNet'[i].to \in Gateways
  BY <1>2, <1>4, <1>5, BatchPut
<1>7. NotConnected'
  BY <1>2 DEF ServiceInv, NotConnected
<1>8. ServiceTypes /\ ServiceTypes'
  BY <1>2, <1>6 DEF ServiceInv, ServiceTypes
<1>9. CASE ~Fits(toNet, b)
  <2>1. \A g \in Gateways : Pushed(g)' = Pushed(g) /\ Replied(g)' = Replied(g)
    BY <1>2, <1>6, <1>9 DEF Pushed, Replied, Sent
  <2>2. HeldIds' = {} /\ Waiting' \subseteq Waiting
    BY <1>2 DEF HeldIds, Waiting
  <2>3. Unanswered => Unanswered'
    BY <1>2, <2>1, <2>2 DEF Unanswered
  <2> QED
    BY <1>2, <1>7, <1>8, <2>1, <2>3 DEF ServiceInv
<1>10. CASE Fits(toNet, b)
  <2>1. ASSUME NEW g \in Gateways
        PROVE  /\ Pushed(g)' = Pushed(g) /\ Replied(g) \in Seq(Nat)
               /\ Replied(g)' = IF g = msg.from THEN Append(Replied(g), msg.id) ELSE Replied(g)
    <3>1. \A kind : IdsFor(g, kind, Sent(g)') = Cat(IdsFor(g, kind, Sent(g)), IdsFor(g, kind, b))
      BY <1>2, <1>5, <1>6, <1>8, <1>10, GivenMore
    <3>2. Pushed(g) \in Seq(Nat) /\ Replied(g) \in Seq(Nat)
      BY <1>8, SentParts DEF Pushed, Replied
    <3>3. Pushed(g)' = Cat(Pushed(g), <<>>)
      BY <1>5, <3>1 DEF Pushed
    <3>4. Replied(g)' = Cat(Replied(g), IF g = msg.from THEN <<msg.id>> ELSE <<>>)
      BY <1>5, <3>1 DEF Replied
    <3> QED
      BY <1>3, <3>2, <3>3, <3>4, CatOne
  <2>2. Unanswered => Unanswered'
    <3>1. requested \in Nat
      BY <1>8 DEF ServiceTypes
    <3> QED
      BY <1>2, <1>3, <2>1, <3>1, HeldAnswered
  <2> QED
    BY <1>2, <1>7, <1>8, <2>1, <2>2 DEF ServiceInv
<1> QED
  BY <1>9, <1>10

\* A step that leaves accepted messages, requests and what every link was
\* given as they are.
LEMMA ServiceKept ==
    ASSUME ServiceInv, ServiceTypes', NotConnected', ok' => ok,
           UNCHANGED <<toLogic, wire, accepted, requested, logic, msg>>,
           \A g \in Gateways : Pushed(g)' = Pushed(g) /\ Replied(g)' = Replied(g)
    PROVE  ServiceInv'
<1>1. HeldIds' = HeldIds /\ Waiting' = Waiting
  BY DEF HeldIds, Waiting
<1>2. Unanswered => Unanswered'
  BY <1>1 DEF Unanswered
<1> QED
  BY <1>2 DEF ServiceInv

\* A link is connected and is given its handshake, or the program ends.
LEMMA ConnectStep == ServiceInv /\ Connect => ServiceInv'
<1> SUFFICES ASSUME ServiceInv, Connect PROVE ServiceInv'
  OBVIOUS
<1>1. /\ poller = "connect" /\ poller' \in {"drain", "connect", "ended"}
      /\ output' = [output EXCEPT ![visiting] = <<Handshake>>] \/ output' = output
      /\ UNCHANGED <<ok, toLogic, toNet, wire, outbox, logic, msg, requested, accepted>>
  BY DEF Connect, NetUnchanged
<1>2. /\ toNet = <<>> /\ accepted = <<>> /\ logic = "get"
      /\ \A g \in Gateways : /\ outbox[g] = <<>> /\ IdsFor(g, "push", output[g]) = <<>>
                             /\ IdsFor(g, "reply", output[g]) = <<>>
  BY <1>1 DEF ServiceInv, NotConnected
<1>3. PICK h : h = Handshake
  OBVIOUS
<1>4. h \in Messages /\ h.kind = "handshake" /\ <<h>> \in Seq(Messages)
  BY <1>3 DEF Handshake, Messages
<1>5. \A g : IdOf(g, "push", h) = <<>> /\ IdOf(g, "reply", h) = <<>>
  BY <1>4 DEF IdOf
<1>6. \A g : IdsFor(g, "push", <<h>>) = <<>> /\ IdsFor(g, "reply", <<h>>) = <<>>
  BY <1>4, <1>5, IdsForOne
<1>7. output \in [Gateways -> Seq(Messages)]
  BY DEF ServiceInv, ServiceTypes
<1>8. /\ output' \in [Gateways -> Seq(Messages)]
      /\ \A g \in Gateways : output'[g] = output[g] \/ output'[g] = <<h>>
  BY <1>1, <1>3, <1>4, <1>7
<1>9. ServiceTypes /\ ServiceTypes'
  BY <1>1, <1>8 DEF ServiceInv, ServiceTypes
<1>10. \A g \in Gateways : IdsFor(g, "push", output'[g]) = <<>> /\ IdsFor(g, "reply", output'[g]) = <<>>
  BY <1>2, <1>6, <1>8
<1>11. NotConnected'
  BY <1>1, <1>2, <1>10 DEF NotConnected
<1>12. Cat(Cat(<<>>, <<>>), <<>>) = <<>>
  BY CatFacts
<1>13. \A g \in Gateways : Pushed(g)' = <<>> /\ Replied(g)' = <<>>
  <2> SUFFICES ASSUME NEW g \in Gateways PROVE Pushed(g)' = <<>> /\ Replied(g)' = <<>>
    OBVIOUS
  <2>1. outbox'[g] = <<>> /\ toNet' = <<>>
    BY <1>1, <1>2
  <2>2. \A kind : IdsFor(g, kind, Sent(g)') = Cat(Cat(IdsFor(g, kind, outbox'[g]), IdsFor(g, kind, output'[g])),
                                                 IdsFor(g, kind, toNet'))
    BY <1>9, SentPartsNext
  <2>3. \A kind : IdsFor(g, kind, <<>>) = <<>>
    BY IdsForEmpty
  <2>4. IdsFor(g, "push", Sent(g)') = <<>> /\ IdsFor(g, "reply", Sent(g)') = <<>>
    BY <1>10, <1>12, <2>1, <2>2, <2>3
  <2> QED
    BY <2>4 DEF Pushed, Replied
<1>14. \A g \in Gateways : Pushed(g) = <<>> /\ Replied(g) = <<>>
  BY <1>2, <1>9, <1>12, IdsForEmpty, SentParts DEF Pushed, Replied
<1> QED
  BY <1>1, <1>9, <1>11, <1>13, <1>14, ServiceKept

\* The first message of the queue, and the rest.
LEMMA FirstIds ==
    ASSUME NEW s \in Seq(Messages), s # <<>>, \A i \in 1..Len(s) : s[i].to \in Gateways
    PROVE  /\ Head(s) \in Messages /\ Head(s).to \in Gateways
           /\ Tail(s) \in Seq(Messages) /\ \A i \in 1..Len(Tail(s)) : Tail(s)[i].to \in Gateways
           /\ \A g, kind : IdsFor(g, kind, s) = Cat(IdOf(g, kind, Head(s)), IdsFor(g, kind, Tail(s)))
<1>1. PICK n \in Nat : Len(s) = n
  OBVIOUS
<1>2. PICK t, m, l : t = Tail(s) /\ m = Head(s) /\ l = <<m>>
  OBVIOUS
<1>3. /\ n # 0 /\ m = s[1] /\ m \in Messages /\ t \in Seq(Messages) /\ Len(t) = n - 1
      /\ \A i \in 1..(n - 1) : t[i] = s[i + 1]
  BY <1>1, <1>2
<1>4. l \in Seq(Messages) /\ Len(l) = 1 /\ l[1] = m
  BY <1>2, <1>3
<1>5. PICK c : c = Cat(l, t)
  OBVIOUS
<1>6. /\ c \in Seq(Messages) /\ Len(c) = Len(l) + Len(t)
      /\ \A i \in 1..(Len(l) + Len(t)) : c[i] = IF i <= Len(l) THEN l[i] ELSE t[i - Len(l)]
  <2>1. l \in Seq(Messages) /\ t \in Seq(Messages)
    BY <1>3, <1>4
  <2> QED
    BY <1>5, <2>1, ConcatProperties DEF Cat
<1>7. Len(c) = n /\ \A i \in 1..n : c[i] = IF i <= 1 THEN l[i] ELSE t[i - 1]
  BY <1>1, <1>3, <1>4, <1>6
<1>8. ASSUME NEW i \in 1..n PROVE c[i] = s[i]
  <2>1. CASE i = 1
    <3>1. i <= 1 /\ l[i] = s[i]
      BY <1>3, <1>4, <2>1
    <3> QED
      BY <1>7, <3>1
  <2>2. CASE i # 1
    <3>1. i - 1 \in 1..(n - 1) /\ (i - 1) + 1 = i /\ ~ (i <= 1)
      BY <1>1, <2>2
    <3> QED
      BY <1>3, <1>7, <3>1
  <2> QED
    BY <2>1, <2>2
<1>9. c = s
  BY <1>1, <1>6, <1>7, <1>8, SeqEqual
<1>10. m.to \in Gateways /\ \A i \in 1..Len(t) : t[i].to \in Gateways
  <2>1. 1 \in 1..n /\ \A i \in 1..(n - 1) : i + 1 \in 1..n
    BY <1>1, <1>3
  <2> QED
    BY <1>1, <1>3, <2>1
<1>11. \A g, kind : IdsFor(g, kind, s) = Cat(IdsFor(g, kind, l), IdsFor(g, kind, t))
  <2>1. l \in Seq(Messages) /\ t \in Seq(Messages)
    BY <1>3, <1>4
  <2>2. \A g, kind : IdsFor(g, kind, Cat(l, t)) = Cat(IdsFor(g, kind, l), IdsFor(g, kind, t))
    BY <2>1, IdsForCat
  <2> QED
    BY <1>5, <1>9, <2>2
<1>12. \A g, kind : IdsFor(g, kind, l) = IdOf(g, kind, m)
  BY <1>2, <1>3, IdsForOne
<1> QED
  BY <1>2, <1>3, <1>10, <1>11, <1>12

LEMMA FourParts ==
    ASSUME NEW x \in Seq(Nat), NEW y \in Seq(Nat), NEW z \in Seq(Nat), NEW n \in Seq(Nat)
    PROVE  Cat(Cat(x, Cat(y, z)), n) = Cat(Cat(x, y), Cat(z, n))
<1>1. Cat(x, y) \in Seq(Nat) /\ Cat(x, Cat(y, z)) = Cat(Cat(x, y), z)
  BY CatFacts
<1> QED
  BY <1>1, CatFacts

\* A message goes from the queue to the output of its link, or there is no
\* room and the service ends.
LEMMA DrainStep == ServiceInv /\ Drain => ServiceInv'
<1> SUFFICES ASSUME ServiceInv, Drain PROVE ServiceInv'
  OBVIOUS
<1>1. PICK m : m = Head(toNet)
  OBVIOUS
<1>2. /\ poller = "drain" /\ poller' # "connect" /\ toNet # <<>> /\ toNet' = Tail(toNet)
      /\ UNCHANGED <<toLogic, wire, outbox, logic, msg, requested, accepted>>
      /\ \/ ok' = FALSE /\ output' = output
         \/ ok' = ok /\ output' = [output EXCEPT ![m.to] = Append(@, m)]
  BY <1>1 DEF Drain, Leave, NetUnchanged
<1>3. toNet \in Seq(Messages) /\ \A i \in 1..Len(toNet) : toNet[i].to \in Gateways
  BY DEF ServiceInv, ServiceTypes
<1>4. /\ m \in Messages /\ m.to \in Gateways
      /\ toNet' \in Seq(Messages) /\ \A i \in 1..Len(toNet') : toNet'[i].to \in Gateways
      /\ \A g, kind : IdsFor(g, kind, toNet) = Cat(IdOf(g, kind, m), IdsFor(g, kind, toNet'))
  BY <1>1, <1>2, <1>3, FirstIds
<1>5. output \in [Gateways -> Seq(Messages)]
  BY DEF ServiceInv, ServiceTypes
<1>6. output' \in [Gateways -> Seq(Messages)]
  <2>1. Append(output[m.to], m) \in Seq(Messages)
    BY <1>4, <1>5
  <2> QED
    BY <1>2, <1>5, <2>1
<1>7. ServiceTypes /\ ServiceTypes'
  BY <1>2, <1>4, <1>6 DEF ServiceInv, ServiceTypes
<1>8. NotConnected'
  BY <1>2 DEF NotConnected
<1>9. CASE ok' = FALSE
  BY <1>7, <1>8, <1>9 DEF ServiceInv
<1>10. CASE ok' = ok /\ output' = [output EXCEPT ![m.to] = Append(@, m)]
  <2>1. ASSUME NEW g \in Gateways, NEW kind PROVE IdsFor(g, kind, Sent(g)') = IdsFor(g, kind, Sent(g))
    <3>1. PICK x, y, n, z : /\ x = IdsFor(g, kind, outbox[g]) /\ y = IdsFor(g, kind, output[g])
                            /\ n = IdsFor(g, kind, toNet') /\ z = IdOf(g, kind, m)
      OBVIOUS
    <3>2. IdsFor(g, kind, Sent(g)) = Cat(Cat(x, y), Cat(z, n)) /\ x \in Seq(Nat) /\ y \in Seq(Nat)
      BY <1>4, <1>7, <3>1, SentParts
    <3>3. IdsFor(g, kind, Sent(g)') = Cat(Cat(x, IdsFor(g, kind, output'[g])), n) /\ n \in Seq(Nat)
      BY <1>2, <1>7, <3>1, SentPartsNext
    <3>4. z \in Seq(Nat)
      BY <1>4, <3>1, IdsEachType, <1>3
    <3>5. IdsFor(g, kind, output'[g]) = Cat(y, z)
      <4>1. CASE g = m.to
        <5>1. Extended(output[g], m, output'[g]) /\ output[g] \in Seq(Messages)
          BY <1>5, <1>10, <4>1 DEF Extended
        <5> QED
          BY <1>4, <3>1, <5>1, IdsForAppend
      <4>2. CASE g # m.to
        <5>1. output'[g] = output[g] /\ z = <<>>
          BY <1>5, <1>10, <3>1, <4>2 DEF IdOf
        <5> QED
          BY <3>1, <3>2, <5>1, CatFacts
      <4> QED
        BY <4>1, <4>2
    <3>6. Cat(Cat(x, Cat(y, z)), n) = Cat(Cat(x, y), Cat(z, n))
      BY <3>2, <3>3, <3>4, FourParts
    <3> QED
      BY <3>2, <3>3, <3>5, <3>6
  <2>2. \A g \in Gateways : Pushed(g)' = Pushed(g) /\ Replied(g)' = Replied(g)
    BY <2>1 DEF Pushed, Replied
  <2> QED
    BY <1>2, <1>7, <1>8, <1>10, <2>2, ServiceKept
<1> QED
  BY <1>2, <1>9, <1>10

\* The place of the network thread in the loop over the links.
LoopPlace == visiting \in Nat \ {0}

LEMMA LoopStarts == ServiceInit => LoopPlace
  BY DEF ServiceInit, LoopPlace

LEMMA LoopStep == LoopPlace /\ [ServiceNext]_serviceVars => LoopPlace'
<1> SUFFICES ASSUME LoopPlace, [ServiceNext]_serviceVars PROVE LoopPlace'
  OBVIOUS
<1> USE DEF LoopPlace
<1>1. CASE InLogic
  BY <1>1 DEF InLogic, Get, QueueBatch, QueueReply, LogicUnchanged
<1>2. CASE Connect \/ Visit
  <2>1. visiting' = visiting \/ visiting' = visiting + 1
    BY <1>2 DEF Connect, Visit
  <2> QED
    BY <2>1
<1>3. CASE Drain \/ Poll \/ Again \/ Join
  BY <1>3 DEF Drain, Poll, Again, Join
<1>4. CASE Ask \/ Signal \/ UNCHANGED serviceVars
  BY <1>4 DEF Ask, Signal, serviceVars
<1> QED
  BY <1>1, <1>2, <1>3, <1>4 DEF ServiceNext, InNet

\* A request comes from the wire of link g to the end of the queue, where
\* nothing else about it is.
LEMMA RequestMoved ==
    ASSUME Unanswered, NEW g \in Gateways, NEW x, Extended(toLogic, x, toLogic'),
           toLogic \in Seq(Requests), x \in Requests, wire[g] \in Seq(Requests), wire[g] # <<>>,
           x = Head(wire[g]), wire'[g] = Tail(wire[g]), \A h \in Gateways : h # g => wire'[h] = wire[h],
           UNCHANGED <<logic, msg, requested>>,
           \A h \in Gateways : Replied(h)' = Replied(h)
    PROVE  Unanswered'
<1>1. /\ RequestIds(wire[g]) = RequestIds(wire'[g]) \cup {x.id}
      /\ Once(wire'[g]) /\ x.id \notin RequestIds(wire'[g])
  BY FirstTaken DEF Unanswered
<1>2. x.id \in RequestIds(wire[g])
  BY <1>1
<1>3. x.id \notin Waiting
  BY <1>2 DEF Unanswered
<1>4. RequestIds(toLogic') = RequestIds(toLogic) \cup {x.id} /\ Once(toLogic')
  BY <1>3, LastAdded DEF Unanswered, Waiting
<1>5. HeldIds' = HeldIds /\ Waiting' = Waiting \cup {x.id}
  BY <1>4 DEF HeldIds, Waiting, RequestIds
<1>6. HeldIds' \cap RequestIds(toLogic') = {}
  BY <1>3, <1>4, <1>5 DEF Unanswered, Waiting
<1>7. ASSUME NEW h \in Gateways
      PROVE  /\ RequestIds(wire'[h]) \subseteq RequestIds(wire[h])
             /\ Once(wire'[h]) /\ x.id \notin RequestIds(wire'[h])
  <2>1. CASE h = g
    BY <1>1, <2>1
  <2>2. CASE h # g
    BY <1>2, <2>2 DEF Unanswered
  <2> QED
    BY <2>1, <2>2
<1>8. \A h \in Gateways : RequestIds(wire'[h]) \cap Waiting' = {}
  BY <1>5, <1>7 DEF Unanswered
<1>9. \A h, k \in Gateways : h # k => RequestIds(wire'[h]) \cap RequestIds(wire'[k]) = {}
  BY <1>7 DEF Unanswered
<1>10. \A h \in Gateways : IdRange(Replied(h)) \cap Waiting' = {}
  BY <1>2, <1>5 DEF Unanswered
<1>11. \A h, k \in Gateways : IdRange(Replied(h)) \cap RequestIds(wire'[k]) = {}
  BY <1>7 DEF Unanswered
<1>12. Waiting' \subseteq 1..requested
  BY <1>2, <1>5 DEF Unanswered
<1>13. \A h \in Gateways : RequestIds(wire'[h]) \cup IdRange(Replied(h)) \subseteq 1..requested
  BY <1>7 DEF Unanswered
<1>14. \A h \in Gateways : IsInjective(Replied(h))
  BY DEF Unanswered
<1>15. \A h \in Gateways : Once(wire'[h]) /\ RequestIds(wire'[h]) \cap Waiting' = {}
  BY <1>7, <1>8
<1> QED
  BY <1>4, <1>6, <1>9, <1>10, <1>11, <1>12, <1>13, <1>14, <1>15 DEF Unanswered

\* What is written comes from the front of the output.
LEMMA WrittenSame ==
    ASSUME NEW a \in Seq(Messages), NEW s \in Seq(Messages), NEW c \in Seq(Messages), NEW n \in 0..Len(s)
    PROVE  /\ (a \o SubSeq(s, 1, n)) \o SubSeq(s, n + 1, Len(s)) \o c = a \o s \o c
           /\ a \o SubSeq(s, 1, n) \in Seq(Messages) /\ SubSeq(s, n + 1, Len(s)) \in Seq(Messages)
<1>1. PICK x, y : x = SubSeq(s, 1, n) /\ y = SubSeq(s, n + 1, Len(s))
  OBVIOUS
<1>2. n \in Nat /\ n <= Len(s)
  OBVIOUS
<1>3. x \in Seq(Messages) /\ y \in Seq(Messages) /\ Cat(x, y) = s
  BY <1>1, <1>2, Halves
<1>4. Cat(a, x) \in Seq(Messages) /\ Cat(Cat(a, x), y) = Cat(a, s)
  BY <1>3, CatFacts
<1>5. Cat(Cat(Cat(a, x), y), c) = Cat(Cat(a, s), c)
  BY <1>4
<1> QED
  BY <1>1, <1>3, <1>4, <1>5 DEF Cat

\* A visit to a link: what is written moves within what the link was given,
\* and a request goes from its wire to the queue.
LEMMA VisitStep == ServiceInv /\ LoopPlace /\ Visit => ServiceInv'
<1> SUFFICES ASSUME ServiceInv, LoopPlace, Visit PROVE ServiceInv'
  OBVIOUS
<1>1. PICK g : g = visiting
  OBVIOUS
<1>2. /\ poller = "visit" /\ ok /\ g <= Len(output)
      /\ UNCHANGED <<serving, poller, toNet, logic, msg, requested, accepted>>
      /\ \/ \E n \in 0..Len(output[g]), read \in BOOLEAN :
              /\ outbox' = [outbox EXCEPT ![g] = @ \o SubSeq(output[g], 1, n)]
              /\ output' = [output EXCEPT ![g] = SubSeq(@, n + 1, Len(@))]
              /\ IF read /\ wire[g] # <<>>
                 THEN /\ wire' = [wire EXCEPT ![g] = Tail(@)]
                      /\ toLogic' = PutBatch(toLogic, <<Head(wire[g])>>)
                      /\ ok' = (Fits(toLogic, <<Head(wire[g])>>) /\ Head(wire[g]).kind # "bad")
                 ELSE UNCHANGED <<wire, toLogic, ok>>
         \/ ok' = FALSE /\ UNCHANGED <<output, outbox, wire, toLogic>>
  BY <1>1 DEF Visit, NetUnchanged
<1>3. ServiceTypes
  BY DEF ServiceInv
<1>4. g \in Gateways
  <2>1. PICK k \in Nat : Gateways = 1..k
    BY ServiceAssumption
  <2>2. output \in Seq(Seq(Messages)) /\ Len(output) = k
    BY <1>3, <2>1 DEF ServiceTypes
  <2> QED
    BY <1>1, <1>2, <2>1, <2>2 DEF LoopPlace
<1>5. NotConnected'
  BY <1>2 DEF NotConnected
<1>6. CASE ok' = FALSE /\ UNCHANGED <<output, outbox, wire, toLogic>>
  <2>1. ServiceTypes'
    BY <1>2, <1>3, <1>6 DEF ServiceTypes
  <2> QED
    BY <1>5, <1>6, <2>1 DEF ServiceInv
<1>7. ASSUME NEW n \in 0..Len(output[g]), NEW read \in BOOLEAN,
             outbox' = [outbox EXCEPT ![g] = @ \o SubSeq(output[g], 1, n)],
             output' = [output EXCEPT ![g] = SubSeq(@, n + 1, Len(@))],
             IF read /\ wire[g] # <<>>
             THEN /\ wire' = [wire EXCEPT ![g] = Tail(@)]
                  /\ toLogic' = PutBatch(toLogic, <<Head(wire[g])>>)
                  /\ ok' = (Fits(toLogic, <<Head(wire[g])>>) /\ Head(wire[g]).kind # "bad")
             ELSE UNCHANGED <<wire, toLogic, ok>>
      PROVE  ServiceInv'
  <2>1. /\ output \in [Gateways -> Seq(Messages)] /\ outbox \in [Gateways -> Seq(Messages)]
        /\ toNet \in Seq(Messages) /\ wire \in [Gateways -> Seq(Requests)] /\ toLogic \in Seq(Requests)
    BY <1>3 DEF ServiceTypes
  <2>2. PICK a, s : a = outbox[g] /\ s = output[g]
    OBVIOUS
  <2>3. a \in Seq(Messages) /\ s \in Seq(Messages) /\ n \in 0..Len(s)
    BY <1>4, <2>1, <2>2
  <2>4. /\ (a \o SubSeq(s, 1, n)) \o SubSeq(s, n + 1, Len(s)) \o toNet = a \o s \o toNet
        /\ a \o SubSeq(s, 1, n) \in Seq(Messages) /\ SubSeq(s, n + 1, Len(s)) \in Seq(Messages)
    BY <2>1, <2>3, WrittenSame
  <2>5. /\ outbox'[g] = a \o SubSeq(s, 1, n) /\ output'[g] = SubSeq(s, n + 1, Len(s))
        /\ \A h \in Gateways : h # g => outbox'[h] = outbox[h] /\ output'[h] = output[h]
    BY <1>4, <1>7, <2>1, <2>2
  <2>6. output' \in [Gateways -> Seq(Messages)] /\ outbox' \in [Gateways -> Seq(Messages)]
    BY <1>7, <2>1, <2>2, <2>4
  <2>7. ASSUME NEW h \in Gateways PROVE Sent(h)' = Sent(h)
    <3>1. CASE h = g
      BY <1>2, <2>2, <2>4, <2>5, <3>1 DEF Sent
    <3>2. CASE h # g
      BY <1>2, <2>5, <3>2 DEF Sent
    <3> QED
      BY <3>1, <3>2
  <2>8. \A h \in Gateways : Pushed(h)' = Pushed(h) /\ Replied(h)' = Replied(h)
    BY <2>7 DEF Pushed, Replied
  <2>9. CASE ~ (read /\ wire[g] # <<>>)
    <3>1. UNCHANGED <<wire, toLogic, ok>>
      BY <1>7, <2>9
    <3>2. ServiceTypes'
      BY <1>2, <1>3, <2>6, <3>1 DEF ServiceTypes
    <3> QED
      BY <1>2, <1>5, <2>8, <3>1, <3>2, ServiceKept
  <2>10. CASE read /\ wire[g] # <<>>
    <3>1. PICK w, x, l : w = wire[g] /\ x = Head(w) /\ l = toLogic'
      OBVIOUS
    <3>2. /\ wire' = [wire EXCEPT ![g] = Tail(@)] /\ l = PutBatch(toLogic, <<x>>)
          /\ ok' => Fits(toLogic, <<x>>)
      BY <1>7, <2>10, <3>1
    <3>3. w \in Seq(Requests) /\ w # <<>> /\ x \in Requests /\ Tail(w) \in Seq(Requests)
      BY <1>4, <2>1, <2>10, <3>1
    <3>4. wire'[g] = Tail(w) /\ \A h \in Gateways : h # g => wire'[h] = wire[h]
      BY <1>4, <2>1, <3>1, <3>2
    <3>5. wire' \in [Gateways -> Seq(Requests)]
      BY <2>1, <3>1, <3>2, <3>3
    <3>6. toLogic \o <<x>> = Append(toLogic, x) /\ Append(toLogic, x) \in Seq(Requests)
      BY <2>1, <3>3
    <3>7. l = toLogic \/ l = Append(toLogic, x)
      BY <3>2, <3>6 DEF PutBatch
    <3>8. toLogic' \in Seq(Requests)
      BY <2>1, <3>1, <3>6, <3>7
    <3>9. ServiceTypes'
      BY <1>2, <1>3, <2>6, <3>5, <3>8 DEF ServiceTypes
    <3>10. ASSUME ok' PROVE Unanswered'
      <4>1. Extended(toLogic, x, toLogic')
        BY <3>1, <3>2, <3>6, <3>10 DEF Extended, PutBatch
      <4>2. Unanswered
        BY <1>2 DEF ServiceInv
      <4> QED
        BY <1>2, <1>4, <2>1, <2>8, <3>1, <3>3, <3>4, <4>1, <4>2, RequestMoved
    <3> QED
      BY <1>2, <1>5, <2>8, <3>9, <3>10 DEF ServiceInv
  <2> QED
    BY <2>9, <2>10
<1> QED
  BY <1>2, <1>6, <1>7

\* A gateway forwards a request, and numbers it as none before.
LEMMA AskStep == ServiceInv /\ Ask => ServiceInv'
<1> SUFFICES ASSUME ServiceInv, Ask PROVE ServiceInv'
  OBVIOUS
<1>1. PICK g \in Gateways, kind \in {"chat", "plain", "bad"} :
        wire' = [wire EXCEPT ![g] = Append(@, [id |-> requested + 1, from |-> g, kind |-> kind])]
  BY DEF Ask
<1>2. PICK x : x = [id |-> requested + 1, from |-> g, kind |-> kind]
  OBVIOUS
<1>3. /\ requested' = requested + 1
      /\ UNCHANGED <<ok, poller, logic, msg, toLogic, toNet, output, outbox, accepted>>
  BY DEF Ask
<1>4. ServiceTypes /\ requested \in Nat /\ wire \in [Gateways -> Seq(Requests)]
  BY DEF ServiceInv, ServiceTypes
<1>5. x \in Requests /\ x.id = requested + 1
  BY <1>2, <1>4 DEF Requests
<1>6. PICK w, v : w = wire[g] /\ v = wire'[g]
  OBVIOUS
<1>7. /\ w \in Seq(Requests) /\ Extended(w, x, v) /\ \A h \in Gateways : h # g => wire'[h] = wire[h]
  BY <1>1, <1>2, <1>4, <1>6 DEF Extended
<1>8. /\ v \in Seq(Requests) /\ RequestIds(v) = RequestIds(w) \cup {x.id}
      /\ Once(w) /\ x.id \notin RequestIds(w) => Once(v)
  BY <1>5, <1>7, LastAdded
<1>9. wire' \in [Gateways -> Seq(Requests)] /\ requested' \in Nat
  BY <1>1, <1>2, <1>3, <1>4, <1>6, <1>7, <1>8 DEF Extended
<1>10. ServiceTypes'
  BY <1>3, <1>4, <1>9 DEF ServiceTypes
<1>11. NotConnected'
  BY <1>3 DEF ServiceInv, NotConnected
<1>12. \A h \in Gateways : Pushed(h)' = Pushed(h) /\ Replied(h)' = Replied(h)
  BY <1>3 DEF Pushed, Replied, Sent
<1>13. HeldIds' = HeldIds /\ Waiting' = Waiting
  BY <1>3 DEF HeldIds, Waiting
<1>14. ASSUME Unanswered PROVE Unanswered'
  <2>1. x.id \notin 1..requested /\ 1..requested \subseteq 1..requested' /\ x.id \in 1..requested'
    BY <1>3, <1>4, <1>5
  <2>2. x.id \notin Waiting /\ \A h \in Gateways : x.id \notin RequestIds(wire[h]) /\ x.id \notin IdRange(Replied(h))
    BY <1>14, <2>1 DEF Unanswered
  <2>3. ASSUME NEW h \in Gateways
        PROVE  /\ Once(wire'[h]) /\ RequestIds(wire[h]) \subseteq RequestIds(wire'[h])
               /\ RequestIds(wire'[h]) \subseteq RequestIds(wire[h]) \cup {x.id}
               /\ h # g => RequestIds(wire'[h]) = RequestIds(wire[h])
    <3>1. CASE h = g
      BY <1>6, <1>8, <1>14, <2>2, <3>1 DEF Unanswered
    <3>2. CASE h # g
      BY <1>7, <1>14, <3>2 DEF Unanswered
    <3> QED
      BY <3>1, <3>2
  <2>4. \A h \in Gateways : RequestIds(wire'[h]) \cap Waiting = {}
    BY <1>14, <2>2, <2>3 DEF Unanswered
  <2>5. ASSUME NEW h \in Gateways, NEW k \in Gateways, h # k
        PROVE  RequestIds(wire'[h]) \cap RequestIds(wire'[k]) = {}
    <3>1. RequestIds(wire[h]) \cap RequestIds(wire[k]) = {}
      BY <1>14, <2>5 DEF Unanswered
    <3>2. h # g \/ k # g
      BY <2>5
    <3> QED
      BY <2>2, <2>3, <3>1, <3>2
  <2>6. \A h, k \in Gateways : IdRange(Replied(h)) \cap RequestIds(wire'[k]) = {}
    BY <1>14, <2>2, <2>3 DEF Unanswered
  <2>7. \A h \in Gateways : RequestIds(wire'[h]) \cup IdRange(Replied(h)) \subseteq 1..requested'
    BY <1>14, <2>1, <2>3 DEF Unanswered
  <2>8. Waiting \subseteq 1..requested'
    BY <1>14, <2>1 DEF Unanswered
  <2> QED
    BY <1>3, <1>12, <1>13, <1>14, <2>3, <2>4, <2>5, <2>6, <2>7, <2>8 DEF Unanswered
<1> QED
  BY <1>3, <1>10, <1>11, <1>12, <1>14 DEF ServiceInv

LEMMA ServiceStep == ServiceInv /\ LoopPlace /\ [ServiceNext]_serviceVars => ServiceInv'
<1> SUFFICES ASSUME ServiceInv, LoopPlace, [ServiceNext]_serviceVars PROVE ServiceInv'
  OBVIOUS
<1>1. CASE Get
  BY <1>1, GetStep
<1>2. CASE QueueBatch
  BY <1>2, BatchStep
<1>3. CASE QueueReply
  BY <1>3, ReplyStep
<1>4. CASE Connect
  BY <1>4, ConnectStep
<1>5. CASE Drain
  BY <1>5, DrainStep
<1>6. CASE Visit
  BY <1>6, VisitStep
<1>7. CASE Ask
  BY <1>7, AskStep
<1>8. CASE Poll \/ Again \/ Join \/ Signal \/ UNCHANGED serviceVars
  <2>1. /\ UNCHANGED <<toLogic, toNet, output, outbox, wire, accepted, requested, logic, msg>>
        /\ ok' = ok
        /\ poller' = "connect" => poller = "connect"
    BY <1>8 DEF Poll, Again, Leave, Join, Signal, serviceVars, NetUnchanged
  <2> QED
    BY <2>1, ServiceSame
<1> QED
  BY <1>1, <1>2, <1>3, <1>4, <1>5, <1>6, <1>7, <1>8 DEF ServiceNext, InLogic, InNet

\* Every gateway is given the pushes of the accepted chat messages, no other
\* and in the order they were accepted, and no request is answered twice: for
\* any number of gateways, any queue and buffer sizes, whichever batches the
\* queue refused and wherever the two threads of RunService stood.  Only an
\* output buffer without room or a request refused clears ok, and ends it.
THEOREM PushesAreAgreed == ServiceSpec => []PushesAgree
<1>1. ServiceInit => ServiceInv /\ LoopPlace
  BY ServiceStarts, LoopStarts
<1>2. ServiceInv /\ LoopPlace /\ [ServiceNext]_serviceVars => (ServiceInv /\ LoopPlace)'
  BY ServiceStep, LoopStep
<1>3. ServiceInv => PushesAgree
  BY DEF ServiceInv, PushesAgree, Unanswered, Pushed, Replied
<1> QED
  BY <1>1, <1>2, <1>3, PTL DEF ServiceSpec
=============================================================================
