---------------------------- MODULE FilteringProofs ----------------------------
(***************************************************************************)
(* What a loop that keeps some members of a list computes, for every list, *)
(* by induction over the members it has seen.                              *)
(***************************************************************************)
EXTENDS Filtering, SequenceTheorems, WellFoundedInduction, TLAPS

\* Induction over the natural numbers, for a set of them.
LEMMA SetInduction ==
  ASSUME NEW S, 0 \in S, \A n \in Nat : n \in S => n + 1 \in S
  PROVE  Nat \subseteq S
<1> SUFFICES ASSUME NEW B, B = Nat \ S, B # {} PROVE FALSE
  OBVIOUS
<1>1. \E x \in B : \A y \in B : ~(<<y, x>> \in OpToRel(<, Nat))
  BY NatLessThanWellFounded, WFMin
<1>2. PICK x \in B : \A y \in B : ~(<<y, x>> \in OpToRel(<, Nat))
  BY <1>1
<1>3. \A y \in Nat : y < x => y \notin B
  BY <1>2 DEF OpToRel
<1>4. x # 0 /\ x - 1 \in Nat
  OBVIOUS
<1>5. x - 1 \in S
  BY <1>3, <1>4
<1> QED BY <1>4, <1>5

\* The equation of the loop.
KeptUpTo(f, s, T, m) ==
  f = [n \in 0..m |-> IF n = 0 THEN <<>>
                      ELSE IF s[n] \in T THEN Append(f[n - 1], s[n]) ELSE f[n - 1]]

\* A function that satisfies it exists, however long the list.
LEMMA KeptExists ==
  ASSUME NEW s, NEW T, NEW m \in Nat
  PROVE  \E f : KeptUpTo(f, s, T, m)
<1> DEFINE P == {n \in Nat : \E f : KeptUpTo(f, s, T, n)}
<1>1. 0 \in P
  <2> DEFINE f == [n \in 0..0 |-> <<>>]
  <2>1. KeptUpTo(f, s, T, 0)
    BY DEF KeptUpTo
  <2> HIDE DEF f
  <2> QED BY <2>1
<1>2. ASSUME NEW n \in Nat, n \in P PROVE n + 1 \in P
  <2>1. PICK f : KeptUpTo(f, s, T, n)
    BY <1>2
  <2> DEFINE g == [i \in 0..(n + 1) |->
                     IF i <= n THEN f[i]
                     ELSE IF s[n + 1] \in T THEN Append(f[n], s[n + 1]) ELSE f[n]]
  <2>2. \A i \in 0..n : f[i] = IF i = 0 THEN <<>>
                      ELSE IF s[i] \in T THEN Append(f[i - 1], s[i]) ELSE f[i - 1]
    BY <2>1, Zenon DEF KeptUpTo
  <2>4. \A i \in 0..n : g[i] = f[i]
    BY SMT
  <2>5. g[n + 1] = IF s[n + 1] \in T THEN Append(f[n], s[n + 1]) ELSE f[n]
    BY SMT
  <2>6. DOMAIN g = 0..(n+1) /\ g = [i \in 0..(n+1) |-> g[i]]
    OBVIOUS
  <2> HIDE DEF g
  <2>3. ASSUME NEW i \in 0..(n + 1)
        PROVE  g[i] = IF i = 0 THEN <<>>
                      ELSE IF s[i] \in T THEN Append(g[i - 1], s[i]) ELSE g[i - 1]
    <3>1. CASE i = n + 1
      <4>1. g[i - 1] = f[n]
        BY <2>4, <3>1
      <4> QED BY <2>5, <3>1, <4>1
    <3>2. CASE i \in 0..n /\ i # 0
      <4>1. i - 1 \in 0..n
        BY <3>2
      <4> QED BY <2>2, <2>4, <3>2, <4>1
    <3>3. CASE i = 0
      BY <2>2, <2>4, <3>3
    <3> QED BY <3>1, <3>2, <3>3
  <2>7. KeptUpTo(g, s, T, n + 1)
    BY <2>3, <2>6, Zenon DEF KeptUpTo
  <2> QED BY <2>7
<1>3. Nat \subseteq P
  <2> HIDE DEF P
  <2> QED BY <1>1, <1>2, SetInduction
<1> QED BY <1>3

\* Kept satisfies it.
LEMMA KeptEquation ==
  ASSUME NEW s, NEW T, Len(s) \in Nat
  PROVE  /\ Kept(s, T)[0] = <<>>
         /\ \A n \in 1..Len(s) :
              Kept(s, T)[n] = IF s[n] \in T THEN Append(Kept(s, T)[n - 1], s[n])
                              ELSE Kept(s, T)[n - 1]
<1>1. KeptUpTo(Kept(s, T), s, T, Len(s))
  <2>1. PICK f : KeptUpTo(f, s, T, Len(s))
    BY KeptExists
  <2> QED BY <2>1, Zenon DEF KeptUpTo, Kept
<1> DEFINE f == Kept(s, T)
<1> HIDE DEF f
<1>2. f = [n \in 0..Len(s) |-> IF n = 0 THEN <<>>
                      ELSE IF s[n] \in T THEN Append(f[n - 1], s[n]) ELSE f[n - 1]]
  BY <1>1, Zenon DEF KeptUpTo, f
<1>3. \A n \in 0..Len(s) : f[n] = IF n = 0 THEN <<>>
                      ELSE IF s[n] \in T THEN Append(f[n - 1], s[n]) ELSE f[n - 1]
  BY <1>2, Zenon
<1> QED BY <1>3 DEF f

\* What appending does, member by member.
LEMMA Appends ==
  ASSUME NEW S, NEW s \in Seq(S), NEW x \in S
  PROVE  /\ Append(s, x) \in Seq(S) /\ Len(s) \in Nat /\ Len(Append(s, x)) = Len(s) + 1
         /\ Append(s, x)[Len(s) + 1] = x /\ \A i \in 1..Len(s) : Append(s, x)[i] = s[i]
OBVIOUS

\* What is kept are the members that are in the set, and none twice that was not twice there.
LEMMA KeepMembers ==
  ASSUME NEW S, NEW s \in Seq(S), NEW T
  PROVE  /\ Keep(s, T) \in Seq(S) /\ Len(Keep(s, T)) <= Len(s)
         /\ \A i \in 1..Len(Keep(s, T)) :
              Keep(s, T)[i] \in T /\ \E j \in 1..Len(s) : s[j] = Keep(s, T)[i]
         /\ \A j \in 1..Len(s) : s[j] \in T => \E i \in 1..Len(Keep(s, T)) : Keep(s, T)[i] = s[j]
<1> DEFINE k == Kept(s, T)
           Facts(n) == /\ k[n] \in Seq(S) /\ Len(k[n]) <= n
                       /\ \A i \in 1..Len(k[n]) : k[n][i] \in T /\ \E j \in 1..n : s[j] = k[n][i]
                       /\ \A j \in 1..n : s[j] \in T => \E i \in 1..Len(k[n]) : k[n][i] = s[j]
           P == {n \in Nat : n <= Len(s) => Facts(n)}
<1>1. /\ Len(s) \in Nat /\ k[0] = <<>>
      /\ \A n \in 1..Len(s) : k[n] = IF s[n] \in T THEN Append(k[n - 1], s[n]) ELSE k[n - 1]
  BY KeptEquation
<1> HIDE DEF k
<1>2. 0 \in P
  <2>1. k[0] \in Seq(S) /\ Len(k[0]) = 0
    BY <1>1
  <2> QED BY <2>1
<1>3. ASSUME NEW n \in Nat, n \in P PROVE n + 1 \in P
  <2> SUFFICES ASSUME n + 1 <= Len(s) PROVE Facts(n + 1)
    OBVIOUS
  <2>1. n + 1 \in 1..Len(s) /\ n <= Len(s) /\ s[n + 1] \in S /\ (n + 1) - 1 = n
    BY <1>1, <1>3
  <2>4. Facts(n)
    BY <1>3, <2>1
  <2>2. CASE s[n + 1] \notin T
    <3>1. k[n + 1] = k[n]
      BY <1>1, <2>1, <2>2
    <3>2. \A j \in 1..(n + 1) : s[j] \in T => j \in 1..n
      BY <2>2
    <3> QED BY <2>1, <2>4, <3>1, <3>2
  <2>3. CASE s[n + 1] \in T
    <3>1. k[n + 1] = Append(k[n], s[n + 1])
      BY <1>1, <2>1, <2>3
    <3>2. /\ k[n] \in Seq(S) /\ Len(k[n]) \in Nat /\ k[n + 1] \in Seq(S)
          /\ Len(k[n + 1]) = Len(k[n]) + 1 /\ k[n + 1][Len(k[n]) + 1] = s[n + 1]
          /\ \A i \in 1..Len(k[n]) : k[n + 1][i] = k[n][i]
      BY <2>1, <2>4, <3>1, Appends
    <3>3. ASSUME NEW i \in 1..Len(k[n + 1])
          PROVE  k[n + 1][i] \in T /\ \E j \in 1..(n + 1) : s[j] = k[n + 1][i]
      <4>1. CASE i = Len(k[n]) + 1
        BY <2>3, <3>2, <4>1
      <4>2. CASE i # Len(k[n]) + 1
        <5>1. i \in 1..Len(k[n]) /\ k[n + 1][i] = k[n][i]
          BY <3>2, <4>2
        <5>2. k[n][i] \in T /\ \E j \in 1..n : s[j] = k[n][i]
          BY <2>4, <5>1
        <5> QED BY <5>1, <5>2
      <4> QED BY <4>1, <4>2
    <3>4. ASSUME NEW j \in 1..(n + 1), s[j] \in T
          PROVE  \E i \in 1..Len(k[n + 1]) : k[n + 1][i] = s[j]
      <4>1. CASE j = n + 1
        BY <3>2, <4>1
      <4>2. CASE j # n + 1
        <5>1. PICK i \in 1..Len(k[n]) : k[n][i] = s[j]
          BY <2>1, <2>4, <3>4, <4>2
        <5> QED BY <3>2, <5>1
      <4> QED BY <4>1, <4>2
    <3> QED BY <2>1, <2>4, <3>2, <3>3, <3>4
  <2> QED BY <2>2, <2>3
<1>4. Len(s) \in P
  <2> HIDE DEF P
  <2> QED BY <1>1, <1>2, <1>3, SetInduction
<1>5. Facts(Len(s))
  BY <1>1, <1>4
<1> QED BY <1>5 DEF Keep, k

\* Keeping some of a list without repetition makes no repetition.
LEMMA KeepOnce ==
  ASSUME NEW S, NEW s \in Seq(S), NEW T,
         \A i, j \in 1..Len(s) : i # j => s[i] # s[j]
  PROVE  \A i, j \in 1..Len(Keep(s, T)) : i # j => Keep(s, T)[i] # Keep(s, T)[j]
<1> DEFINE k == Kept(s, T)
           Facts(n) == /\ k[n] \in Seq(S)
                       /\ \A i \in 1..Len(k[n]) : \E j \in 1..n : s[j] = k[n][i]
                       /\ \A i, j \in 1..Len(k[n]) : i # j => k[n][i] # k[n][j]
           P == {n \in Nat : n <= Len(s) => Facts(n)}
<1>1. /\ Len(s) \in Nat /\ k[0] = <<>>
      /\ \A n \in 1..Len(s) : k[n] = IF s[n] \in T THEN Append(k[n - 1], s[n]) ELSE k[n - 1]
  BY KeptEquation
<1> HIDE DEF k
<1>2. 0 \in P
  <2>1. k[0] \in Seq(S) /\ Len(k[0]) = 0
    BY <1>1
  <2> QED BY <2>1
<1>3. ASSUME NEW n \in Nat, n \in P PROVE n + 1 \in P
  <2> SUFFICES ASSUME n + 1 <= Len(s) PROVE Facts(n + 1)
    OBVIOUS
  <2>1. n + 1 \in 1..Len(s) /\ n <= Len(s) /\ s[n + 1] \in S /\ (n + 1) - 1 = n
    BY <1>1, <1>3
  <2>4. Facts(n)
    BY <1>3, <2>1
  <2>2. CASE s[n + 1] \notin T
    <3>1. k[n + 1] = k[n]
      BY <1>1, <2>1, <2>2
    <3> QED BY <2>1, <2>4, <3>1
  <2>3. CASE s[n + 1] \in T
    <3>1. k[n + 1] = Append(k[n], s[n + 1])
      BY <1>1, <2>1, <2>3
    <3>2. /\ k[n] \in Seq(S) /\ Len(k[n]) \in Nat /\ k[n + 1] \in Seq(S)
          /\ Len(k[n + 1]) = Len(k[n]) + 1 /\ k[n + 1][Len(k[n]) + 1] = s[n + 1]
          /\ \A i \in 1..Len(k[n]) : k[n + 1][i] = k[n][i]
      BY <2>1, <2>4, <3>1, Appends
    <3>3. ASSUME NEW i \in 1..Len(k[n + 1])
          PROVE  \E j \in 1..(n + 1) : s[j] = k[n + 1][i]
      <4>1. CASE i = Len(k[n]) + 1
        BY <3>2, <4>1
      <4>2. CASE i # Len(k[n]) + 1
        <5>1. i \in 1..Len(k[n]) /\ k[n + 1][i] = k[n][i]
          BY <3>2, <4>2
        <5>2. \E j \in 1..n : s[j] = k[n][i]
          BY <2>4, <5>1
        <5> QED BY <5>1, <5>2
      <4> QED BY <4>1, <4>2
    <3>4. \A i \in 1..Len(k[n]) : k[n][i] # s[n + 1]
      <4> SUFFICES ASSUME NEW i \in 1..Len(k[n]), k[n][i] = s[n + 1] PROVE FALSE
        OBVIOUS
      <4>1. PICK j \in 1..n : s[j] = k[n][i]
        BY <2>4
      <4>2. j \in 1..Len(s) /\ j # n + 1 /\ s[j] = s[n + 1]
        BY <2>1, <2>4, <4>1
      <4> QED BY <2>1, <4>2
    <3>5. ASSUME NEW i \in 1..Len(k[n + 1]), NEW j \in 1..Len(k[n + 1]), i # j
          PROVE  k[n + 1][i] # k[n + 1][j]
      <4>1. CASE i # Len(k[n]) + 1 /\ j # Len(k[n]) + 1
        <5>1. i \in 1..Len(k[n]) /\ j \in 1..Len(k[n])
          BY <3>2, <4>1
        <5>2. k[n + 1][i] = k[n][i] /\ k[n + 1][j] = k[n][j]
          BY <3>2, <5>1
        <5> QED BY <2>4, <3>5, <5>1, <5>2
      <4>2. CASE i = Len(k[n]) + 1
        <5>1. j \in 1..Len(k[n])
          BY <3>2, <3>5, <4>2
        <5> QED BY <3>2, <3>4, <4>2, <5>1
      <4>3. CASE j = Len(k[n]) + 1
        <5>1. i \in 1..Len(k[n])
          BY <3>2, <3>5, <4>3
        <5> QED BY <3>2, <3>4, <4>3, <5>1
      <4> QED BY <4>1, <4>2, <4>3
    <3> QED BY <3>2, <3>3, <3>5
  <2> QED BY <2>2, <2>3
<1>4. Len(s) \in P
  <2> HIDE DEF P
  <2> QED BY <1>1, <1>2, <1>3, SetInduction
<1>5. Facts(Len(s))
  BY <1>1, <1>4
<1> QED BY <1>5 DEF Keep, k

\* Keeping commutes with appending: the loop goes one member further.
LEMMA KeepAppend ==
  ASSUME NEW S, NEW s \in Seq(S), NEW x \in S, NEW T
  PROVE  Keep(Append(s, x), T) = IF x \in T THEN Append(Keep(s, T), x) ELSE Keep(s, T)
<1> DEFINE l == Append(s, x)
           f == Kept(s, T)
           g == Kept(l, T)
           P == {n \in Nat : n <= Len(s) => g[n] = f[n]}
<1>1. /\ Len(s) \in Nat /\ Len(l) = Len(s) + 1 /\ l[Len(s) + 1] = x
      /\ \A n \in 1..Len(s) : l[n] = s[n]
  OBVIOUS
<1> HIDE DEF l
<1>2. /\ f[0] = <<>> /\ g[0] = <<>>
      /\ \A n \in 1..Len(s) : f[n] = IF s[n] \in T THEN Append(f[n - 1], s[n]) ELSE f[n - 1]
      /\ \A n \in 1..Len(l) : g[n] = IF l[n] \in T THEN Append(g[n - 1], l[n]) ELSE g[n - 1]
  BY <1>1, KeptEquation
<1> HIDE DEF f, g
<1>3. 0 \in P
  BY <1>2
<1>4. ASSUME NEW n \in Nat, n \in P PROVE n + 1 \in P
  <2> SUFFICES ASSUME n + 1 <= Len(s) PROVE g[n + 1] = f[n + 1]
    OBVIOUS
  <2>1. n + 1 \in 1..Len(s) /\ n + 1 \in 1..Len(l) /\ (n + 1) - 1 = n /\ g[n] = f[n]
    BY <1>1, <1>4
  <2> QED BY <1>1, <1>2, <2>1
<1>5. Len(s) \in P
  <2> HIDE DEF P
  <2> QED BY <1>1, <1>3, <1>4, SetInduction
<1>6. g[Len(s)] = f[Len(s)] /\ Len(s) + 1 \in 1..Len(l) /\ (Len(s) + 1) - 1 = Len(s)
  BY <1>1, <1>5
<1>7. g[Len(s) + 1] = IF x \in T THEN Append(f[Len(s)], x) ELSE f[Len(s)]
  BY <1>1, <1>2, <1>6
<1> QED BY <1>1, <1>7 DEF Keep, f, g, l

\* Of nothing, nothing is kept.
LEMMA KeepEmpty ==
  ASSUME NEW T
  PROVE  Keep(<<>>, T) = <<>>
BY KeptEquation DEF Keep

\* Appending to the second of two lists appends to both in a row.
LEMMA AppendConcat ==
  ASSUME NEW S, NEW a \in Seq(S), NEW b \in Seq(S), NEW x \in S
  PROVE  Append(a \o b, x) = a \o Append(b, x) /\ a \o Append(b, x) \in Seq(S)
<1>1. /\ a \o b \in Seq(S) /\ Len(a \o b) = Len(a) + Len(b) /\ Len(a) \in Nat /\ Len(b) \in Nat
      /\ \A i \in 1..Len(a) : (a \o b)[i] = a[i]
      /\ \A i \in (Len(a) + 1)..(Len(a) + Len(b)) : (a \o b)[i] = b[i - Len(a)]
  OBVIOUS
<1>2. /\ Append(b, x) \in Seq(S) /\ Len(Append(b, x)) = Len(b) + 1
      /\ Append(b, x)[Len(b) + 1] = x /\ \A i \in 1..Len(b) : Append(b, x)[i] = b[i]
  BY Appends
<1>3. /\ Append(a \o b, x) \in Seq(S) /\ Len(Append(a \o b, x)) = Len(a) + Len(b) + 1
      /\ Append(a \o b, x)[Len(a) + Len(b) + 1] = x
      /\ \A i \in 1..(Len(a) + Len(b)) : Append(a \o b, x)[i] = (a \o b)[i]
  BY <1>1, Appends
<1> DEFINE c == Append(b, x)
           d == Append(a \o b, x)
<1>4. c \in Seq(S) /\ Len(c) = Len(b) + 1
  BY <1>2
<1>5. c[Len(b) + 1] = x /\ \A i \in 1..Len(b) : c[i] = b[i]
  BY <1>2
<1>6. d \in Seq(S) /\ Len(d) = Len(a) + Len(b) + 1 /\ d[Len(a) + Len(b) + 1] = x
  BY <1>3
<1>7. \A i \in 1..(Len(a) + Len(b)) : d[i] = (a \o b)[i]
  BY <1>3
<1> HIDE DEF c, d
<1>8. a \o c \in Seq(S) /\ Len(a \o c) = Len(a) + Len(c)
  BY <1>4
<1>9. /\ \A i \in 1..Len(a) : (a \o c)[i] = a[i]
      /\ \A i \in (Len(a) + 1)..(Len(a) + Len(c)) : (a \o c)[i] = c[i - Len(a)]
  BY <1>4
<1>10. ASSUME NEW i \in 1..Len(d) PROVE d[i] = (a \o c)[i]
  <2>1. CASE i \in 1..Len(a)
    BY <1>1, <1>7, <1>9, <2>1
  <2>2. CASE i \in (Len(a) + 1)..(Len(a) + Len(b))
    <3>1. d[i] = b[i - Len(a)] /\ i - Len(a) \in 1..Len(b)
      BY <1>1, <1>7, <2>2
    <3>2. (a \o c)[i] = c[i - Len(a)]
      BY <1>1, <1>4, <1>9, <2>2
    <3> QED BY <1>5, <3>1, <3>2
  <2>3. CASE i = Len(a) + Len(b) + 1
    <3>1. (a \o c)[i] = c[i - Len(a)] /\ i - Len(a) = Len(b) + 1
      BY <1>1, <1>4, <1>9, <2>3
    <3> QED BY <1>5, <1>6, <2>3, <3>1
  <2>4. Len(d) = Len(a) + Len(b) + 1 /\ Len(a) \in Nat /\ Len(b) \in Nat
    BY <1>1, <1>6
  <2>5. i \in 1..Len(a) \/ i \in (Len(a) + 1)..(Len(a) + Len(b)) \/ i = Len(a) + Len(b) + 1
    BY <2>4
  <2> QED BY <2>1, <2>2, <2>3, <2>5
<1>11. Len(a \o c) = Len(d)
  BY <1>1, <1>4, <1>6, <1>8
<1>12. d = a \o c
  BY <1>6, <1>8, <1>10, <1>11, SeqEqual
<1> QED BY <1>8, <1>12 DEF c, d

\* Keeping goes from the first member on: the head, if it is in the set, then of the tail.
LEMMA KeepTail ==
  ASSUME NEW S, NEW s \in Seq(S), s # <<>>, NEW T
  PROVE  Keep(s, T) = (IF Head(s) \in T THEN <<Head(s)>> ELSE <<>>) \o Keep(Tail(s), T)
<1> DEFINE t == Tail(s)
           h == IF Head(s) \in T THEN <<Head(s)>> ELSE <<>>
           f == Kept(s, T)
           g == Kept(t, T)
           P == {n \in Nat : n <= Len(t) => g[n] \in Seq(S) /\ f[n + 1] = h \o g[n]}
<1>1. /\ Len(s) \in Nat /\ Len(t) \in Nat /\ Len(s) = Len(t) + 1 /\ s[1] = Head(s) /\ Head(s) \in S
      /\ t \in Seq(S) /\ \A n \in 1..Len(t) : t[n] = s[n + 1]
  BY HeadTailProperties
<1>2. h \in Seq(S) /\ h = IF s[1] \in T THEN Append(<<>>, s[1]) ELSE <<>>
  <2>1. <<Head(s)>> \in Seq(S) /\ <<>> \in Seq(S) /\ <<Head(s)>> = Append(<<>>, Head(s))
    BY <1>1
  <2> QED BY <1>1, <2>1
<1> HIDE DEF t, h
<1>3. /\ f[0] = <<>> /\ g[0] = <<>>
      /\ \A n \in 1..Len(s) : f[n] = IF s[n] \in T THEN Append(f[n - 1], s[n]) ELSE f[n - 1]
      /\ \A n \in 1..Len(t) : g[n] = IF t[n] \in T THEN Append(g[n - 1], t[n]) ELSE g[n - 1]
  BY <1>1, KeptEquation
<1> HIDE DEF f, g
<1>4. 0 \in P
  <2>1. <<>> \in Seq(S) /\ h \o <<>> = h
    BY <1>2, ConcatEmptySeq
  <2>2. 1 \in 1..Len(s) /\ 1 - 1 = 0
    BY <1>1
  <2>3. f[1] = h
    BY <1>2, <1>3, <2>2
  <2>4. g[0] \in Seq(S) /\ f[0 + 1] = h \o g[0]
    <3>1. 0 + 1 = 1
      OBVIOUS
    <3> QED BY <1>3, <2>1, <2>3, <3>1, Zenon
  <2> QED BY <2>4
<1>5. ASSUME NEW n \in Nat, n \in P PROVE n + 1 \in P
  <2> SUFFICES ASSUME n + 1 <= Len(t)
               PROVE  g[n + 1] \in Seq(S) /\ f[(n + 1) + 1] = h \o g[n + 1]
    OBVIOUS
  <2>1. /\ n + 1 \in 1..Len(t) /\ (n + 1) - 1 = n /\ (n + 1) + 1 \in 1..Len(s)
        /\ ((n + 1) + 1) - 1 = n + 1 /\ t[n + 1] \in S /\ t[n + 1] = s[(n + 1) + 1]
    BY <1>1
  <2>2. g[n] \in Seq(S) /\ f[n + 1] = h \o g[n]
    BY <1>1, <1>5
  <2>3. g[n + 1] = IF t[n + 1] \in T THEN Append(g[n], t[n + 1]) ELSE g[n]
    BY <1>3, <2>1
  <2>4. f[(n + 1) + 1] = IF t[n + 1] \in T THEN Append(h \o g[n], t[n + 1]) ELSE h \o g[n]
    BY <1>3, <2>1, <2>2
  <2>5. Append(h \o g[n], t[n + 1]) = h \o Append(g[n], t[n + 1])
    <3>1. h \in Seq(S) /\ g[n] \in Seq(S) /\ t[n + 1] \in S
      BY <1>2, <2>1, <2>2
    <3>2. /\ Append(h \o g[n], t[n + 1]) = h \o Append(g[n], t[n + 1])
          /\ h \o Append(g[n], t[n + 1]) \in Seq(S)
      BY ONLY <3>1, AppendConcat, Zenon
    <3> QED BY <3>2
  <2>6. Append(g[n], t[n + 1]) \in Seq(S)
    BY <2>1, <2>2, Appends
  <2> QED BY <2>2, <2>3, <2>4, <2>5, <2>6
<1>6. Len(t) \in P
  <2> HIDE DEF P
  <2> QED BY <1>1, <1>4, <1>5, SetInduction
<1>7. f[Len(s)] = h \o g[Len(t)]
  BY <1>1, <1>6
<1> QED BY <1>7 DEF Keep, f, g, t, h
=============================================================================
