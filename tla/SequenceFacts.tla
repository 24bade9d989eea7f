---------------------------- MODULE SequenceFacts ----------------------------
(***************************************************************************)
(* Facts about sequences that the proofs of several components rest on:    *)
(* what concatenation, Tail, FlattenSeq, Min and Max give. FlattenSeq      *)
(* needs induction on the naturals, which is derived here for sets, from   *)
(* the well-foundedness of the strict subset order.                        *)
(***************************************************************************)
EXTENDS Integers, Sequences, FiniteSets, SequencesExt, FiniteSetsExt, SequenceTheorems,
        FiniteSetTheorems, WellFoundedInduction, TLAPS

-----------------------------------------------------------------------------
\* A set of naturals has a least element.
LEMMA LeastNatural ==
    ASSUME NEW T \in SUBSET Nat, T # {}
    PROVE  \E n \in T : \A m \in T : n <= m
<1> DEFINE Below(n) == 0 .. n
           Belows == {Below(n) : n \in T}
<1>1. Belows \subseteq FiniteSubsetsOf(Nat) /\ Belows # {}
  <2>1. \A n \in T : Below(n) \in SUBSET Nat /\ IsFiniteSet(Below(n))
    BY FS_Interval
  <2> QED
    BY <2>1 DEF FiniteSubsetsOf
<1>2. PICK B \in Belows : \A C \in Belows : ~ (<<C, B>> \in StrictSubsetOrdering(Nat))
  BY <1>1, FS_StrictSubsetOrderingWellFounded, WFMin
<1>3. PICK n \in T : B = Below(n)
  OBVIOUS
<1>4. ASSUME NEW m \in T, m < n PROVE FALSE
  <2>1. Below(m) \subseteq Below(n) /\ n \notin Below(m) /\ n \in Below(n)
    BY <1>4
  <2>2. <<Below(m), Below(n)>> \in StrictSubsetOrdering(Nat)
    BY <2>1 DEF StrictSubsetOrdering
  <2> QED
    BY <1>2, <1>3, <2>2
<1> QED
  BY <1>3, <1>4

\* A set of naturals closed under successor holds them all from zero on.
LEMMA InductionOnNat ==
    ASSUME NEW T \in SUBSET Nat, 0 \in T, \A n \in T : n + 1 \in T
    PROVE  \A n \in Nat : n \in T
<1> SUFFICES ASSUME Nat \ T # {} PROVE FALSE
  OBVIOUS
<1>1. PICK n \in Nat \ T : \A m \in Nat \ T : n <= m
  BY LeastNatural
<1>2. n - 1 \in Nat /\ n - 1 \in T
  BY <1>1
<1> QED
  BY <1>1, <1>2


\* Whatever holds of 1, and of i + 1 when it holds of i, holds up to n.
LEMMA InductionUpTo ==
    ASSUME NEW n \in Nat, NEW T, 1 \in T, \A i \in 1 .. n : i \in T /\ i < n => i + 1 \in T
    PROVE  \A i \in 1 .. n : i \in T
<1> DEFINE U == {m \in Nat : m + 1 \in 1 .. n => m + 1 \in T}
<1>1. U \in SUBSET Nat /\ 0 \in U
  OBVIOUS
<1>2. ASSUME NEW m \in U PROVE m + 1 \in U
  OBVIOUS
<1>3. \A i \in 1 .. n : i - 1 \in Nat
  OBVIOUS
<1>4. \A m \in U : m + 1 \in 1 .. n => m + 1 \in T
  OBVIOUS
<1> HIDE DEF U
<1>5. \A m \in Nat : m \in U
  BY <1>1, <1>2, InductionOnNat
<1> QED
  BY <1>3, <1>4, <1>5

\* A place of a concatenation is a place of one of the two.
LEMMA ConcatParts ==
    ASSUME NEW S, NEW a \in Seq(S), NEW b \in Seq(S), NEW i \in 1 .. Len(a \o b)
    PROVE  \/ i \in 1 .. Len(a) /\ (a \o b)[i] = a[i]
           \/ i - Len(a) \in 1 .. Len(b) /\ (a \o b)[i] = b[i - Len(a)]
<1> DEFINE l == Len(a)
           m == Len(b)
<1>1. l \in Nat /\ m \in Nat /\ Len(a \o b) = l + m
  OBVIOUS
<1>2. \A j \in 1 .. l + m : (a \o b)[j] = IF j <= l THEN a[j] ELSE b[j - l]
  BY ConcatProperties
<1> HIDE DEF l, m
<1>3. i \in 1 .. l + m
  BY <1>1
<1>4. CASE i <= l
  BY <1>1, <1>2, <1>3, <1>4 DEF l
<1>5. CASE i > l
  BY <1>1, <1>2, <1>3, <1>5 DEF l, m
<1> QED
  BY <1>1, <1>3, <1>4, <1>5

\* The places of a concatenation are those of its two parts.
LEMMA ConcatPlaces ==
    ASSUME NEW S, NEW q \in Seq(S), NEW ws \in Seq(S)
    PROVE  /\ q \o ws \in Seq(S)
           /\ DOMAIN (q \o ws) = 1 .. Len(q) + Len(ws) /\ Len(q) \in Nat /\ Len(ws) \in Nat
           /\ \A k \in 1 .. Len(q) : (q \o ws)[k] = q[k]
           /\ \A l \in 1 .. Len(ws) : (q \o ws)[Len(q) + l] = ws[l]
           /\ \A k \in DOMAIN (q \o ws) :
                \/ k \in 1 .. Len(q)
                \/ \E l \in 1 .. Len(ws) : k = Len(q) + l
<1> DEFINE n == Len(q)
           m == Len(ws)
           r == q \o ws
<1>1. r \in Seq(S) /\ n \in Nat /\ m \in Nat /\ Len(r) = n + m
  OBVIOUS
<1>2. \A k \in 1 .. n + m : r[k] = IF k <= n THEN q[k] ELSE ws[k - n]
  BY ConcatProperties
<1>3. DOMAIN r = 1 .. n + m
  BY <1>1
<1> HIDE DEF n, m, r
<1>4. \A k \in 1 .. n : r[k] = q[k]
  BY <1>1, <1>2
<1>5. ASSUME NEW l \in 1 .. m PROVE r[n + l] = ws[l]
  <2> DEFINE k == n + l
  <2>1. k \in 1 .. n + m /\ ~ (k <= n) /\ k - n = l
    BY <1>1
  <2> HIDE DEF k
  <2>2. r[k] = ws[k - n]
    BY <1>2, <2>1
  <2>3. ws[k - n] = ws[l]
    BY <2>1
  <2> QED
    BY <2>2, <2>3 DEF k
<1>6. ASSUME NEW k \in 1 .. n + m PROVE k \in 1 .. n \/ \E l \in 1 .. m : k = n + l
  <2>1. CASE k <= n
    BY <1>1, <2>1
  <2>2. CASE k > n
    <3>1. k - n \in 1 .. m /\ k = n + (k - n)
      BY <1>1, <2>2
    <3> QED
      BY <3>1
  <2> QED
    BY <1>1, <2>1, <2>2
<1> QED
  BY <1>1, <1>3, <1>4, <1>5, <1>6 DEF n, m, r

\* The places of a tail are those of the sequence, one earlier.
LEMMA TailPlaces ==
    ASSUME NEW S, NEW q \in Seq(S), q # <<>>
    PROVE  /\ Tail(q) \in Seq(S)
           /\ \A k \in DOMAIN Tail(q) : k + 1 \in DOMAIN q /\ Tail(q)[k] = q[k + 1]
           /\ \A k \in DOMAIN q : k # 1 => k - 1 \in DOMAIN Tail(q) /\ Tail(q)[k - 1] = q[k]
           /\ 1 \in DOMAIN q /\ Head(q) = q[1] /\ Head(q) \in S
           /\ DOMAIN q \subseteq Nat /\ DOMAIN Tail(q) \subseteq Nat
<1> DEFINE n == Len(q)
<1>1. n \in Nat /\ n >= 1 /\ Len(Tail(q)) = n - 1
  OBVIOUS
<1>2. Tail(q) \in Seq(S) /\ Head(q) = q[1] /\ Head(q) \in S
  OBVIOUS
<1>3. DOMAIN q = 1 .. n /\ DOMAIN Tail(q) = 1 .. n - 1
  BY <1>1, <1>2
<1>4. \A k \in 1 .. n - 1 : Tail(q)[k] = q[k + 1]
  OBVIOUS
<1> HIDE DEF n
<1>5. \A k \in DOMAIN Tail(q) : k + 1 \in DOMAIN q /\ Tail(q)[k] = q[k + 1]
  BY <1>1, <1>3, <1>4
<1>6. ASSUME NEW k \in 1 .. n, k # 1 PROVE k - 1 \in 1 .. n - 1 /\ Tail(q)[k - 1] = q[k]
  <2>1. k - 1 \in 1 .. n - 1 /\ k - 1 + 1 = k
    BY <1>1, <1>6
  <2> QED
    BY <1>4, <2>1
<1> QED
  BY <1>1, <1>2, <1>3, <1>5, <1>6

\* FlattenSeq runs through the sequences it joins from the first to the last.
LEMMA FlattenRecursion ==
    ASSUME NEW S, NEW ss \in Seq(Seq(S)), ss # <<>>
    PROVE  \E f \in [1 .. Len(ss) -> Seq(S)] :
             /\ FlattenSeq(ss) = f[Len(ss)]
             /\ f[1] = ss[1]
             /\ \A i \in 1 .. Len(ss) : i < Len(ss) => f[i + 1] = f[i] \o ss[i + 1]
<1> DEFINE n == Len(ss)
           G(f) == [i \in 1 .. n |-> IF i = 1 THEN ss[i] ELSE f[i - 1] \o ss[i]]
           F == CHOOSE f : f = G(f)
           Upto(m, f) == f[1] = ss[1] /\ \A i \in 1 .. m : i < m => f[i + 1] = f[i] \o ss[i + 1]
           Reached(m) == \E f \in [1 .. m -> Seq(S)] : Upto(m, f)
<1>1. FlattenSeq(ss) = F[n]
  BY DEF FlattenSeq
<1>2. n \in Nat /\ n >= 1 /\ \A i \in 1 .. n : ss[i] \in Seq(S)
  OBVIOUS
<1> HIDE DEF n, F
<1>3. Reached(1)
  <2>1. [i \in 1 .. 1 |-> ss[1]] \in [1 .. 1 -> Seq(S)]
    BY <1>2
  <2>2. Upto(1, [i \in 1 .. 1 |-> ss[1]])
    OBVIOUS
  <2> QED
    BY <2>1, <2>2
<1>4. ASSUME NEW m \in 1 .. n, Reached(m), m < n PROVE Reached(m + 1)
  <2>1. PICK f \in [1 .. m -> Seq(S)] : Upto(m, f)
    BY <1>4
  <2> DEFINE last == f[m] \o ss[m + 1]
             g == [i \in 1 .. m + 1 |-> IF i <= m THEN f[i] ELSE last]
  <2>2. last \in Seq(S)
    <3>1. f[m] \in Seq(S) /\ ss[m + 1] \in Seq(S)
      BY <1>2, <1>4, <2>1
    <3> QED
      BY <3>1
  <2> HIDE DEF last
  <2>3. g \in [1 .. m + 1 -> Seq(S)]
    BY <2>1, <2>2
  <2>4. \A i \in 1 .. m : g[i] = f[i]
    BY <1>4
  <2>5. g[m + 1] = last
    BY <1>4
  <2> HIDE DEF g
  <2>6. g[1] = ss[1]
    BY <1>4, <2>1, <2>4
  <2>7. ASSUME NEW i \in 1 .. m + 1, i < m + 1 PROVE g[i + 1] = g[i] \o ss[i + 1]
    <3>1. i \in 1 .. m /\ g[i] = f[i]
      BY <1>4, <2>4, <2>7
    <3>2. CASE i = m
      BY <2>5, <3>1, <3>2 DEF last
    <3>3. CASE i < m
      <4>1. i + 1 \in 1 .. m
        BY <1>4, <3>1, <3>3
      <4>2. g[i + 1] = f[i + 1]
        BY <2>4, <4>1
      <4>3. f[i + 1] = f[i] \o ss[i + 1]
        BY <2>1, <3>1, <3>3
      <4> QED
        BY <3>1, <4>2, <4>3, Zenon
    <3>4. i = m \/ i < m
      BY <1>2, <3>1
    <3> QED
      BY <3>2, <3>3, <3>4, Zenon
  <2> QED
    BY <2>3, <2>6, <2>7
<1>5. Reached(n)
  <2> HIDE DEF Reached
  <2> DEFINE T == {m \in 1 .. n : Reached(m)}
  <2>1. 1 \in T /\ \A i \in 1 .. n : i \in T /\ i < n => i + 1 \in T
    BY <1>2, <1>3, <1>4
  <2>2. \A i \in T : Reached(i)
    OBVIOUS
  <2> HIDE DEF T
  <2>3. \A i \in 1 .. n : i \in T
    BY <1>2, <2>1, InductionUpTo
  <2> QED
    BY <1>2, <2>2, <2>3
<1>6. PICK f \in [1 .. n -> Seq(S)] : Upto(n, f)
  BY <1>2, <1>5
<1>7. f = G(f)
  <2> DEFINE h == G(f)
  <2>1. ASSUME NEW i \in 1 .. n PROVE f[i] = h[i]
    <3>1. h[i] = IF i = 1 THEN ss[i] ELSE f[i - 1] \o ss[i]
      OBVIOUS
    <3>2. CASE i = 1
      BY <1>6, <3>1, <3>2
    <3>3. CASE i # 1
      <4>1. i - 1 \in 1 .. n /\ i - 1 < n /\ i - 1 + 1 = i
        BY <1>2, <3>3
      <4>2. f[i - 1 + 1] = f[i - 1] \o ss[i - 1 + 1]
        BY <1>6, <4>1
      <4> QED
        BY <3>1, <3>3, <4>1, <4>2, Zenon
    <3> QED
      BY <3>2, <3>3
  <2>2. DOMAIN h = 1 .. n /\ h = [i \in 1 .. n |-> h[i]]
    OBVIOUS
  <2> HIDE DEF h
  <2>3. f = h
    BY <2>1, <2>2
  <2> QED
    BY <2>3 DEF h
<1>8. F = G(F)
  BY <1>7 DEF F
<1>9. DOMAIN F = 1 .. n /\ F = [i \in 1 .. n |-> F[i]]
  BY <1>8
<1>10. F[1] = ss[1]
  BY <1>2, <1>8
<1>11. ASSUME NEW i \in 1 .. n, i < n PROVE F[i + 1] = F[i] \o ss[i + 1]
  <2> DEFINE h == G(F)
             j == i + 1
  <2>1. \A k \in 1 .. n : h[k] = IF k = 1 THEN ss[k] ELSE F[k - 1] \o ss[k]
    BY Zenon
  <2>2. j \in 1 .. n /\ j # 1 /\ j - 1 = i
    BY <1>2, <1>11
  <2>3. F = h
    BY <1>8
  <2> HIDE DEF h, j
  <2>4. F[j] = F[j - 1] \o ss[j]
    BY <2>1, <2>2, <2>3, Zenon
  <2>5. F[j] = F[i] \o ss[j]
    BY <2>2, <2>4, Zenon
  <2> QED
    BY <2>5 DEF j
<1>12. \A i \in 1 .. n : F[i] \in Seq(S)
  <2> DEFINE T == {m \in 1 .. n : F[m] \in Seq(S)}
  <2>1. 1 \in T
    <3>1. ss[1] \in Seq(S)
      BY <1>2
    <3> QED
      BY <1>2, <1>10, <3>1
  <2>2. ASSUME NEW i \in 1 .. n, i \in T, i < n PROVE i + 1 \in T
    <3>1. i + 1 \in 1 .. n /\ i + 1 # 1 /\ i + 1 - 1 = i
      BY <1>2, <2>2
    <3>2. F[i] \in Seq(S)
      BY <2>2
    <3>3. ss[i + 1] \in Seq(S)
      BY <1>2, <3>1
    <3>4. F[i + 1] = F[i] \o ss[i + 1]
      BY <1>11, <2>2
    <3> DEFINE a == F[i]
               b == ss[i + 1]
    <3> HIDE DEF a, b
    <3>5. a \o b \in Seq(S)
      BY <3>2, <3>3 DEF a, b
    <3> QED
      BY <3>1, <3>4, <3>5, Zenon DEF a, b
  <2>3. \A i \in T : F[i] \in Seq(S)
    OBVIOUS
  <2> HIDE DEF T
  <2>4. \A i \in 1 .. n : i \in T
    BY <1>2, <2>1, <2>2, InductionUpTo
  <2> QED
    BY <2>3, <2>4
<1>13. F \in [1 .. n -> Seq(S)]
  BY <1>9, <1>12
<1> QED
  BY <1>1, <1>10, <1>11, <1>13 DEF n

\* t lists the elements of the first n sequences of ss one after the other:
\* its element i is the one at place[i] of the sequence part[i].
Laid(t, ss, n, part, place) ==
    /\ \A i \in 1 .. Len(t) :
         /\ part[i] \in 1 .. n /\ place[i] \in 1 .. Len(ss[part[i]])
         /\ t[i] = ss[part[i]][place[i]]
    /\ \A i, j \in 1 .. Len(t) :
         i < j => part[i] < part[j] \/ (part[i] = part[j] /\ place[i] < place[j])
    /\ \A k \in 1 .. n : \A m \in 1 .. Len(ss[k]) :
         \E i \in 1 .. Len(t) : part[i] = k /\ place[i] = m

\* One more sequence.
LEMMA LaidOneMore ==
    ASSUME NEW S, NEW ss \in Seq(Seq(S)), NEW n \in Nat, n + 1 \in 1 .. Len(ss),
           NEW t \in Seq(S), NEW part, NEW place, Laid(t, ss, n, part, place)
    PROVE  \E newer, newplace : Laid(t \o ss[n + 1], ss, n + 1, newer, newplace)
<1> DEFINE b == ss[n + 1]
           l == Len(t)
           m == Len(b)
           r == t \o b
           p == [i \in 1 .. l + m |-> IF i <= l THEN part[i] ELSE n + 1]
           q == [i \in 1 .. l + m |-> IF i <= l THEN place[i] ELSE i - l]
<1>1. b \in Seq(S)
  OBVIOUS
<1> HIDE DEF b
<1>2. /\ l \in Nat /\ m \in Nat /\ Len(r) = l + m
      /\ \A i \in 1 .. l : r[i] = t[i]
      /\ \A i \in 1 .. m : r[l + i] = b[i]
  <2>1. Len(r) = l + m /\ l \in Nat /\ m \in Nat
    BY <1>1
  <2> QED
    BY <1>1, <2>1, ConcatPlaces
<1>3. \A i \in 1 .. l : p[i] = part[i] /\ q[i] = place[i]
  BY <1>2
<1>4. \A i \in 1 .. m : p[l + i] = n + 1 /\ q[l + i] = i
  BY <1>2
<1>5. \A i \in 1 .. l + m : i \in 1 .. l \/ (i - l \in 1 .. m /\ i = l + (i - l))
  BY <1>2
<1>6. /\ \A i \in 1 .. l : part[i] \in 1 .. n /\ place[i] \in 1 .. Len(ss[part[i]])
                           /\ t[i] = ss[part[i]][place[i]]
      /\ \A i, j \in 1 .. l :
           i < j => part[i] < part[j] \/ (part[i] = part[j] /\ place[i] < place[j])
      /\ \A k \in 1 .. n : \A e \in 1 .. Len(ss[k]) :
           \E i \in 1 .. l : part[i] = k /\ place[i] = e
  BY DEF Laid
<1>7. Len(ss[n + 1]) = m
  BY DEF b
<1> HIDE DEF l, m, r, p, q
<1>8. ASSUME NEW i \in 1 .. l + m
      PROVE  /\ p[i] \in 1 .. n + 1 /\ q[i] \in 1 .. Len(ss[p[i]])
             /\ r[i] = ss[p[i]][q[i]]
  <2>1. CASE i \in 1 .. l
    <3>1. p[i] = part[i] /\ q[i] = place[i] /\ r[i] = t[i]
      BY <1>2, <1>3, <2>1
    <3>2. part[i] \in 1 .. n + 1
      BY <1>6, <2>1
    <3> QED
      BY <1>6, <2>1, <3>1, <3>2
  <2>2. CASE i - l \in 1 .. m
    <3> DEFINE j == i - l
    <3>1. i = l + j /\ j \in 1 .. m
      BY <1>5, <1>2, <2>2
    <3> HIDE DEF j
    <3>2. p[i] = n + 1 /\ q[i] = j /\ r[i] = b[j]
      BY <1>2, <1>4, <3>1
    <3> QED
      BY <1>7, <3>1, <3>2 DEF b
  <2> QED
    BY <1>5, <2>1, <2>2
<1>9. ASSUME NEW i \in 1 .. l + m, NEW j \in 1 .. l + m, i < j
      PROVE  p[i] < p[j] \/ (p[i] = p[j] /\ q[i] < q[j])
  <2>1. CASE j \in 1 .. l
    <3>1. i \in 1 .. l
      BY <1>2, <1>9, <2>1
    <3> QED
      BY <1>3, <1>6, <1>9, <2>1, <3>1
  <2>2. CASE j - l \in 1 .. m /\ i \in 1 .. l
    <3>1. p[j] = n + 1
      <4> DEFINE d == j - l
      <4>1. j = l + d /\ d \in 1 .. m
        BY <1>2, <2>2
      <4> HIDE DEF d
      <4> QED
        BY <1>4, <4>1
    <3>2. p[i] \in 1 .. n
      BY <1>3, <1>6, <2>2
    <3> QED
      BY <3>1, <3>2
  <2>3. CASE j - l \in 1 .. m /\ i - l \in 1 .. m
    <3> DEFINE c == i - l
               d == j - l
    <3>1. i = l + c /\ j = l + d /\ c < d /\ c \in 1 .. m /\ d \in 1 .. m
      BY <1>2, <1>9, <2>3
    <3> HIDE DEF c, d
    <3> QED
      BY <1>4, <3>1
  <2> QED
    BY <1>5, <2>1, <2>2, <2>3
<1>10. ASSUME NEW k \in 1 .. n + 1, NEW e \in 1 .. Len(ss[k])
       PROVE  \E i \in 1 .. l + m : p[i] = k /\ q[i] = e
  <2>1. CASE k = n + 1
    <3>1. e \in 1 .. m /\ l + e \in 1 .. l + m
      BY <1>2, <1>7, <1>10, <2>1
    <3> QED
      BY <1>4, <2>1, <3>1
  <2>2. CASE k # n + 1
    <3>1. k \in 1 .. n
      BY <2>2
    <3>2. PICK i \in 1 .. l : part[i] = k /\ place[i] = e
      BY <1>6, <3>1
    <3>3. i \in 1 .. l + m
      BY <1>2
    <3> QED
      BY <1>3, <3>2, <3>3
  <2> QED
    BY <2>1, <2>2
<1>11. Laid(r, ss, n + 1, p, q)
  BY <1>2, <1>8, <1>9, <1>10 DEF Laid
<1> QED
  BY <1>11 DEF r, b

\* FlattenSeq loses no element of the sequences it joins, adds none and keeps
\* their order.
LEMMA FlattenPlaces ==
    ASSUME NEW S, NEW ss \in Seq(Seq(S))
    PROVE  /\ FlattenSeq(ss) \in Seq(S)
           /\ \E part, place : Laid(FlattenSeq(ss), ss, Len(ss), part, place)
<1>0. ASSUME NEW x PROVE Laid(<<>>, ss, 0, x, x)
  BY DEF Laid
<1>1. CASE ss = <<>>
  <2>1. FlattenSeq(ss) = <<>> /\ Len(ss) = 0
    BY <1>1 DEF FlattenSeq
  <2>2. <<>> \in Seq(S)
    OBVIOUS
  <2> QED
    BY <1>0, <2>1, <2>2
<1>2. CASE ss # <<>>
  <2>1. PICK f \in [1 .. Len(ss) -> Seq(S)] :
             /\ FlattenSeq(ss) = f[Len(ss)]
             /\ f[1] = ss[1]
             /\ \A i \in 1 .. Len(ss) : i < Len(ss) => f[i + 1] = f[i] \o ss[i + 1]
    BY <1>2, FlattenRecursion
  <2> DEFINE n == Len(ss)
             Good(i) == \E part, place : Laid(f[i], ss, i, part, place)
             T == {i \in 1 .. n : Good(i)}
  <2>2. n \in Nat /\ n >= 1 /\ \A i \in 1 .. n : f[i] \in Seq(S)
    <3>1. n \in Nat /\ n >= 1
      BY <1>2
    <3>2. \A i \in 1 .. n : f[i] \in Seq(S)
      BY <2>1
    <3> QED
      BY <3>1, <3>2
  <2>3. Good(1)
    <3>1. <<>> \in Seq(S) /\ 0 + 1 \in 1 .. Len(ss) /\ 0 \in Nat
      BY <2>2
    <3>2. \E part, place : Laid(<<>> \o ss[0 + 1], ss, 0 + 1, part, place)
      BY <1>0, <3>1, LaidOneMore
    <3>3. <<>> \o ss[1] = f[1] /\ 0 + 1 = 1
      BY <2>1, <2>2
    <3> QED
      BY <3>2, <3>3
  <2>4. ASSUME NEW i \in 1 .. n, Good(i), i < n PROVE Good(i + 1)
    <3>1. f[i] \in Seq(S) /\ i + 1 \in 1 .. Len(ss) /\ i \in Nat
      BY <2>2, <2>4
    <3>2. PICK part, place : Laid(f[i], ss, i, part, place)
      BY <2>4
    <3>3. \E newer, newplace : Laid(f[i] \o ss[i + 1], ss, i + 1, newer, newplace)
      BY <3>1, <3>2, LaidOneMore
    <3>4. f[i + 1] = f[i] \o ss[i + 1]
      BY <2>1, <2>4
    <3> QED
      BY <3>3, <3>4
  <2> HIDE DEF n, Good
  <2>5. 1 \in T /\ \A i \in 1 .. n : i \in T /\ i < n => i + 1 \in T
    BY <2>2, <2>3, <2>4
  <2>6. \A i \in T : Good(i)
    OBVIOUS
  <2> HIDE DEF T
  <2>7. \A i \in 1 .. n : i \in T
    BY <2>2, <2>5, InductionUpTo DEF T
  <2>8. Good(n) /\ f[n] \in Seq(S)
    BY <2>2, <2>6, <2>7
  <2> QED
    BY <2>1, <2>8 DEF Good, n
<1> QED
  BY <1>1, <1>2

\* What FlattenSeq joins: sequences over S give a sequence over S, whose
\* elements are theirs.
LEMMA FlattenElements ==
    ASSUME NEW S, NEW ss \in Seq(Seq(S))
    PROVE  /\ FlattenSeq(ss) \in Seq(S)
           /\ \A i \in 1 .. Len(FlattenSeq(ss)) :
                \E k \in 1 .. Len(ss) : \E j \in 1 .. Len(ss[k]) : FlattenSeq(ss)[i] = ss[k][j]
<1>1. PICK part, place : Laid(FlattenSeq(ss), ss, Len(ss), part, place)
  BY FlattenPlaces
<1>2. FlattenSeq(ss) \in Seq(S)
  BY FlattenPlaces
<1> DEFINE t == FlattenSeq(ss)
<1> HIDE DEF t
<1>3. ASSUME NEW i \in 1 .. Len(t)
      PROVE  \E k \in 1 .. Len(ss) : \E j \in 1 .. Len(ss[k]) : t[i] = ss[k][j]
  <2>1. /\ part[i] \in 1 .. Len(ss) /\ place[i] \in 1 .. Len(ss[part[i]])
        /\ t[i] = ss[part[i]][place[i]]
    BY <1>1, <1>3 DEF Laid, t
  <2> QED
    BY <2>1
<1> QED
  BY <1>2, <1>3 DEF t

\* FlattenSeq of sequences over S is one over S.
LEMMA FlattenType ==
    ASSUME NEW S, NEW ss \in Seq(Seq(S))
    PROVE  FlattenSeq(ss) \in Seq(S)
BY FlattenElements

\* The least of a set.
LEMMA MinOfNaturals ==
    ASSUME NEW T \in SUBSET Nat, T # {}
    PROVE  Min(T) \in T /\ \A m \in T : Min(T) <= m
BY LeastNatural DEF Min

\* The greatest of a bounded set.
LEMMA MaxOfNaturals ==
    ASSUME NEW T \in SUBSET Nat, T # {}, NEW b \in Nat, \A m \in T : m <= b
    PROVE  Max(T) \in T /\ \A m \in T : m <= Max(T)
<1> DEFINE U == {b - m : m \in T}
<1>1. U \in SUBSET Nat /\ U # {}
  <2>1. \A m \in T : b - m \in Nat
    <3> TAKE m \in T
    <3>1. m \in Nat /\ m <= b
      OBVIOUS
    <3> QED
      BY <3>1
  <2>2. U \in SUBSET Nat
    BY <2>1
  <2>3. U # {}
    OBVIOUS
  <2> QED
    BY <2>2, <2>3
<1>2. PICK u \in U : \A v \in U : u <= v
  BY <1>1, LeastNatural
<1>3. PICK x \in T : u = b - x
  OBVIOUS
<1>4. \A m \in T : x >= m
  <2> TAKE m \in T
  <2>1. b - m \in U
    OBVIOUS
  <2>2. u <= b - m
    BY <1>2, <2>1
  <2> QED
    BY <1>3, <2>2
<1>5. \E y \in T : \A m \in T : y >= m
  BY <1>4
<1>6. Max(T) \in T /\ \A m \in T : Max(T) >= m
  BY <1>5 DEF Max
<1> QED
  BY <1>6

=============================================================================
