---------------------------- MODULE EventFile_proofs ----------------------------
(***************************************************************************)
(* Proofs about PackedEvent and EventFile, for any node file, events of    *)
(* any length and any mix of ids, and files of any length cut anywhere in  *)
(* the last message.                                                       *)
(*                                                                         *)
(* The operators that pack an event are recursive functions; that they are *)
(* defined, and on what, is proved here by induction on sets of numbers    *)
(* (Steps, Recursion).  An offset is a running total (SumsAre), and as a   *)
(* header has a size, totals of different numbers of fragments differ      *)
(* (SumsGrow): a place in a message or in a file belongs to one header.    *)
(***************************************************************************)
EXTENDS EventFile, FiniteSetTheorems, SequenceTheorems, WellFoundedInduction, TLAPS

\* What holds at 0 and goes on from each number to the next holds up to N.
LEMMA Steps ==
  ASSUME NEW N \in Nat, NEW T, 0 \in T, \A k \in 1..N : k - 1 \in T => k \in T
  PROVE  0..N \subseteq T
<1> DEFINE U == (0..N) \ T
           R == OpToRel(<, Nat)
<1> SUFFICES ASSUME U # {} PROVE FALSE
  OBVIOUS
<1>1. U \subseteq Nat
  OBVIOUS
<1>2. IsWellFoundedOn(R, Nat)
  BY NatLessThanWellFounded
<1>3. \A x, y \in Nat : <<x, y>> \in R <=> x < y
  BY DEF OpToRel
<1> HIDE DEF R
<1>4. PICK x \in U : \A y \in U : ~(<<y, x>> \in R)
  BY <1>1, <1>2, WFMin
<1>5. \A y \in U : ~(y < x)
  BY <1>1, <1>3, <1>4
<1>6. x \in 1..N /\ x - 1 \in 0..N /\ x - 1 < x
  OBVIOUS
<1>7. x - 1 \in T
  BY <1>5, <1>6
<1> QED
  BY <1>6, <1>7

LEMMA Values ==
  ASSUME NEW N \in Nat, NEW S, NEW f, f[0] \in S, \A k \in 1..N : f[k - 1] \in S => f[k] \in S
  PROVE  \A k \in 0..N : f[k] \in S
<1> DEFINE T == {k \in 0..N : f[k] \in S}
<1>1. 0 \in T
  OBVIOUS
<1>2. ASSUME NEW k \in 1..N, k - 1 \in T PROVE k \in T
  BY <1>2
<1> HIDE DEF T
<1>3. 0..N \subseteq T
  BY <1>1, <1>2, Steps
<1> QED
  BY <1>3 DEF T

\* A function can be defined by a first value and a step.
Iterates(f, S, a, N, g) ==
  f \in [0..N -> S] /\ f[0] = a /\ \A k \in 1..N : f[k] = g[k][f[k - 1]]

LEMMA Recursion ==
  ASSUME NEW S, NEW a \in S, NEW N \in Nat, NEW g \in [1..N -> [S -> S]]
  PROVE  \E f : Iterates(f, S, a, N, g)
<1> DEFINE T == {n \in 0..N : \E f \in [0..n -> S] :
                                f[0] = a /\ \A k \in 1..n : f[k] = g[k][f[k - 1]]}
<1>1. 0 \in T
  <2> DEFINE f == [k \in 0..0 |-> a]
  <2>1. f \in [0..0 -> S] /\ f[0] = a /\ \A k \in 1..0 : f[k] = g[k][f[k - 1]]
    OBVIOUS
  <2> HIDE DEF f
  <2>2. \E e \in [0..0 -> S] : e[0] = a /\ \A k \in 1..0 : e[k] = g[k][e[k - 1]]
    BY <2>1
  <2> QED
    BY <2>2
<1>2. ASSUME NEW n \in 1..N, n - 1 \in T PROVE n \in T
  <2>1. PICK e \in [0..(n - 1) -> S] : e[0] = a /\ \A k \in 1..(n - 1) : e[k] = g[k][e[k - 1]]
    BY <1>2
  <2> DEFINE f == [k \in 0..n |-> IF k = n THEN g[n][e[n - 1]] ELSE e[k]]
  <2>2. f \in [0..n -> S]
    BY <2>1
  <2>3. f[0] = a
    BY <2>1
  <2>4. ASSUME NEW k \in 1..n PROVE f[k] = g[k][f[k - 1]]
    <3>1. k - 1 \in 0..n /\ k - 1 # n /\ k \in 0..n
      OBVIOUS
    <3>2. f[k - 1] = e[k - 1]
      BY <3>1
    <3>3. CASE k = n
      BY <3>1, <3>2, <3>3
    <3>4. CASE k # n
      <4>1. k \in 1..(n - 1)
        BY <3>4
      <4> QED
        BY <2>1, <3>1, <3>2, <3>4, <4>1
    <3> QED
      BY <3>3, <3>4
  <2> HIDE DEF f
  <2>5. \E h \in [0..n -> S] : h[0] = a /\ \A k \in 1..n : h[k] = g[k][h[k - 1]]
    BY <2>2, <2>3, <2>4
  <2>6. n \in 0..N
    OBVIOUS
  <2> QED
    BY <2>5, <2>6
<1> HIDE DEF T
<1>3. 0..N \subseteq T
  BY <1>1, <1>2, Steps
<1>4. N \in T
  BY <1>3
<1> QED
  BY <1>4 DEF T, Iterates

\* The running totals of a sequence of numbers.
LEMMA SumsAre ==
  ASSUME NEW s \in Seq(Nat)
  PROVE  /\ Len(s) \in Nat /\ Sums(s) \in [0..Len(s) -> Nat] /\ Sums(s)[0] = 0
         /\ \A k \in 1..Len(s) : s[k] \in Nat /\ Sums(s)[k] = Sums(s)[k - 1] + s[k]
<1> DEFINE N == Len(s)
           Is(f) == f = [k \in 0..N |-> IF k = 0 THEN 0 ELSE f[k - 1] + s[k]]
           g == [k \in 1..N |-> [x \in Nat |-> x + s[k]]]
<1>1. N \in Nat /\ \A k \in 1..N : s[k] \in Nat
  BY LenProperties, ElementOfSeq
<1>2. g \in [1..N -> [Nat -> Nat]]
  BY <1>1
<1> HIDE DEF N
<1>3. PICK e : Iterates(e, Nat, 0, N, g)
  <2> HIDE DEF g
  <2>1. 0 \in Nat
    OBVIOUS
  <2> QED
    BY <1>1, <1>2, <2>1, Recursion
<1>4. e \in [0..N -> Nat] /\ e[0] = 0 /\ \A k \in 1..N : e[k] = g[k][e[k - 1]]
  <2> HIDE DEF g
  <2> QED
    BY <1>3 DEF Iterates
<1>5. Is(e)
  <2>1. ASSUME NEW k \in 1..N PROVE e[k] = e[k - 1] + s[k]
    <3>1. k - 1 \in 0..N
      BY <1>1
    <3>2. g[k] = [x \in Nat |-> x + s[k]] /\ e[k - 1] \in Nat
      BY <1>4, <3>1
    <3> HIDE DEF g
    <3> QED
      BY <1>4, <3>2
  <2> QED
    BY <1>1, <1>4, <2>1
<1>6. Sums(s) = CHOOSE f : Is(f)
  BY DEF Sums, N
<1>7. Is(Sums(s))
  BY <1>5, <1>6
<1> DEFINE F == Sums(s)
<1> HIDE DEF F
<1>8. F = [k \in 0..N |-> IF k = 0 THEN 0 ELSE F[k - 1] + s[k]]
  BY <1>7 DEF F
<1>9. F[0] = 0 /\ \A k \in 1..N : F[k] = F[k - 1] + s[k]
  BY <1>1, <1>8
<1>10. \A k \in 0..N : F[k] \in Nat
  <2>1. F[0] \in Nat /\ \A k \in 1..N : F[k - 1] \in Nat => F[k] \in Nat
    BY <1>1, <1>9
  <2> QED
    BY <1>1, <2>1, Values
<1>11. F \in [0..N -> Nat]
  BY <1>8, <1>10
<1> QED
  BY <1>1, <1>9, <1>11 DEF F, N

LEMMA SumsGrow ==
  ASSUME NEW s \in Seq(Nat), NEW m \in 0..Len(s), NEW n \in 0..Len(s)
  PROVE  /\ m <= n => Sums(s)[m] <= Sums(s)[n]
         /\ m < n => Sums(s)[m] + s[m + 1] <= Sums(s)[n]
<1> DEFINE F == Sums(s)
           N == Len(s)
<1>1. /\ N \in Nat /\ F \in [0..N -> Nat]
      /\ \A k \in 1..N : s[k] \in Nat /\ F[k] = F[k - 1] + s[k]
  BY SumsAre
<1> HIDE DEF F, N
<1>2. ASSUME NEW l \in 0..N PROVE \A k \in 0..N : l <= k => F[l] <= F[k]
  <2> DEFINE T == {k \in 0..N : l <= k => F[l] <= F[k]}
  <2>1. 0 \in T
    BY <1>1
  <2>2. \A k \in 1..N : k - 1 \in T => k \in T
    <3> SUFFICES ASSUME NEW k \in 1..N, k - 1 \in T, l <= k PROVE F[l] <= F[k]
      OBVIOUS
    <3>1. k - 1 \in 0..N /\ k \in 0..N /\ F[k - 1] \in Nat /\ F[k] \in Nat /\ F[l] \in Nat
          /\ s[k] \in Nat /\ F[k] = F[k - 1] + s[k]
      BY <1>1
    <3>2. CASE l = k
      BY <3>1, <3>2
    <3>3. CASE l <= k - 1
      <4>1. k - 1 \in 0..N /\ (l <= k - 1 => F[l] <= F[k - 1])
        OBVIOUS
      <4> DEFINE a == F[l]
                 b == F[k - 1]
                 c == F[k]
      <4>2. a \in Nat /\ b \in Nat /\ s[k] \in Nat /\ c = b + s[k] /\ a <= b
        BY <3>1, <3>3, <4>1
      <4> HIDE DEF a, b, c
      <4>3. a <= c
        BY <4>2
      <4> QED
        BY <4>3 DEF a, c
    <3> QED
      BY <1>1, <3>2, <3>3
  <2> HIDE DEF T
  <2>3. 0..N \subseteq T
    BY <1>1, <2>1, <2>2, Steps
  <2> QED
    BY <2>3 DEF T
<1>3. m \in 0..N /\ n \in 0..N
  BY DEF N
<1>4. ASSUME m < n PROVE F[m] + s[m + 1] <= F[n]
  <2>1. m + 1 \in 0..N /\ m + 1 \in 1..N /\ (m + 1) - 1 = m /\ m + 1 <= n
    BY <1>1, <1>3, <1>4
  <2>2. F[m + 1] <= F[n] /\ F[m + 1] = F[m] + s[m + 1]
    BY <1>1, <1>2, <1>3, <2>1
  <2> QED
    BY <2>2
<1> QED
  BY <1>2, <1>3, <1>4 DEF F

\* The sequences that a recursive function builds are what they should be.
LEMMA CopiedOfTyped ==
  ASSUME NEW ev \in Seq(Fragment), NEW n
  PROVE  CopiedOf(ev, n) \in Seq(Fragment)
<1> DEFINE N == Len(ev)
           S == Seq(Fragment)
           Grown(k, x) == IF ev[k].node = n THEN Append(x, ev[k]) ELSE x
           Is(f) == f = [k \in 0..N |-> IF k = 0 THEN <<>> ELSE Grown(k, f[k - 1])]
           g == [k \in 1..N |-> [x \in S |-> Grown(k, x)]]
<1>1. N \in Nat /\ \A k \in 1..N : ev[k] \in Fragment
  BY LenProperties, ElementOfSeq
<1>2. <<>> \in S /\ \A x \in S, y \in Fragment : Append(x, y) \in S
  BY EmptySeq, AppendProperties
<1>3. \A k \in 1..N, x \in S : Grown(k, x) \in S
  <2> HIDE DEF S
  <2> QED
    BY <1>1, <1>2
<1>4. CopiedOf(ev, n) = (CHOOSE f : Is(f))[N]
  BY DEF CopiedOf
<1> HIDE DEF N, S, Grown
<1>5. g \in [1..N -> [S -> S]]
  BY <1>3
<1>6. PICK e : Iterates(e, S, <<>>, N, g)
  <2> HIDE DEF g
  <2> QED
    BY <1>1, <1>2, <1>5, Recursion
<1>7. e \in [0..N -> S] /\ e[0] = <<>> /\ \A k \in 1..N : e[k] = g[k][e[k - 1]]
  <2> HIDE DEF g
  <2> QED
    BY <1>6 DEF Iterates
<1>8. Is(e)
  <2>1. ASSUME NEW k \in 1..N PROVE e[k] = Grown(k, e[k - 1])
    <3>1. k - 1 \in 0..N
      BY <1>1
    <3>2. e[k - 1] \in S
      BY <1>7, <3>1
    <3>3. g[k][e[k - 1]] = Grown(k, e[k - 1])
      BY <3>2
    <3> HIDE DEF g
    <3> QED
      BY <1>7, <3>3
  <2> HIDE DEF g
  <2> QED
    BY <1>1, <1>7, <2>1
<1> DEFINE F == CHOOSE f : Is(f)
<1>9. Is(F)
  BY <1>8
<1> HIDE DEF F
<1>10. F[0] = <<>> /\ \A k \in 1..N : F[k] = Grown(k, F[k - 1])
  BY <1>1, <1>9
<1>11. F[0] \in S /\ \A k \in 1..N : F[k - 1] \in S => F[k] \in S
  BY <1>1, <1>2, <1>3, <1>10
<1>12. \A k \in 0..N : F[k] \in S
  BY <1>1, <1>11, Values
<1> QED
  BY <1>1, <1>4, <1>12 DEF F, S

LEMMA FlattenTyped ==
  ASSUME NEW E, NEW s \in Seq(Seq(E))
  PROVE  FlattenSeq(s) \in Seq(E)
<1> DEFINE N == Len(s)
           S == Seq(E)
           Is(f) == f = [k \in 1..N |-> IF k = 1 THEN s[k] ELSE f[k - 1] \o s[k]]
           g == [k \in 1..N |-> [x \in S |-> x \o s[k]]]
<1>1. N \in Nat /\ \A k \in 1..N : s[k] \in S
  BY LenProperties, ElementOfSeq
<1>2. <<>> \in S /\ \A x \in S, y \in S : x \o y \in S
  BY EmptySeq, ConcatProperties
<1>3. \A x \in S : <<>> \o x = x
  BY ConcatEmptySeq
<1>4. CASE N = 0
  <2>1. FlattenSeq(s) = s /\ s = <<>>
    BY <1>4, EmptySeq DEF FlattenSeq
  <2> QED
    BY <1>2, <2>1
<1>5. CASE N # 0
  <2> HIDE DEF S
  <2>1. FlattenSeq(s) = (CHOOSE f : Is(f))[N]
    BY <1>5 DEF FlattenSeq
  <2> HIDE DEF N
  <2>2. g \in [1..N -> [S -> S]]
    BY <1>1, <1>2
  <2>3. PICK e : Iterates(e, S, <<>>, N, g)
    <3> HIDE DEF g
    <3> QED
      BY <1>1, <1>2, <2>2, Recursion
  <2>4. e \in [0..N -> S] /\ e[0] = <<>> /\ \A k \in 1..N : e[k] = g[k][e[k - 1]]
    <3> HIDE DEF g
    <3> QED
      BY <2>3 DEF Iterates
  <2>5. ASSUME NEW k \in 1..N PROVE e[k] = e[k - 1] \o s[k]
    <3>1. k - 1 \in 0..N
      BY <1>1
    <3>2. e[k - 1] \in S
      BY <2>4, <3>1
    <3>3. g[k][e[k - 1]] = e[k - 1] \o s[k]
      BY <3>2
    <3> HIDE DEF g
    <3> QED
      BY <2>4, <3>3
  <2> DEFINE h == [k \in 1..N |-> e[k]]
  <2>6. Is(h)
    <3>1. ASSUME NEW k \in 1..N PROVE h[k] = IF k = 1 THEN s[k] ELSE h[k - 1] \o s[k]
      <4>1. CASE k = 1
        <5>1. k - 1 = 0 /\ e[k - 1] = <<>>
          BY <2>4, <4>1
        <5>2. h[k] = <<>> \o s[k]
          BY <2>5, <5>1
        <5> QED
          BY <1>1, <1>3, <4>1, <5>2
      <4>2. CASE k # 1
        <5>1. k - 1 \in 1..N
          BY <1>1, <4>2
        <5> QED
          BY <2>5, <4>2, <5>1
      <4> QED
        BY <4>1, <4>2
    <3> QED
      BY <3>1
  <2> HIDE DEF h
  <2> DEFINE F == CHOOSE f : Is(f)
  <2>7. Is(F)
    BY <2>6
  <2> HIDE DEF F
  <2>8. \A k \in 1..N : F[k] = IF k = 1 THEN s[k] ELSE F[k - 1] \o s[k]
    BY <2>7
  <2> DEFINE G == [k \in 0..N |-> IF k = 0 THEN <<>> ELSE F[k]]
  <2>9. G[0] \in S /\ \A k \in 1..N : G[k - 1] \in S => G[k] \in S
    <3>1. G[0] = <<>> /\ \A k \in 1..N : G[k] = F[k]
      BY <1>1
    <3>2. ASSUME NEW k \in 1..N, G[k - 1] \in S PROVE G[k] \in S
      <4>1. CASE k = 1
        BY <1>1, <2>8, <3>1, <4>1
      <4>2. CASE k # 1
        <5>1. G[k - 1] = F[k - 1]
          BY <1>1, <4>2
        <5> QED
          BY <1>1, <1>2, <2>8, <3>1, <3>2, <4>2, <5>1
      <4> QED
        BY <4>1, <4>2
    <3> QED
      BY <1>2, <3>1, <3>2
  <2> HIDE DEF G
  <2>10. \A k \in 0..N : G[k] \in S
    BY <1>1, <2>9, Values
  <2>11. G[N] = F[N]
    BY <1>1, <1>5 DEF G, N
  <2> QED
    BY <1>1, <2>1, <2>10, <2>11 DEF F, S
<1> QED
  BY <1>4, <1>5

LEMMA CopiedTyped ==
  ASSUME NEW ev \in Seq(Fragment)
  PROVE  Copied(ev) \in Seq(Fragment)
<1>1. [n \in DOMAIN Nodes |-> CopiedOf(ev, Nodes[n])] \in Seq(Seq(Fragment))
  <2>1. DOMAIN Nodes = 1..Len(Nodes) /\ Len(Nodes) \in Nat
    BY NodesAssumption, LenProperties
  <2>2. [n \in DOMAIN Nodes |-> CopiedOf(ev, Nodes[n])] \in [1..Len(Nodes) -> Seq(Fragment)]
    BY <2>1, CopiedOfTyped
  <2> QED
    BY <2>1, <2>2, SeqDef
<1> QED
  BY <1>1, FlattenTyped DEF Copied
-----------------------------------------------------------------------------
\* The totals of the fragments of a message.
LEMMA Fragments ==
  ASSUME NEW f \in Fragment PROVE f.len \in Lens /\ f.len \in Nat /\ f.size \in Nat
<1>1. PICK l \in Lens : f \in [node : Ids, len : {l},
                              size : {RHead + l} \cup {x \in Shorts : x < RHead + l}]
  BY DEF Fragment
<1>2. f.len = l /\ f.size \in {RHead + l} \cup {x \in Shorts : x < RHead + l}
  BY <1>1
<1>3. f.size = RHead + l \/ f.size \in Shorts
  BY <1>2
<1>4. RHead + l \in Nat /\ Shorts \subseteq Nat
  BY SizeAssumption
<1> QED
  BY <1>2, <1>3, <1>4, SizeAssumption

LEMMA SizesAre ==
  ASSUME NEW fr \in Seq(Fragment)
  PROVE  /\ Len(fr) \in Nat /\ Sizes(fr) \in [0..Len(fr) -> Nat] /\ Sizes(fr)[0] = 0
         /\ \A k \in 1..Len(fr) :
              /\ fr[k].len \in Nat /\ fr[k].size \in Nat
              /\ Sizes(fr)[k] = Sizes(fr)[k - 1] + fr[k].size
         /\ \A m, n \in 0..Len(fr) :
              /\ m <= n => Sizes(fr)[m] <= Sizes(fr)[n]
              /\ m < n => Sizes(fr)[m] + fr[m + 1].size <= Sizes(fr)[n]
<1> DEFINE N == Len(fr)
           s == [k \in 1..N |-> fr[k].size]
<1>1. /\ N \in Nat /\ DOMAIN fr = 1..N
      /\ \A k \in 1..N : fr[k].len \in Nat /\ fr[k].size \in Nat
  <2>1. \A k \in 1..N : fr[k] \in Fragment
    BY ElementOfSeq
  <2> QED
    BY <2>1, Fragments, LenProperties
<1>2. s \in Seq(Nat) /\ Len(s) = N
  <2>1. s \in [1..N -> Nat]
    BY <1>1
  <2> HIDE DEF s
  <2>2. s \in Seq(Nat)
    BY <1>1, <2>1, SeqDef
  <2> QED
    BY <1>1, <2>1, <2>2, LenProperties
<1>3. Sizes(fr) = Sums(s)
  BY <1>1 DEF Sizes
<1>4. \A k \in 1..N : s[k] = fr[k].size
  OBVIOUS
<1> HIDE DEF s
<1>5. /\ Sums(s) \in [0..N -> Nat] /\ Sums(s)[0] = 0
      /\ \A k \in 1..N : Sums(s)[k] = Sums(s)[k - 1] + s[k]
  BY <1>2, SumsAre
<1>6. \A m, n \in 0..N :
        /\ m <= n => Sums(s)[m] <= Sums(s)[n]
        /\ m < n => Sums(s)[m] + s[m + 1] <= Sums(s)[n]
  BY <1>2, SumsGrow
<1>7. ASSUME NEW m \in 0..N, NEW n \in 0..N, m < n
      PROVE  Sums(s)[m] + fr[m + 1].size <= Sums(s)[n]
  <2>1. m + 1 \in 1..N
    BY <1>1, <1>7
  <2>2. s[m + 1] = fr[m + 1].size
    BY <1>4, <2>1
  <2>3. Sums(s)[m] + s[m + 1] <= Sums(s)[n]
    BY <1>6, <1>7
  <2> QED
    BY <2>2, <2>3
<1>8. ASSUME NEW k \in 1..N PROVE Sums(s)[k] = Sums(s)[k - 1] + fr[k].size
  BY <1>4, <1>5
<1> QED
  BY <1>1, <1>3, <1>5, <1>6, <1>7, <1>8

\* A message is packed from an event; while no fragment was cut, the walk is on the
\* fragment headers.
Packed ==
  /\ event \in Seq(Fragment) /\ message = Pack(event)

EntireTo(k) == k <= Len(message.frags) /\ \A f \in 1..k : Entire(message.frags[f])

Walk ==
  /\ message.frags \in Seq(Fragment) /\ message.length = SizeOf(message.frags)
  /\ message.length \in Nat /\ room = PHead + message.length
  /\ message.nodes \in Nat /\ i \in Nat /\ i <= message.nodes /\ body \in Nat
  /\ EntireTo(i) => body = Boundary(message, i + 1)
  /\ heads \in Seq(Nat) /\ Len(heads) = i
  /\ \A k \in 1..i : EntireTo(k - 1) =>
        k <= Len(message.frags) /\ heads[k] = Boundary(message, k)
  /\ at = "truncated" => i < message.nodes /\ PastEnd

WalkInv ==
  /\ prog = "record" => (event = <<>> <=> at = "send")
  /\ prog # "record" => event = <<>>
  /\ event # <<>> => Packed /\ Walk /\ at \in {"walk", "checked", "truncated"}

LEMMA LengthTyped ==
  ASSUME NEW fr \in Seq(Fragment) PROVE SizeOf(fr) \in Nat
<1>1. Sizes(fr) \in [0..Len(fr) -> Nat] /\ Len(fr) \in 0..Len(fr)
  BY SizesAre
<1> QED
  BY <1>1 DEF SizeOf

LEMMA PackFields ==
  ASSUME NEW ev \in Seq(Fragment)
  PROVE  /\ Pack(ev).frags = Copied(ev) /\ Pack(ev).frags \in Seq(Fragment)
         /\ Pack(ev).length = SizeOf(Pack(ev).frags) /\ Pack(ev).length \in Nat
         /\ Pack(ev).nodes = Len(ev) /\ Len(ev) \in Nat
BY CopiedTyped, LengthTyped, LenProperties DEF Pack

\* The length test lets through only places in front of a fragment.
LEMMA InFront ==
  ASSUME Walk, EntireTo(i), ~PastEnd
  PROVE  /\ i < Len(message.frags) /\ body = PHead + Sizes(message.frags)[i]
         /\ Sizes(message.frags)[i] \in Nat
<1> DEFINE n == Len(message.frags)
           sz == Sizes(message.frags)
<1>1. n \in Nat /\ sz \in [0..n -> Nat] /\ message.length = sz[n] /\ i \in 0..n
  BY SizesAre DEF Walk, SizeOf, EntireTo
<1>2. body = PHead + sz[i]
  <2>1. body = Boundary(message, i + 1) /\ (i + 1) - 1 = i
    BY <1>1 DEF Walk
  <2> QED
    BY <2>1 DEF Boundary
<1>3. body < message.length
  BY <1>1, <1>2, SizeAssumption DEF PastEnd
<1>4. i # n
  BY <1>1, <1>2, <1>3, SizeAssumption
<1> QED
  BY <1>1, <1>2, <1>4

\* What the walk reads there is the length of that fragment, if its header is there.
LEMMA TrueLength ==
  ASSUME Walk, EntireTo(i), i < Len(message.frags), Entire(message.frags[i + 1])
  PROVE  LenAt(message, body) = {message.frags[i + 1].len}
<1> DEFINE n == Len(message.frags)
           sz == Sizes(message.frags)
           here == {k \in DOMAIN message.frags : /\ Boundary(message, k) = body
                                                 /\ message.frags[k].size >= RHead}
<1>1. /\ n \in Nat /\ i \in 0..n /\ i + 1 \in 1..n /\ (i + 1) - 1 = i /\ DOMAIN message.frags = 1..n
      /\ body = Boundary(message, i + 1)
  <2>1. n \in Nat /\ DOMAIN message.frags = 1..n
    BY LenProperties DEF Walk
  <2> QED
    BY <2>1 DEF Walk
<1>2. /\ sz \in [0..n -> Nat]
      /\ \A l, m \in 0..n : l < m => sz[l] + message.frags[l + 1].size <= sz[m]
      /\ \A l \in 1..n : message.frags[l].len \in Nat /\ message.frags[l].size \in Nat
  BY SizesAre DEF Walk
<1>3. message.frags[i + 1].size >= RHead
  BY <1>1, <1>2, SizeAssumption DEF Entire
<1>4. ASSUME NEW l \in 0..n, NEW m \in 0..n, l < m, message.frags[l + 1].size >= RHead
      PROVE  sz[l] # sz[m]
  <2>1. l + 1 \in 1..n
    BY <1>1, <1>4
  <2> DEFINE a == sz[l]
             b == sz[m]
             c == message.frags[l + 1].size
  <2>2. a \in Nat /\ b \in Nat /\ c \in Nat /\ a + c <= b /\ c >= RHead
    BY <1>2, <1>4, <2>1
  <2> HIDE DEF a, b, c
  <2>3. a # b
    BY <2>2, SizeAssumption
  <2> QED
    BY <2>3 DEF a, b
<1>5. ASSUME NEW k \in 1..n, Boundary(message, k) = body, message.frags[k].size >= RHead
      PROVE  k = i + 1
  <2>1. k - 1 \in 0..n /\ (k - 1) + 1 = k
    BY <1>1
  <2>2. sz[k - 1] \in Nat /\ sz[i] \in Nat /\ PHead + sz[k - 1] = PHead + sz[i]
    BY <1>1, <1>2, <1>5, <2>1 DEF Boundary
  <2>3. sz[k - 1] = sz[i]
    BY <2>2, SizeAssumption
  <2>4. ~(k - 1 < i)
    BY <1>1, <1>4, <1>5, <2>1, <2>3
  <2>5. ~(i < k - 1)
    BY <1>1, <1>3, <1>4, <2>1, <2>3
  <2> QED
    BY <1>1, <2>1, <2>4, <2>5
<1>6. here = {i + 1}
  BY <1>1, <1>3, <1>5
<1> HIDE DEF here
<1>7. LenAt(message, body) = IF here = {} THEN Lens ELSE {message.frags[k].len : k \in here}
  BY DEF LenAt, here
<1> QED
  BY <1>6, <1>7

LEMMA LensAt ==
  ASSUME Walk PROVE LenAt(message, body) \subseteq Nat
<1>1. \A k \in DOMAIN message.frags : message.frags[k].len \in Nat
  BY SizesAre, LenProperties DEF Walk
<1> QED
  BY <1>1, SizeAssumption DEF LenAt

LEMMA SendWalk ==
  ASSUME Send PROVE event' # <<>> /\ Packed' /\ Walk' /\ at' = "walk"
<1>1. event' \in Seq(Fragment) /\ event' # <<>>
  <2>1. event' \in SeqOf(Fragment, MaxFrags) /\ event' # <<>>
    BY DEF Send, Events
  <2>2. PICK n \in 0..MaxFrags : event' \in [1..n -> Fragment]
    BY <2>1 DEF SeqOf
  <2>3. n \in Nat
    BY SizeAssumption
  <2> QED
    BY <2>1, <2>2, <2>3, SeqDef
<1>2. /\ message' = Pack(event') /\ i' = 0 /\ body' = PHead /\ heads' = <<>> /\ at' = "walk"
      /\ room' = PHead + message'.length
  BY DEF Send, CheckData
<1>3. /\ message'.frags \in Seq(Fragment) /\ message'.length = SizeOf(message'.frags)
      /\ message'.nodes \in Nat /\ message'.length \in Nat
  BY <1>1, <1>2, PackFields
<1>4. body' = Boundary(message', i' + 1)
  <2>1. Sizes(message'.frags)[0] = 0 /\ (0 + 1) - 1 = 0
    BY <1>3, SizesAre
  <2> QED
    BY <1>2, <2>1, SizeAssumption DEF Boundary
<1>5. heads' \in Seq(Nat) /\ Len(heads') = 0
  BY <1>2, EmptySeq
<1>6. Walk'
  BY <1>2, <1>3, <1>4, <1>5, SizeAssumption DEF Walk
<1> QED
  BY <1>1, <1>2, <1>6 DEF Packed

LEMMA OnWalk ==
  ASSUME Packed, Walk, WalkOn PROVE Walk'
<1>1. /\ at = "walk" /\ i < message.nodes /\ ~PastEnd /\ heads' = Append(heads, body)
      /\ i' = i + 1 /\ UNCHANGED <<event, message, room, at>>
  BY DEF WalkOn
<1> DEFINE fr == message.frags
           n == Len(fr)
<1>2. n \in Nat /\ fr \in Seq(Fragment) /\ i \in Nat /\ i' \in Nat /\ i' <= message.nodes
  <2>1. fr \in Seq(Fragment) /\ i \in Nat /\ message.nodes \in Nat
    BY DEF Walk
  <2> QED
    BY <1>1, <2>1, LenProperties
<1>3. PICK len \in LenAt(message, body) : body' = body + Stride(len)
  BY DEF WalkOn
<1>4. body' = body + len + RHead /\ len \in Nat /\ body \in Nat /\ body' \in Nat
  <2>1. len \in Nat /\ body \in Nat
    BY <1>3, LensAt DEF Walk
  <2> QED
    BY <1>3, <2>1, SizeAssumption DEF Stride
<1>5. \A k : EntireTo(k)' <=> EntireTo(k)
  BY <1>1 DEF EntireTo
<1>6. EntireTo(i + 1) => body' = Boundary(message, (i + 1) + 1)
  <2> SUFFICES ASSUME EntireTo(i + 1) PROVE body' = Boundary(message, (i + 1) + 1)
    OBVIOUS
  <2>1. EntireTo(i) /\ i < n /\ i + 1 \in 1..n /\ Entire(fr[i + 1]) /\ (i + 1) - 1 = i
        /\ ((i + 1) + 1) - 1 = i + 1
    <3>1. i + 1 <= n /\ i + 1 \in 1..(i + 1) /\ 1..i \subseteq 1..(i + 1)
      BY <1>2 DEF EntireTo
    <3> QED
      BY <1>2, <3>1 DEF EntireTo
  <2>2. body = PHead + Sizes(fr)[i] /\ Sizes(fr)[i] \in Nat
    BY <1>1, <2>1, InFront
  <2>3. len = fr[i + 1].len
    BY <1>3, <2>1, TrueLength
  <2>4. Sizes(fr)[i + 1] = Sizes(fr)[i] + fr[i + 1].size
    BY <1>2, <2>1, SizesAre
  <2>5. fr[i + 1].size = RHead + len
    BY <2>1, <2>3 DEF Entire
  <2>6. body' = PHead + Sizes(fr)[i + 1]
    BY <1>4, <2>2, <2>4, <2>5, SizeAssumption
  <2> QED
    BY <2>1, <2>6 DEF Boundary
<1>7. heads \in Seq(Nat) /\ Len(heads) = i
  BY DEF Walk
<1>8. /\ heads' \in Seq(Nat) /\ Len(heads') = i + 1 /\ heads'[i + 1] = body
      /\ \A k \in 1..i : heads'[k] = heads[k]
  BY <1>1, <1>4, <1>7, AppendProperties
<1>9. ASSUME NEW k \in 1..(i + 1), EntireTo(k - 1) PROVE k <= n /\ heads'[k] = Boundary(message, k)
  <2>1. CASE k = i + 1
    <3>1. k - 1 = i
      BY <1>2, <2>1
    <3>2. EntireTo(i)
      BY <1>9, <3>1
    <3>3. i < n
      BY <1>1, <3>2, InFront
    <3>4. body = Boundary(message, i + 1)
      BY <3>2 DEF Walk
    <3> QED
      BY <1>2, <1>8, <2>1, <3>3, <3>4
  <2>2. CASE k # i + 1
    <3>1. k \in 1..i
      BY <1>2, <2>2
    <3>2. k <= n /\ heads[k] = Boundary(message, k)
      BY <1>9, <3>1 DEF Walk
    <3> QED
      BY <1>8, <3>1, <3>2
  <2> QED
    BY <2>1, <2>2
<1> QED
  BY <1>1, <1>2, <1>4, <1>5, <1>6, <1>8, <1>9 DEF Walk

\* In a message off the queue the length test alone keeps the walk inside.
LEMMA NoCrash ==
  ASSUME Walk PROVE ~WalkCrashes
<1> SUFFICES ASSUME WalkCrashes PROVE FALSE
  OBVIOUS
<1>1. ~(body >= message.length) /\ ~(body + RHead <= room)
  BY DEF WalkCrashes, PastEnd, Inside
<1>2. body \in Nat /\ message.length \in Nat /\ room = PHead + message.length
  BY DEF Walk
<1> DEFINE l == message.length
<1>3. l \in Nat /\ ~(body >= l) /\ ~(body + RHead <= PHead + l)
  BY <1>1, <1>2
<1> HIDE DEF l
<1> QED
  BY <1>2, <1>3, SizeAssumption

LEMMA WalkingStep ==
  ASSUME Packed, Walk, Walking
  PROVE  Packed' /\ Walk' /\ at' \in {"walk", "checked", "truncated"} /\ event' = event
<1>1. CASE WalkOn
  <2>1. UNCHANGED <<event, message, at>> /\ at = "walk"
    BY <1>1 DEF WalkOn
  <2> QED
    BY <1>1, <2>1, OnWalk DEF Packed
<1>2. CASE WalkBreaks
  <2>1. UNCHANGED <<event, message, room, i, body, heads>> /\ at' = "truncated"
        /\ i < message.nodes /\ PastEnd
    BY <1>2 DEF WalkBreaks
  <2>2. (\A k : EntireTo(k)' <=> EntireTo(k)) /\ (PastEnd' <=> PastEnd)
    BY <2>1 DEF EntireTo, PastEnd
  <2> QED
    BY <2>1, <2>2 DEF Packed, Walk
<1>3. CASE WalkEnds
  <2>1. UNCHANGED <<event, message, room, i, body, heads>> /\ at' = "checked"
    BY <1>3 DEF WalkEnds
  <2>2. \A k : EntireTo(k)' <=> EntireTo(k)
    BY <2>1 DEF EntireTo
  <2> QED
    BY <2>1, <2>2 DEF Packed, Walk
<1> QED
  BY <1>1, <1>2, <1>3, NoCrash DEF Walking

LEMMA WalkStep == WalkInv /\ [Next]_vars => WalkInv'
<1> SUFFICES ASSUME WalkInv, [Next]_vars PROVE WalkInv'
  OBVIOUS
<1>1. CASE UNCHANGED <<walkvars, prog>>
  <2>1. UNCHANGED <<event, message, room, i, body, heads, at, prog>>
    BY <1>1 DEF walkvars
  <2>2. (\A k : EntireTo(k)' <=> EntireTo(k)) /\ (PastEnd' <=> PastEnd)
    BY <2>1 DEF EntireTo, PastEnd
  <2>3. (Packed' <=> Packed) /\ (Walk' <=> Walk)
    BY <2>1, <2>2 DEF Packed, Walk
  <2> QED
    BY <2>1, <2>3 DEF WalkInv
<1>2. CASE Receive /\ Send
  <2>1. prog = "record" /\ prog' = "record"
    BY <1>2 DEF Receive
  <2> QED
    BY <1>2, <2>1, SendWalk DEF WalkInv
<1>3. CASE Receive /\ Walking
  <2>1. prog = "record" /\ at # "send"
    BY <1>3 DEF Receive, Walking, WalkOn, WalkCrashes, WalkBreaks, WalkEnds
  <2>2. event # <<>> /\ Packed /\ Walk
    BY <2>1 DEF WalkInv
  <2>3. Packed' /\ Walk' /\ at' \in {"walk", "checked", "truncated"} /\ event' = event
    BY <1>3, <2>2, WalkingStep
  <2> QED
    BY <1>3, <2>2, <2>3 DEF WalkInv, Receive
<1>4. CASE Record \/ Kill
  <2>1. event' = <<>> /\ at' = "send"
    BY <1>4 DEF Record, Kill, Forget
  <2> QED
    BY <2>1 DEF WalkInv
<1>5. CASE Reader
  <2>1. prog # "record" /\ prog' # "record"
    BY <1>5 DEF Reader, CheckHeader, CheckBody, CheckFails, ReadHeader, ReadBody, ReadWalk,
       ReadNext, Goes
  <2>2. event' = event \/ event' = <<>>
    BY <1>5 DEF Reader, CheckHeader, CheckBody, CheckFails, ReadHeader, ReadBody, ReadWalk,
       ReadNext, Walking, WalkOn, WalkCrashes, WalkBreaks, WalkEnds, Forget, walkvars
  <2> QED
    BY <2>1, <2>2 DEF WalkInv
<1> QED
  BY <1>1, <1>2, <1>3, <1>4, <1>5 DEF Next, Receive, vars

LEMMA WalkInvariant == Spec => []WalkInv
<1>1. Init => WalkInv
  BY DEF Init, PackInit, WalkInv
<1> QED
  BY <1>1, WalkStep, PTL DEF Spec

\* What the walk over a message off the queue takes for the k-th header is the k-th
\* header, for any event, as long as no fragment in front was cut
\* (ebreceiver.cxx:80-104, dteb.cxx:589-601).
THEOREM WalkOnHeaders == Spec => []WalkAligned
<1>1. ASSUME WalkInv PROVE WalkAligned
  <2> SUFFICES ASSUME event # <<>>, NEW k \in DOMAIN heads,
                      \A f \in DOMAIN message.frags : f < k => Entire(message.frags[f])
               PROVE  k \in DOMAIN message.frags /\ heads[k] = Boundary(message, k)
    BY DEF WalkAligned
  <2> DEFINE n == Len(message.frags)
  <2>1. Walk
    BY <1>1 DEF WalkInv
  <2>2. DOMAIN heads = 1..i /\ DOMAIN message.frags = 1..n /\ n \in Nat /\ i \in Nat
    BY <2>1, LenProperties DEF Walk
  <2> HIDE DEF n
  <2>3. ASSUME k - 1 <= n PROVE EntireTo(k - 1)
    <3>1. \A f \in 1..(k - 1) : f \in 1..n /\ f < k
      BY <2>2, <2>3
    <3> QED
      BY <2>2, <2>3, <3>1 DEF EntireTo, n
  <2>4. k - 1 <= n => k <= n /\ heads[k] = Boundary(message, k)
    BY <2>1, <2>2, <2>3 DEF Walk, n
  <2>5. k <= n
    <3> SUFFICES ASSUME k > n PROVE FALSE
      BY <2>2
    <3>1. n + 1 \in 1..i /\ (n + 1) - 1 = n
      BY <2>2
    <3>2. EntireTo(n)
      <4>1. \A f \in 1..n : f < k
        BY <2>2
      <4> QED
        BY <2>2, <4>1 DEF EntireTo, n
    <3>3. n + 1 <= n
      BY <2>1, <3>1, <3>2 DEF Walk, n
    <3> QED
      BY <2>2, <3>3
  <2> QED
    BY <2>2, <2>4, <2>5
<1> QED
  BY <1>1, WalkInvariant, PTL

\* The length test, 16 bytes too strict, costs a message without cut fragments or
\* fragments of unknown ids at most the header of its last fragment, and only if that
\* has hardly a body; two headers are more than the message's own (ebreceiver.cxx:84).
THEOREM StopsAtMostOneEarly == Spec => []LosesOnlyTinyTail
<1>1. ASSUME WalkInv PROVE LosesOnlyTinyTail
  <2> SUFFICES ASSUME event # <<>>, at = "truncated", Len(message.frags) = message.nodes,
                      \A f \in DOMAIN message.frags : Entire(message.frags[f])
               PROVE  /\ i = message.nodes - 1
                      /\ RHead + Last(message.frags).len <= PHead
    BY DEF LosesOnlyTinyTail
  <2> DEFINE fr == message.frags
             n == Len(fr)
  <2>1. Walk /\ i < n /\ PastEnd
    BY <1>1 DEF WalkInv, Walk
  <2>2. n \in Nat /\ i \in 0..n /\ fr \in Seq(Fragment) /\ message.length = Sizes(fr)[n]
        /\ DOMAIN fr = 1..n
    BY <2>1, LenProperties DEF Walk, SizeOf
  <2>3. i + 1 \in 1..n /\ (i + 1) - 1 = i /\ n \in 0..n /\ n - 1 \in 0..n /\ n \in 1..n
    BY <2>1, <2>2
  <2>4. body = PHead + Sizes(fr)[i] /\ body >= Sizes(fr)[n]
    <3>1. EntireTo(i)
      BY <2>1, <2>2 DEF EntireTo
    <3> QED
      BY <2>1, <2>2, <2>3, <3>1 DEF Walk, Boundary, PastEnd
  <2>5. /\ Sizes(fr)[i] \in Nat /\ Sizes(fr)[n - 1] \in Nat /\ Sizes(fr)[n] \in Nat
        /\ fr[n].len \in Nat /\ fr[i + 1].len \in Nat
        /\ fr[n].size = RHead + fr[n].len /\ fr[i + 1].size = RHead + fr[i + 1].len
        /\ Sizes(fr)[n] = Sizes(fr)[n - 1] + fr[n].size
    BY <2>2, <2>3, SizesAre DEF Entire
  <2> DEFINE a == Sizes(fr)[i]
             b == Sizes(fr)[n - 1]
             c == Sizes(fr)[n]
             l == fr[i + 1].len
             m == fr[n].len
  <2>6. /\ a \in Nat /\ b \in Nat /\ c \in Nat /\ l \in Nat /\ m \in Nat
        /\ PHead + a >= c /\ c = b + (RHead + m)
    BY <2>4, <2>5
  <2>7. i < n - 1 => a + (RHead + l) <= b
    BY <2>2, <2>3, <2>5, SizesAre
  <2>8. i = n - 1 => a = b
    OBVIOUS
  <2> HIDE DEF a, b, c, l, m
  <2>9. i = n - 1
    <3> SUFFICES ASSUME i # n - 1 PROVE FALSE
      OBVIOUS
    <3>1. i < n - 1
      BY <2>1, <2>2
    <3> QED
      BY <2>6, <2>7, <3>1, SizeAssumption
  <2>10. RHead + m <= PHead
    BY <2>6, <2>8, <2>9, SizeAssumption
  <2> QED
    BY <2>9, <2>10 DEF Last, m
<1> QED
  BY <1>1, WalkInvariant, PTL
-----------------------------------------------------------------------------
(***************************************************************************)
(* The file, and checkleb on it.                                           *)
(***************************************************************************)
LEMMA SumsAppend ==
  ASSUME NEW s \in Seq(Nat), NEW x \in Nat
  PROVE  /\ Append(s, x) \in Seq(Nat) /\ Len(Append(s, x)) = Len(s) + 1
         /\ Sums(Append(s, x))[Len(s) + 1] = Sums(s)[Len(s)] + x
<1> DEFINE t == Append(s, x)
           N == Len(s)
<1>1. /\ t \in Seq(Nat) /\ Len(t) = N + 1 /\ N \in Nat /\ t[N + 1] = x
      /\ \A k \in 1..N : t[k] = s[k]
  BY AppendProperties, LenProperties
<1> HIDE DEF t
<1> DEFINE F == Sums(s)
           G == Sums(t)
<1>2. F[0] = 0 /\ \A k \in 1..N : F[k] = F[k - 1] + s[k]
  BY SumsAre
<1>3. G[0] = 0 /\ \A k \in 1..(N + 1) : G[k] = G[k - 1] + t[k]
  BY <1>1, SumsAre
<1> HIDE DEF F, G, N
<1>4. \A k \in 0..N : G[k] = F[k]
  <2> DEFINE T == {k \in 0..N : G[k] = F[k]}
  <2>1. 0 \in T
    BY <1>1, <1>2, <1>3
  <2>2. ASSUME NEW k \in 1..N, k - 1 \in T PROVE k \in T
    <3>1. k \in 1..(N + 1)
      BY <1>1
    <3>2. G[k] = G[k - 1] + t[k] /\ F[k] = F[k - 1] + s[k] /\ t[k] = s[k]
      BY <1>1, <1>2, <1>3, <3>1
    <3> QED
      BY <2>2, <3>2
  <2> HIDE DEF T
  <2>3. 0..N \subseteq T
    BY <1>1, <2>1, <2>2, Steps
  <2> QED
    BY <2>3 DEF T
<1>5. G[N + 1] = F[N] + x
  <2>1. N + 1 \in 1..(N + 1) /\ (N + 1) - 1 = N /\ N \in 0..N
    BY <1>1
  <2> QED
    BY <1>1, <1>3, <1>4, <2>1
<1> QED
  BY <1>1, <1>5 DEF t, F, G, N

Spans == [q \in DOMAIN file |-> PHead + file[q]]
Total == Sums(Spans)[Len(Spans)]

LEMMA SpansAre ==
  ASSUME file \in Seq(Nat)
  PROVE  /\ Spans \in Seq(Nat) /\ Len(Spans) = Len(file) /\ Len(file) \in Nat
         /\ \A k \in 1..Len(file) : Spans[k] = PHead + file[k] /\ file[k] \in Nat
<1>1. Len(file) \in Nat /\ DOMAIN file = 1..Len(file) /\ \A k \in 1..Len(file) : file[k] \in Nat
  BY LenProperties, ElementOfSeq
<1>2. Spans \in [1..Len(file) -> Nat]
  BY <1>1, SizeAssumption DEF Spans
<1>3. Spans \in Seq(Nat)
  BY <1>1, <1>2, SeqDef
<1>4. Len(Spans) = Len(file)
  BY <1>1, <1>2, <1>3, LenProperties
<1>5. \A k \in 1..Len(file) : Spans[k] = PHead + file[k]
  BY <1>1 DEF Spans
<1> QED
  BY <1>1, <1>3, <1>4, <1>5

\* The messages lie behind each other.
LEMMA StartsAre ==
  ASSUME file \in Seq(Nat)
  PROVE  /\ Len(file) \in Nat /\ Start(1) = 0
         /\ \A k \in 1..(Len(file) + 1) : Start(k) \in Nat
         /\ \A k \in 1..Len(file) : file[k] \in Nat /\ Start(k + 1) = Start(k) + PHead + file[k]
         /\ \A j, k \in 1..(Len(file) + 1) : j < k => Start(j) + PHead <= Start(k)
<1> DEFINE N == Len(file)
           F == Sums(Spans)
<1>1. N \in Nat /\ \A k \in 1..N : Spans[k] = PHead + file[k] /\ file[k] \in Nat
  BY SpansAre
<1>2. F \in [0..N -> Nat] /\ F[0] = 0 /\ \A k \in 1..N : F[k] = F[k - 1] + Spans[k]
  BY SpansAre, SumsAre
<1>3. \A j, k \in 0..N : j < k => F[j] + Spans[j + 1] <= F[k]
  BY SpansAre, SumsGrow
<1>4. \A k : Start(k) = F[k - 1]
  BY DEF Start, Spans
<1> HIDE DEF N, F
<1>5. ASSUME NEW k \in 1..(N + 1) PROVE k - 1 \in 0..N /\ Start(k) \in Nat
  <2>1. k - 1 \in 0..N
    BY <1>1
  <2> QED
    BY <1>2, <1>4, <2>1
<1>6. ASSUME NEW k \in 1..N PROVE Start(k + 1) = Start(k) + PHead + file[k]
  <2>1. (k + 1) - 1 = k /\ k \in 1..(N + 1)
    BY <1>1
  <2>2. Start(k + 1) = Start(k) + Spans[k] /\ Start(k) \in Nat
    BY <1>2, <1>4, <1>5, <2>1
  <2> QED
    BY <1>1, <2>2, SizeAssumption
<1>7. ASSUME NEW j \in 1..(N + 1), NEW k \in 1..(N + 1), j < k
      PROVE  Start(j) + PHead <= Start(k)
  <2>1. j - 1 \in 0..N /\ k - 1 \in 0..N /\ j - 1 < k - 1 /\ (j - 1) + 1 = j /\ j \in 1..N
    BY <1>1, <1>7
  <2>2. Start(j) + Spans[j] <= Start(k)
    BY <1>3, <1>4, <2>1
  <2>3. Start(j) \in Nat /\ Start(k) \in Nat /\ Spans[j] = PHead + file[j] /\ file[j] \in Nat
    BY <1>1, <1>5, <2>1
  <2> QED
    BY <2>2, <2>3, SizeAssumption
<1>8. Start(1) = 0
  <2>1. 1 - 1 = 0
    OBVIOUS
  <2> QED
    BY <1>2, <1>4, <2>1
<1> QED
  BY <1>1, <1>5, <1>6, <1>7, <1>8 DEF N

Shown(m) == \A k \in 1..m : shown[k] = k
\* The headers of m messages are in the file, and no others.
Ends(m) ==
  /\ m \in 0..Len(file) /\ Shown(m)
  /\ \A k \in 1..Len(file) : Start(k) + PHead <= size <=> k <= m

FileInv ==
  /\ file \in Seq(Nat) /\ size \in Nat /\ size <= Total
  /\ shown \in Seq(Nat) /\ header \in Nat
  /\ prog \in {"record", "checkleb header", "checkleb body", "ebreceiver header",
               "ebreceiver body", "ebreceiver walk", "failed", "done"}
  /\ prog = "record" => size = Total /\ pos = 0 /\ eof = FALSE
  /\ prog \in {"record", "ebreceiver header", "ebreceiver body", "ebreceiver walk"} =>
       shown = <<>>

\* checkleb has shown the first m messages.
AtHeader(m) ==
  /\ eof = FALSE /\ Len(shown) = m /\ m <= Len(file) /\ Shown(m)
  /\ pos = Start(m + 1) /\ pos <= size

AtBody(m) ==
  /\ eof = FALSE /\ Len(shown) = m /\ m \in 1..Len(file) /\ Shown(m)
  /\ pos = Start(m) + PHead /\ pos <= size /\ left = file[m]

CheckInv ==
  /\ prog = "checkleb header" => \E m \in Nat : AtHeader(m)
  /\ prog = "checkleb body" =>
       \E m \in Nat : AtBody(m) \/ (eof = TRUE /\ Len(shown) = m + 1 /\ Ends(m))
  /\ prog = "failed" =>
       \E m \in Nat : AtBody(m) \/ (eof = TRUE /\ Len(shown) = m + 1 /\ Ends(m))
  /\ prog = "done" =>
       shown = <<>> \/ \E m \in Nat : Len(shown) \in {m, m + 1} /\ Ends(m)

LEMMA TotalIs ==
  ASSUME FileInv
  PROVE  Total = Start(Len(file) + 1) /\ Total \in Nat
<1>1. file \in Seq(Nat)
  BY DEF FileInv
<1>2. Len(Spans) = Len(file) /\ Len(file) \in Nat /\ Start(Len(file) + 1) \in Nat
  <2>1. Len(Spans) = Len(file) /\ Len(file) \in Nat
    BY <1>1, SpansAre
  <2>2. Len(file) + 1 \in 1..(Len(file) + 1)
    BY <2>1
  <2> QED
    BY <1>1, <2>1, <2>2, StartsAre
<1>3. (Len(file) + 1) - 1 = Len(file)
  BY <1>2
<1> QED
  BY <1>2, <1>3 DEF Total, Start, Spans

LEMMA RecordFile ==
  ASSUME WalkInv, FileInv, Record PROVE FileInv'
<1>1. /\ prog = "record" /\ prog' = "record" /\ file' = Append(file, message.length)
      /\ size' = size + PHead + message.length /\ UNCHANGED readvars
      /\ size = Total
  BY DEF Record, FileInv
<1>2. message.length \in Nat
  <2>1. Walk
    BY DEF WalkInv, Record
  <2> DEFINE fr == message.frags
  <2>2. fr \in Seq(Fragment) /\ message.length = Sizes(fr)[Len(fr)]
    BY <2>1 DEF Walk, SizeOf
  <2>3. Sizes(fr) \in [0..Len(fr) -> Nat] /\ Len(fr) \in 0..Len(fr)
    BY <2>2, SizesAre
  <2> QED
    BY <2>2, <2>3
<1> DEFINE x == message.length
<1>3. /\ file' \in Seq(Nat) /\ Len(file') = Len(file) + 1 /\ file'[Len(file) + 1] = x
      /\ \A k \in 1..Len(file) : file'[k] = file[k]
      /\ Len(file) \in Nat /\ DOMAIN file' = 1..(Len(file) + 1)
  BY <1>1, <1>2, AppendProperties, LenProperties DEF FileInv
<1>4. /\ Spans \in Seq(Nat) /\ Len(Spans) = Len(file) /\ PHead + x \in Nat
      /\ \A k \in 1..Len(file) : Spans[k] = PHead + file[k]
  <2>1. file \in Seq(Nat)
    BY DEF FileInv
  <2>2. PHead + x \in Nat
    BY <1>2, SizeAssumption
  <2> QED
    BY <2>1, <2>2, SpansAre
<1>5. Spans' = Append(Spans, PHead + x)
  <2> DEFINE t == Append(Spans, PHead + x)
  <2>1. /\ t \in Seq(Nat) /\ Len(t) = Len(file) + 1 /\ t[Len(file) + 1] = PHead + x
        /\ \A k \in 1..Len(file) : t[k] = Spans[k]
    BY <1>4, AppendProperties
  <2> HIDE DEF t
  <2>2. Spans' = [q \in 1..(Len(file) + 1) |-> PHead + file'[q]]
    BY <1>3 DEF Spans
  <2>3. t = [q \in 1..(Len(file) + 1) |-> t[q]]
    BY <2>1, LenProperties
  <2>4. \A q \in 1..(Len(file) + 1) : t[q] = PHead + file'[q]
    <3>1. \A q \in 1..(Len(file) + 1) : q \in 1..Len(file) \/ q = Len(file) + 1
      BY <1>3
    <3> QED
      BY <1>3, <1>4, <2>1, <3>1
  <2>5. Spans' = t
    BY <2>2, <2>3, <2>4
  <2> QED
    BY <2>5 DEF t
<1>6. Total' = Total + (PHead + x) /\ Len(Spans') = Len(Spans) + 1
  <2>1. /\ Len(Append(Spans, PHead + x)) = Len(Spans) + 1
        /\ Sums(Append(Spans, PHead + x))[Len(Spans) + 1] = Sums(Spans)[Len(Spans)] + (PHead + x)
    BY <1>4, SumsAppend
  <2> QED
    BY <1>5, <2>1 DEF Total
<1>7. size' = Total' /\ size' \in Nat
  <2>1. Total \in Nat
    BY TotalIs
  <2> QED
    BY <1>1, <1>2, <1>6, <2>1, SizeAssumption
<1> QED
  BY <1>1, <1>3, <1>7 DEF FileInv, readvars

LEMMA KillFile ==
  ASSUME FileInv, Kill PROVE FileInv' /\ CheckInv'
<1>1. /\ prog = "record" /\ prog' \in {"checkleb header", "ebreceiver header"} /\ file' = file
      /\ UNCHANGED readvars /\ shown = <<>> /\ pos = 0 /\ eof = FALSE /\ size = Total
  BY DEF Kill, FileInv
<1>2. PICK c \in Cuts : c <= (IF file = << >> THEN 0 ELSE PHead + Last(file)) /\ size' = size - c
  BY DEF Kill
<1>3. c \in Nat
  BY CutAssumption
<1> DEFINE N == Len(file)
<1>4. file \in Seq(Nat)
  BY DEF FileInv
<1>5. N \in Nat /\ Start(1) = 0 /\ Start(N + 1) = Total /\ Total \in Nat
  BY <1>4, TotalIs, StartsAre
<1>6. c <= Total
  <2>1. CASE file = <<>>
    <3>1. c <= 0
      BY <1>2, <2>1
    <3> QED
      BY <1>3, <1>5, <3>1
  <2>2. CASE file # <<>>
    <3>1. N \in 1..N
      <4>1. N # 0
        BY <1>4, <2>2, EmptySeq
      <4> QED
        BY <1>5, <4>1
    <3>2. /\ file[N] \in Nat /\ Start(N + 1) = Start(N) + PHead + file[N]
          /\ Start(N) \in Nat
      <4>1. N \in 1..(N + 1)
        BY <3>1
      <4> QED
        BY <1>4, <3>1, <4>1, StartsAre
    <3>3. c <= PHead + file[N]
      BY <1>2, <2>2 DEF Last
    <3> QED
      BY <1>3, <1>5, <3>2, <3>3, SizeAssumption
  <2> QED
    BY <2>1, <2>2
<1>7. size' \in Nat /\ size' <= Total'
  <2>1. Total' = Total
    BY <1>1 DEF Total, Spans
  <2> DEFINE t == Total
  <2>2. t \in Nat /\ c <= t /\ size' = t - c
    BY <1>1, <1>2, <1>5, <1>6
  <2> HIDE DEF t
  <2>3. size' \in Nat /\ size' <= t
    BY <1>3, <2>2
  <2> QED
    BY <2>1, <2>3 DEF t
<1>8. FileInv'
  BY <1>1, <1>7 DEF FileInv, readvars
<1>9. PICK m \in Nat : m = 0
  OBVIOUS
<1>10. AtHeader(m)'
  <2>1. Start(m + 1)' = Start(m + 1)
    BY <1>1 DEF Start
  <2>2. Start(m + 1) = 0
    BY <1>5, <1>9
  <2>3. Len(shown') = m /\ Len(file') \in Nat
    BY <1>1, <1>5, <1>9 DEF readvars
  <2>4. \A k \in 1..m : shown'[k] = k
    BY <1>9
  <2>5. pos' = 0 /\ eof' = FALSE
    BY <1>1 DEF readvars
  <2>6. pos' <= size'
    BY <1>7, <2>5
  <2> QED
    BY <1>9, <2>1, <2>2, <2>3, <2>4, <2>5, <2>6 DEF AtHeader, Shown
<1>11. CheckInv'
  BY <1>1, <1>10 DEF CheckInv
<1> QED
  BY <1>8, <1>11

\* The places of the headers are different, so checkleb finds the one it is at.
LEMMA FoundAt ==
  ASSUME file \in Seq(Nat), NEW m \in 1..Len(file), pos = Start(m)
  PROVE  Found = m
<1>1. DOMAIN file = 1..Len(file) /\ Len(file) \in Nat
  BY LenProperties
<1>2. ASSUME NEW k \in 1..Len(file), Start(k) = Start(m) PROVE k = m
  <2>1. k \in 1..(Len(file) + 1) /\ m \in 1..(Len(file) + 1)
    BY <1>1
  <2> DEFINE a == Start(k)
             b == Start(m)
  <2>2. /\ a \in Nat /\ b \in Nat /\ a = b
        /\ k < m => a + PHead <= b
        /\ m < k => b + PHead <= a
    BY <1>2, <2>1, StartsAre
  <2> HIDE DEF a, b
  <2>3. ~(k < m) /\ ~(m < k)
    BY <2>2, SizeAssumption
  <2> QED
    BY <1>1, <2>3
<1>3. Here = {m}
  BY <1>1, <1>2 DEF Here
<1> QED
  BY <1>3 DEF Found

\* The reader does not write.
LEMMA ReaderSame ==
  ASSUME FileInv, Reader
  PROVE  /\ UNCHANGED <<file, size>> /\ Total' = Total
         /\ \A k : Start(k)' = Start(k)
<1>1. UNCHANGED <<file, size>>
  BY DEF Reader, CheckHeader, CheckBody, CheckFails, ReadHeader, ReadBody, ReadWalk, ReadNext,
     filevars
<1> QED
  BY <1>1 DEF Total, Spans, Start

LEMMA FoundTyped ==
  ASSUME file \in Seq(Nat) PROVE Found \in Nat
<1>1. DOMAIN file \subseteq Nat
  BY LenProperties
<1>2. CASE Here = {}
  BY <1>2 DEF Found
<1>3. CASE Here # {}
  <2>1. Found \in Here
    BY <1>3 DEF Found
  <2> QED
    BY <1>1, <2>1 DEF Here
<1> QED
  BY <1>2, <1>3

LEMMA ReaderFile ==
  ASSUME FileInv, Reader PROVE FileInv'
<1>1. UNCHANGED <<file, size>> /\ Total' = Total /\ file \in Seq(Nat) /\ shown \in Seq(Nat)
      /\ header \in Nat
  BY ReaderSame DEF FileInv
<1>2. CASE CheckHeader
  <2>1. header' \in Nat
    BY <1>1, <1>2, FoundTyped DEF CheckHeader
  <2>2. shown' = Append(shown, header') /\ prog' = "checkleb body"
    BY <1>2 DEF CheckHeader
  <2>3. shown' \in Seq(Nat)
    BY <1>1, <2>1, <2>2, AppendProperties
  <2> QED
    BY <1>1, <2>1, <2>2, <2>3 DEF FileInv
<1>3. CASE CheckBody
  <2>1. prog' \in {"checkleb header", "done"} /\ UNCHANGED <<shown, header>>
    BY <1>3 DEF CheckBody
  <2> QED
    BY <1>1, <2>1 DEF FileInv
<1>4. CASE ReadHeader
  <2>1. header' \in Nat /\ prog' \in {"ebreceiver body", "done"} /\ shown' = shown /\ shown = <<>>
    BY <1>1, <1>4, FoundTyped DEF ReadHeader, Goes, FileInv
  <2> QED
    BY <1>1, <2>1 DEF FileInv
<1>5. CASE ReadBody \/ ReadWalk \/ ReadNext
  <2>1. /\ header' = header /\ shown' = shown /\ shown = <<>>
        /\ prog' \in {"ebreceiver walk", "ebreceiver header", "done"}
    BY <1>5 DEF ReadBody, ReadWalk, ReadNext, readvars, Goes, FileInv
  <2> QED
    BY <1>1, <2>1 DEF FileInv
<1>6. CASE CheckFails
  <2>1. header' = header /\ shown' = shown /\ prog' = "failed"
    BY <1>6 DEF CheckFails, readvars
  <2> QED
    BY <1>1, <2>1 DEF FileInv
<1> QED
  BY <1>2, <1>3, <1>4, <1>5, <1>6 DEF Reader

\* Behind the m-th message: its header and those in front of it are in the file.
LEMMA WholeUpTo ==
  ASSUME file \in Seq(Nat), NEW m \in 1..Len(file), Start(m) + PHead <= size, size \in Nat
  PROVE  \A k \in 1..m : Start(k) + PHead <= size
<1> SUFFICES ASSUME NEW k \in 1..m PROVE Start(k) + PHead <= size
  OBVIOUS
<1>1. Len(file) \in Nat /\ k \in 1..(Len(file) + 1) /\ m \in 1..(Len(file) + 1)
  BY LenProperties
<1> DEFINE a == Start(k)
           b == Start(m)
<1>2. a \in Nat /\ b \in Nat /\ (k < m => a + PHead <= b) /\ (k = m => a = b) /\ b + PHead <= size
  BY <1>1, StartsAre
<1> HIDE DEF a, b
<1>3. a + PHead <= size
  BY <1>1, <1>2, SizeAssumption
<1> QED
  BY <1>3 DEF a

LEMMA NoneBehind ==
  ASSUME file \in Seq(Nat), NEW m \in 1..Len(file), Start(m) + PHead > size, size \in Nat
  PROVE  \A k \in 1..Len(file) : k >= m => ~(Start(k) + PHead <= size)
<1> SUFFICES ASSUME NEW k \in 1..Len(file), k >= m PROVE ~(Start(k) + PHead <= size)
  OBVIOUS
<1>1. Len(file) \in Nat /\ k \in 1..(Len(file) + 1) /\ m \in 1..(Len(file) + 1)
  BY LenProperties
<1> DEFINE a == Start(m)
           b == Start(k)
<1>2. a \in Nat /\ b \in Nat /\ (m < k => a + PHead <= b) /\ (k = m => a = b) /\ a + PHead > size
  BY <1>1, StartsAre
<1> HIDE DEF a, b
<1>3. ~(b + PHead <= size)
  BY <1>1, <1>2, SizeAssumption
<1> QED
  BY <1>3 DEF b

\* The headers in front of a place in the file.
LEMMA WholeBefore ==
  ASSUME file \in Seq(Nat), NEW m \in Nat, m <= Len(file), Start(m + 1) <= size, size \in Nat
  PROVE  \A k \in 1..m : Start(k) + PHead <= size
<1> SUFFICES ASSUME NEW k \in 1..m PROVE Start(k) + PHead <= size
  OBVIOUS
<1>1. Len(file) \in Nat /\ k \in 1..(Len(file) + 1) /\ m + 1 \in 1..(Len(file) + 1) /\ k < m + 1
  BY LenProperties
<1> DEFINE a == Start(k)
           b == Start(m + 1)
<1>2. a \in Nat /\ b \in Nat /\ a + PHead <= b /\ b <= size
  BY <1>1, StartsAre
<1> HIDE DEF a, b
<1>3. a + PHead <= size
  BY <1>2, SizeAssumption
<1> QED
  BY <1>3 DEF a

LEMMA HeaderStep ==
  ASSUME FileInv, CheckInv, CheckHeader PROVE CheckInv'
<1>1. /\ file \in Seq(Nat) /\ shown \in Seq(Nat) /\ size \in Nat /\ size <= Total
      /\ UNCHANGED <<file, size>> /\ \A k : Start(k)' = Start(k)
  BY ReaderSame DEF FileInv, Reader
<1>2. PICK m \in Nat : AtHeader(m)
  BY DEF CheckInv, CheckHeader
<1>3. /\ prog' = "checkleb body" /\ shown' = Append(shown, header') /\ left' \in Length(header')
      /\ pos' = (IF Short(PHead) THEN size ELSE pos + PHead)
      /\ eof' = (eof \/ Short(PHead)) /\ eof = FALSE
      /\ Len(shown) = m /\ m <= Len(file) /\ Shown(m) /\ pos = Start(m + 1) /\ pos <= size
  BY <1>2 DEF CheckHeader, Take, AtHeader
<1>4. header' \in Nat
  BY <1>1, FoundTyped DEF CheckHeader, FileInv
<1>5. /\ Len(shown') = m + 1 /\ shown'[m + 1] = header' /\ \A k \in 1..m : shown'[k] = shown[k]
  <2>1. shown' = Append(shown, header') /\ Len(shown) = m /\ shown \in Seq(Nat)
    BY <1>1, <1>3
  <2>2. /\ Len(shown') = Len(shown) + 1 /\ shown'[Len(shown) + 1] = header'
        /\ \A k \in 1..Len(shown) : shown'[k] = shown[k]
    BY <1>4, <2>1, AppendProperties
  <2> QED
    BY <2>1, <2>2
<1>6. Shown(m)'
  BY <1>3, <1>5 DEF Shown
<1>7. Len(file) \in Nat /\ m <= Len(file)
  <2>1. file \in Seq(Nat) /\ m <= Len(file)
    BY <1>1, <1>3
  <2> QED
    BY <2>1, LenProperties
<1>8. CASE Short(PHead)
  <2>1. eof' = TRUE
    BY <1>3, <1>8
  <2>2. ASSUME NEW k \in 1..Len(file) PROVE Start(k) + PHead <= size <=> k <= m
    <3>1. CASE k <= m
      <4>1. k \in 1..m
        BY <3>1
      <4> QED
        BY <1>1, <1>3, <3>1, <4>1, WholeBefore
    <3>2. CASE ~(k <= m)
      <4>1. m + 1 \in 1..Len(file) /\ k >= m + 1
        BY <1>7, <3>2
      <4>2. Start(m + 1) + PHead > size
        BY <1>3, <1>8 DEF Short
      <4> QED
        BY <1>1, <3>2, <4>1, <4>2, NoneBehind
    <3> QED
      BY <3>1, <3>2
  <2>3. Ends(m)'
    <3>1. m \in 0..Len(file) /\ file' = file
      BY <1>1, <1>7
    <3> QED
      BY <1>1, <1>6, <2>2, <3>1 DEF Ends
  <2> QED
    BY <1>3, <1>5, <2>1, <2>3 DEF CheckInv
<1>9. CASE ~Short(PHead)
  <2>1. ~(Start(m + 1) + PHead > size)
    BY <1>3, <1>9 DEF Short
  <2> DEFINE a == Start(m + 1)
  <2>2. a \in Nat /\ a = pos
    <3>1. m + 1 \in 1..(Len(file) + 1)
      BY <1>7
    <3> QED
      BY <1>1, <1>3, <3>1, StartsAre
  <2>3. m + 1 \in 1..Len(file)
    <3> SUFFICES ASSUME m = Len(file) PROVE FALSE
      BY <1>7
    <3>1. size <= a
      BY <1>1, TotalIs
    <3> HIDE DEF a
    <3>2. ~(a + PHead > size)
      BY <2>1 DEF a
    <3> QED
      BY <1>1, <2>2, <3>1, <3>2, SizeAssumption
  <2>4. header' = m + 1
    BY <1>1, <1>3, <1>9, <2>3, FoundAt DEF CheckHeader
  <2>5. left' = file[m + 1]
    <3>1. left' \in Length(header')
      BY <1>3
    <3>2. header' # 0
      BY <1>7, <2>4
    <3> QED
      BY <2>4, <3>1, <3>2 DEF Length
  <2>6. pos' = Start(m + 1) + PHead /\ eof' = FALSE
    BY <1>3, <1>9
  <2>7. pos' <= size
    <3> HIDE DEF a
    <3>1. pos' = a + PHead /\ ~(a + PHead > size)
      BY <2>1, <2>6 DEF a
    <3> QED
      BY <1>1, <2>2, <3>1, SizeAssumption
  <2>8. Shown(m + 1)'
    <3>1. \A k \in 1..(m + 1) : k \in 1..m \/ k = m + 1
      OBVIOUS
    <3>2. \A k \in 1..(m + 1) : shown'[k] = k
      BY <1>5, <1>6, <2>4, <3>1 DEF Shown
    <3> QED
      BY <3>2 DEF Shown
  <2>9. PICK n \in Nat : n = m + 1
    OBVIOUS
  <2>10. AtBody(n)'
    BY <1>1, <1>5, <2>3, <2>5, <2>6, <2>7, <2>8, <2>9 DEF AtBody
  <2> QED
    BY <1>3, <2>10 DEF CheckInv
<1> QED
  BY <1>8, <1>9

LEMMA BodyStep ==
  ASSUME FileInv, CheckInv, CheckBody PROVE CheckInv'
<1>1. /\ file \in Seq(Nat) /\ size \in Nat
      /\ UNCHANGED <<file, size, shown>> /\ \A k : Start(k)' = Start(k)
  BY ReaderSame DEF FileInv, Reader, CheckBody
<1>2. PICK m \in Nat : AtBody(m) \/ (eof = TRUE /\ Len(shown) = m + 1 /\ Ends(m))
  BY DEF CheckInv, CheckBody
<1>3. CASE eof = TRUE /\ Len(shown) = m + 1 /\ Ends(m)
  <2>1. prog' = "done"
    BY <1>3 DEF CheckBody
  <2>2. Ends(m)'
    BY <1>1, <1>3 DEF Ends, Shown
  <2> QED
    BY <1>1, <1>3, <2>1, <2>2 DEF CheckInv
<1>4. CASE AtBody(m)
  <2> DEFINE a == Start(m)
             b == Start(m + 1)
             n == file[m]
  <2>1. /\ eof = FALSE /\ Len(shown) = m /\ m \in 1..Len(file) /\ Shown(m)
        /\ pos = a + PHead /\ pos <= size /\ left = n
    BY <1>4 DEF AtBody
  <2>2. Len(file) \in Nat
    BY <1>1, LenProperties
  <2>3. a \in Nat /\ b \in Nat /\ n \in Nat /\ b = a + PHead + n
    <3>1. m \in 1..(Len(file) + 1) /\ m + 1 \in 1..(Len(file) + 1)
      BY <2>1, <2>2
    <3> QED
      BY <1>1, <2>1, <3>1, StartsAre
  <2>4. pos + left = b
    <3> HIDE DEF a, b, n
    <3> QED
      BY <2>1, <2>3, SizeAssumption
  <2>5. Take(left)
    BY <2>1 DEF CheckBody
  <2>6. CASE Short(left)
    <3>1. eof' = TRUE /\ prog' = "done"
      BY <2>5, <2>6 DEF Take, CheckBody
    <3>2. b > size
      BY <2>4, <2>6 DEF Short
    <3>3. ASSUME NEW k \in 1..Len(file) PROVE Start(k) + PHead <= size <=> k <= m
      <4>1. CASE k <= m
        <5>1. k \in 1..m
          BY <4>1
        <5>2. Start(m) + PHead <= size
          BY <2>1
        <5> QED
          BY <1>1, <2>1, <4>1, <5>1, <5>2, WholeUpTo
      <4>2. CASE ~(k <= m)
        <5>1. m + 1 \in 1..Len(file) /\ k >= m + 1
          BY <2>1, <2>2, <4>2
        <5>2. Start(m + 1) + PHead > size
          <6> HIDE DEF b
          <6>1. b + PHead > size
            BY <1>1, <2>3, <3>2, SizeAssumption
          <6> QED
            BY <6>1 DEF b
        <5> QED
          BY <1>1, <4>2, <5>1, <5>2, NoneBehind
      <4> QED
        BY <4>1, <4>2
    <3>4. Ends(m)'
      <4>1. m \in 0..Len(file)
        BY <2>1, <2>2
      <4> QED
        BY <1>1, <2>1, <3>3, <4>1 DEF Ends, Shown
    <3> QED
      BY <1>1, <2>1, <3>1, <3>4 DEF CheckInv
  <2>7. CASE ~Short(left)
    <3>1. eof' = FALSE /\ prog' = "checkleb header" /\ pos' = b
      BY <2>1, <2>4, <2>5, <2>7 DEF Take, CheckBody
    <3>2. b <= size
      <4>1. ~(b > size)
        BY <2>4, <2>7 DEF Short
      <4> HIDE DEF b
      <4> QED
        BY <1>1, <2>3, <4>1
    <3>3. m <= Len(file)
      BY <2>1, <2>2
    <3>4. AtHeader(m)'
      BY <1>1, <2>1, <3>1, <3>2, <3>3 DEF AtHeader, Shown
    <3> QED
      BY <3>1, <3>4 DEF CheckInv
  <2> QED
    BY <2>6, <2>7
<1> QED
  BY <1>2, <1>3, <1>4

\* ebreceiver shows no headers of its own.
LEMMA ReadStep ==
  ASSUME FileInv, CheckInv, ReadHeader \/ ReadBody \/ ReadWalk \/ ReadNext PROVE CheckInv'
<1>1. /\ prog \in {"ebreceiver header", "ebreceiver body", "ebreceiver walk"} /\ shown' = shown
      /\ prog' \in {"ebreceiver header", "ebreceiver body", "ebreceiver walk", "done"}
  BY DEF ReadHeader, ReadBody, ReadWalk, ReadNext, readvars, Goes
<1>2. shown = <<>>
  BY <1>1 DEF FileInv
<1> QED
  BY <1>1, <1>2 DEF CheckInv

\* When checkleb gets no buffer, nothing more is shown.
LEMMA FailStep ==
  ASSUME FileInv, CheckInv, CheckFails PROVE CheckInv'
<1>1. prog' = "failed" /\ UNCHANGED <<file, size, pos, eof, left, shown>>
  BY DEF CheckFails, filevars, readvars
<1>2. \A k : Start(k)' = Start(k)
  BY <1>1 DEF Start
<1>3. PICK m \in Nat : AtBody(m) \/ (eof = TRUE /\ Len(shown) = m + 1 /\ Ends(m))
  BY DEF CheckInv, CheckFails
<1>4. AtBody(m)' \/ (eof' = TRUE /\ Len(shown') = m + 1 /\ Ends(m)')
  BY <1>1, <1>2, <1>3 DEF AtBody, Ends, Shown
<1> QED
  BY <1>1, <1>4 DEF CheckInv

LEMMA FileStep ==
  WalkInv /\ FileInv /\ CheckInv /\ [Next]_vars => FileInv' /\ CheckInv'
<1> SUFFICES ASSUME WalkInv, FileInv, CheckInv, [Next]_vars PROVE FileInv' /\ CheckInv'
  OBVIOUS
<1>1. CASE Receive \/ UNCHANGED vars
  <2>1. UNCHANGED <<filevars, prog, readvars>>
    BY <1>1 DEF Receive, vars
  <2>2. UNCHANGED <<file, size, prog, pos, eof, header, left, shown>>
    BY <2>1 DEF filevars, readvars
  <2>3. Total' = Total /\ \A k : Start(k)' = Start(k)
    BY <2>2 DEF Total, Spans, Start
  <2>4. FileInv'
    BY <2>2, <2>3 DEF FileInv
  <2>5. /\ \A m : AtHeader(m)' <=> AtHeader(m)
        /\ \A m : AtBody(m)' <=> AtBody(m)
        /\ \A m : Ends(m)' <=> Ends(m)
    BY <2>2, <2>3 DEF AtHeader, AtBody, Ends, Shown
  <2>6. CheckInv'
    BY <2>2, <2>5 DEF CheckInv
  <2> QED
    BY <2>4, <2>6
<1>2. CASE Record
  <2>1. prog' = "record"
    BY <1>2 DEF Record
  <2> QED
    BY <1>2, <2>1, RecordFile DEF CheckInv
<1>3. CASE Kill
  BY <1>3, KillFile
<1>4. CASE Reader
  BY <1>4, ReaderFile, HeaderStep, BodyStep, FailStep, ReadStep DEF Reader
<1> QED
  BY <1>1, <1>2, <1>3, <1>4 DEF Next

LEMMA FileInvariant == Spec => [](FileInv /\ CheckInv)
<1>1. Init => FileInv /\ CheckInv
  <2> SUFFICES ASSUME Init PROVE FileInv /\ CheckInv
    OBVIOUS
  <2>1. /\ file = <<>> /\ size = 0 /\ prog = "record" /\ pos = 0 /\ eof = FALSE
        /\ header = 0 /\ shown = <<>>
    BY DEF Init
  <2>2. file \in Seq(Nat) /\ shown \in Seq(Nat) /\ Len(file) = 0
    BY <2>1, EmptySeq
  <2>3. Total = 0
    <3>1. Spans \in Seq(Nat) /\ Len(Spans) = 0
      BY <2>2, SpansAre
    <3> QED
      BY <3>1, SumsAre DEF Total
  <2> QED
    BY <2>1, <2>2, <2>3 DEF FileInv, CheckInv
<1> QED
  BY <1>1, WalkInvariant, FileStep, PTL DEF Spec

(***************************************************************************)
(* What checkleb (reading) shows of a file cut anywhere: every event whose *)
(* header is in it, in order, and at most one thing more.                  *)
(***************************************************************************)
LEMMA WholeOf ==
  ASSUME FileInv
  PROVE  /\ \A n \in Nat : (n <= Len(file) /\ \A k \in 1..n : Start(k) + PHead <= size)
                => n <= Cardinality(Whole)
         /\ \A n \in Nat : Ends(n) => Cardinality(Whole) = n
<1>1. file \in Seq(Nat) /\ DOMAIN file = 1..Len(file) /\ Len(file) \in Nat
  <2>1. file \in Seq(Nat)
    BY DEF FileInv
  <2> QED
    BY <2>1, LenProperties
<1>2. IsFiniteSet(Whole) /\ Cardinality(Whole) \in Nat
  <2>1. Whole \subseteq 1..Len(file)
    BY <1>1 DEF Whole
  <2>2. IsFiniteSet(1..Len(file))
    BY <1>1, FS_Interval
  <2>3. IsFiniteSet(Whole)
    BY <2>1, <2>2, FS_Subset
  <2> QED
    BY <2>3, FS_CardinalityType
<1>3. ASSUME NEW n \in Nat PROVE IsFiniteSet(1..n) /\ Cardinality(1..n) = n
  <2>1. IsFiniteSet(1..n) /\ Cardinality(1..n) = IF 1 > n THEN 0 ELSE n - 1 + 1
    BY FS_Interval
  <2> QED
    BY <2>1
<1>4. ASSUME NEW n \in Nat, n <= Len(file), \A k \in 1..n : Start(k) + PHead <= size
      PROVE  n <= Cardinality(Whole)
  <2>1. 1..n \subseteq Whole
    BY <1>1, <1>4 DEF Whole
  <2>2. Cardinality(1..n) <= Cardinality(Whole)
    BY <1>2, <2>1, FS_Subset
  <2> QED
    BY <1>3, <2>2
<1>5. ASSUME NEW n \in Nat, Ends(n) PROVE Cardinality(Whole) = n
  <2>1. Whole = 1..n
    BY <1>1, <1>5 DEF Whole, Ends
  <2> QED
    BY <1>3, <2>1
<1> QED
  BY <1>4, <1>5

THEOREM ShowsWholeFile == Spec => []ShowsFile
<1>1. FileInv /\ CheckInv => ShowsFile
  <2> SUFFICES ASSUME FileInv, CheckInv PROVE ShowsFile
    OBVIOUS
  <2> DEFINE N == Cardinality(Whole)
  <2>1. /\ file \in Seq(Nat) /\ size \in Nat /\ shown \in Seq(Nat)
        /\ DOMAIN shown = 1..Len(shown) /\ Len(shown) \in Nat
        /\ DOMAIN file = 1..Len(file) /\ Len(file) \in Nat
    <3>1. file \in Seq(Nat) /\ size \in Nat /\ shown \in Seq(Nat)
      BY DEF FileInv
    <3> QED
      BY <3>1, LenProperties
  <2>2. N \in Nat
    <3>1. Whole \subseteq 1..Len(file)
      BY <2>1 DEF Whole
    <3>2. IsFiniteSet(1..Len(file))
      BY <2>1, FS_Interval
    <3>3. IsFiniteSet(Whole)
      BY <3>1, <3>2, FS_Subset
    <3> QED
      BY <3>3, FS_CardinalityType
  <2>3. ASSUME shown = <<>> PROVE ShowsFile
    <3>1. Len(shown) = 0
      BY <2>3
    <3> QED
      BY <2>1, <2>2, <2>3, <3>1 DEF ShowsFile
  <2>4. ASSUME NEW m \in Nat, Len(shown) = m, Shown(m), m <= N, prog # "done"
        PROVE  ShowsFile
    BY <2>1, <2>2, <2>4 DEF ShowsFile, Shown
  <2>5. ASSUME NEW m \in Nat, Len(shown) \in {m, m + 1}, Ends(m) PROVE ShowsFile
    <3>1. N = m
      BY <2>5, WholeOf
    <3>2. ASSUME NEW k \in DOMAIN shown, k \in Whole PROVE shown[k] = k
      <4>1. k \in 1..Len(file) /\ Start(k) + PHead <= size
        BY <2>1, <3>2 DEF Whole
      <4>2. k <= m
        BY <2>5, <4>1 DEF Ends
      <4>3. k \in 1..m
        BY <4>1, <4>2
      <4> QED
        BY <2>5, <4>3 DEF Ends, Shown
    <3>3. Len(shown) <= N + 1 /\ Len(shown) >= N
      BY <2>5, <3>1
    <3> QED
      BY <3>2, <3>3 DEF ShowsFile
  <2>6. CASE prog = "checkleb header"
    <3>1. PICK m \in Nat : AtHeader(m)
      BY <2>6 DEF CheckInv
    <3>2. \A k \in 1..m : Start(k) + PHead <= size
      BY <2>1, <3>1, WholeBefore DEF AtHeader
    <3>3. m <= N
      BY <3>1, <3>2, WholeOf DEF AtHeader
    <3> QED
      BY <2>4, <2>6, <3>1, <3>3 DEF AtHeader
  <2>7. CASE prog \in {"checkleb body", "failed"}
    <3>1. PICK m \in Nat : AtBody(m) \/ (eof = TRUE /\ Len(shown) = m + 1 /\ Ends(m))
      BY <2>7 DEF CheckInv
    <3>2. CASE AtBody(m)
      <4>1. m \in 1..Len(file) /\ Start(m) + PHead <= size /\ m <= Len(file)
        BY <2>1, <3>2 DEF AtBody
      <4>2. \A k \in 1..m : Start(k) + PHead <= size
        BY <2>1, <4>1, WholeUpTo
      <4>3. m <= N
        BY <4>1, <4>2, WholeOf
      <4> QED
        BY <2>4, <2>7, <3>2, <4>3 DEF AtBody
    <3> QED
      BY <2>5, <3>1, <3>2
  <2>8. CASE prog = "done"
    BY <2>3, <2>5, <2>8 DEF CheckInv
  <2>9. CASE prog \in {"record", "ebreceiver header", "ebreceiver body", "ebreceiver walk"}
    BY <2>3, <2>9 DEF FileInv
  <2> QED
    BY <2>6, <2>7, <2>8, <2>9 DEF FileInv
<1> QED
  BY <1>1, FileInvariant, PTL
=============================================================================
