--------------------------- MODULE SequenceLemmas --------------------------
EXTENDS Picks, NaturalsInduction, FiniteSetTheorems, SequenceTheorems, TLAPS

\* Of some naturals one is the least.
LEMMA Least ==
    ASSUME NEW S \in SUBSET Nat, S # {}
    PROVE  \E n \in S : \A m \in S : n <= m
<1>1. PICK n \in S : \A m \in S : ~(<<m, n>> \in OpToRel(<, Nat))
  BY NatLessThanWellFounded, WFMin, Zenon
<1>2. \A m \in S : ~(m < n)
  BY <1>1 DEF OpToRel
<1>3. QED
  BY <1>2

\* What holds of 0 and passes from each number to the next one holds of all up to n.
LEMMA Climb ==
    ASSUME NEW n \in Nat, NEW S, 0 \in S, \A i \in 1 .. n : i - 1 \in S => i \in S
    PROVE  \A i \in 0 .. n : i \in S
<1> SUFFICES ASSUME NEW i \in 0 .. n, i \notin S PROVE FALSE
  OBVIOUS
<1> DEFINE out == {k \in 0 .. n : k \notin S}
<1>1. PICK k \in out : \A m \in out : k <= m
  <2>1. out \in SUBSET Nat /\ out # {}
    OBVIOUS
  <2> HIDE DEF out
  <2>2. QED
    BY <2>1, Least
<1>2. k # 0 /\ k - 1 \in 0 .. n
  BY <1>1
<1>3. k - 1 \in S
  BY <1>1, <1>2
<1>4. QED
  BY <1>1, <1>2, <1>3

LEMMA MinIsLeast ==
    ASSUME NEW S \in SUBSET Nat, S # {}
    PROVE  Min(S) \in S /\ \A m \in S : Min(S) <= m
BY Least DEF Min

IsLast(s, m) == m \in s /\ \A k \in s : k <= m

LEMMA MaxIsLast ==
    ASSUME NEW n \in Nat, NEW s \in SUBSET (1 .. n), s # {}
    PROVE  IsLast(s, Max(s)) /\ \A m : IsLast(s, m) => m = Max(s)
<1> DEFINE above == {k \in Nat : \A m \in s : m <= k}
<1>1. PICK k \in above : \A m \in above : k <= m
  <2>1. \A m \in s : m <= n
    OBVIOUS
  <2>2. n \in above /\ above \in SUBSET Nat
    BY <2>1
  <2> HIDE DEF above
  <2>3. QED
    BY <2>2, Least
<1>2. k \in s
  <2> SUFFICES ASSUME k \notin s PROVE FALSE
    OBVIOUS
  <2>1. \A m \in s : m <= k /\ m # k /\ m \in 1 .. n
    BY <1>1
  <2>2. k \in Nat /\ k > 0
    <3>1. PICK m : m \in s
      OBVIOUS
    <3>2. m <= k /\ m \in 1 .. n /\ k \in Nat
      BY <2>1, <3>1
    <3>3. QED
      BY <3>2
  <2>3. k - 1 \in above
    BY <2>1, <2>2
  <2>4. QED
    BY <1>1, <2>2, <2>3
<1>3. IsLast(s, k)
  BY <1>1, <1>2 DEF IsLast
<1>4. \A m : IsLast(s, m) => m = k
  BY <1>1, <1>2 DEF IsLast
<1>5. Max(s) = k
  BY <1>3, <1>4 DEF IsLast, Max
<1>6. QED
  BY <1>3, <1>4, <1>5

\* The recursion a fold is defined by has a solution.
IsFold(g, n, base, step) ==
    \A s \in SUBSET (1 .. n) :
        g[s] = IF s = {} THEN base ELSE step[<<Max(s), g[s \ {Max(s)}]>>]

LEMMA FoldExists ==
    ASSUME NEW n \in Nat, NEW A, NEW base \in A, NEW step \in [(1 .. n) \X A -> A]
    PROVE  \E g \in [SUBSET (1 .. n) -> A] : IsFold(g, n, base, step)
<1> DEFINE Solved == {k \in 0 .. n : \E g \in [SUBSET (1 .. k) -> A] : IsFold(g, k, base, step)}
<1>1. 0 \in Solved
  <2> DEFINE g == [s \in SUBSET (1 .. 0) |-> base]
  <2>1. SUBSET (1 .. 0) = {{}}
    <3>1. 1 .. 0 = {}
      OBVIOUS
    <3>2. QED
      BY <3>1
  <2>2. IsFold(g, 0, base, step)
    BY <2>1 DEF IsFold
  <2>3. g \in [SUBSET (1 .. 0) -> A]
    OBVIOUS
  <2>4. QED
    BY <2>2, <2>3
<1>2. ASSUME NEW k \in 1 .. n, k - 1 \in Solved PROVE k \in Solved
  <2>1. PICK g \in [SUBSET (1 .. (k - 1)) -> A] : IsFold(g, k - 1, base, step)
    BY <1>2
  <2> DEFINE h == [s \in SUBSET (1 .. k) |->
                      IF k \in s THEN step[<<k, g[s \ {k}]>>] ELSE g[s]]
  <2>2. \A s \in SUBSET (1 .. k) : s \ {k} \in SUBSET (1 .. (k - 1))
    OBVIOUS
  <2>3. h \in [SUBSET (1 .. k) -> A]
    <3> SUFFICES ASSUME NEW s \in SUBSET (1 .. k) PROVE h[s] \in A
      OBVIOUS
    <3>1. CASE k \in s
      BY <2>2, <3>1
    <3>2. CASE k \notin s
      <4>1. s = s \ {k}
        BY <3>2
      <4>2. QED
        BY <2>2, <3>2, <4>1
    <3>3. QED
      BY <3>1, <3>2
  <2>4. ASSUME NEW s \in SUBSET (1 .. k)
        PROVE  h[s] = IF s = {} THEN base ELSE step[<<Max(s), h[s \ {Max(s)}]>>]
    <3>1. CASE k \in s
      <4>1. Max(s) = k
        <5>1. IsLast(s, k)
          BY <3>1 DEF IsLast
        <5>2. k \in Nat /\ s # {}
          BY <3>1
        <5>3. QED
          BY <5>1, <5>2, MaxIsLast
      <4>2. s \ {k} \in SUBSET (1 .. k) /\ h[s \ {k}] = g[s \ {k}]
        BY <2>2
      <4>3. h[s] = step[<<k, g[s \ {k}]>>] /\ s # {}
        BY <3>1
      <4> HIDE DEF h
      <4>4. QED
        BY <4>1, <4>2, <4>3
    <3>2. CASE k \notin s
      <4>1. s \in SUBSET (1 .. (k - 1))
        BY <3>2
      <4>2. h[s] = IF s = {} THEN base ELSE step[<<Max(s), g[s \ {Max(s)}]>>]
        BY <2>1, <3>2, <4>1 DEF IsFold
      <4>3. h[s \ {Max(s)}] = g[s \ {Max(s)}]
        BY <3>2
      <4>4. QED
        BY <4>2, <4>3
    <3>3. QED
      BY <3>1, <3>2
  <2> HIDE DEF h
  <2>5. IsFold(h, k, base, step)
    BY <2>4 DEF IsFold
  <2>6. QED
    BY <2>3, <2>5
<1> HIDE DEF Solved
<1>3. n \in Solved
  BY <1>1, <1>2, Climb
<1>4. QED
  BY <1>3 DEF Solved

LEMMA FirstPlaces ==
    ASSUME NEW k \in Nat \ {0}
    PROVE  1 .. k # {} /\ Max(1 .. k) = k /\ (1 .. k) \ {k} = 1 .. (k - 1)
<1>1. IsLast(1 .. k, k) /\ 1 .. k # {}
  BY DEF IsLast
<1>2. k \in Nat /\ 1 .. k \in SUBSET (1 .. k)
  OBVIOUS
<1>3. \A m : IsLast(1 .. k, m) => m = Max(1 .. k)
  BY <1>1, <1>2, MaxIsLast
<1>4. \A i : i \in (1 .. k) \ {k} <=> i \in 1 .. (k - 1)
  OBVIOUS
<1>5. (1 .. k) \ {k} = 1 .. (k - 1)
  BY <1>4
<1>6. QED
  BY <1>1, <1>3, <1>5

\* Along the places of a sequence: what is there after each of them.
IsRun(F, n, base, step) == F[0] = base /\ \A i \in 1 .. n : F[i] = step[<<i, F[i - 1]>>]

LEMMA RunExists ==
    ASSUME NEW n \in Nat, NEW A, NEW base \in A, NEW step \in [(1 .. n) \X A -> A]
    PROVE  \E F \in [0 .. n -> A] : IsRun(F, n, base, step)
<1>1. PICK g \in [SUBSET (1 .. n) -> A] : IsFold(g, n, base, step)
  BY FoldExists
<1> DEFINE F == [i \in 0 .. n |-> g[1 .. i]]
<1>2. F \in [0 .. n -> A]
  <2>1. \A i \in 0 .. n : 1 .. i \in SUBSET (1 .. n)
    OBVIOUS
  <2>2. QED
    BY <2>1
<1>3. F[0] = base
  <2>1. 1 .. 0 = {} /\ 0 \in 0 .. n /\ {} \in SUBSET (1 .. n)
    OBVIOUS
  <2>2. g[{}] = base
    BY <1>1, <2>1 DEF IsFold
  <2>3. F[0] = g[1 .. 0]
    BY <2>1
  <2>4. QED
    BY <2>1, <2>2, <2>3
<1>4. ASSUME NEW i \in 1 .. n PROVE F[i] = step[<<i, F[i - 1]>>]
  <2>1. 1 .. i \in SUBSET (1 .. n) /\ i \in Nat \ {0} /\ i - 1 \in 0 .. n /\ i \in 0 .. n
    OBVIOUS
  <2>0. 1 .. i # {} /\ Max(1 .. i) = i /\ (1 .. i) \ {i} = 1 .. (i - 1)
    BY <2>1, FirstPlaces
  <2>2. g[1 .. i] = step[<<Max(1 .. i), g[(1 .. i) \ {Max(1 .. i)}]>>]
    BY <1>1, <2>0, <2>1 DEF IsFold
  <2>3. g[1 .. i] = step[<<i, g[1 .. (i - 1)]>>]
    BY <2>0, <2>2
  <2>4. QED
    BY <2>1, <2>3
<1> HIDE DEF F
<1>5. QED
  BY <1>2, <1>3, <1>4 DEF IsRun

LEMMA AppendIsAll ==
    ASSUME NEW X, NEW s \in Seq(X), NEW e \in X
    PROVE  /\ Append(s, e) \in Seq(X) /\ Len(Append(s, e)) = Len(s) + 1
           /\ \A x : x \in ToSet(Append(s, e)) <=> x \in ToSet(s) \/ x = e
<1>1. /\ Append(s, e) \in Seq(X) /\ Len(s) \in Nat /\ Len(Append(s, e)) = Len(s) + 1
      /\ DOMAIN s = 1 .. Len(s) /\ DOMAIN Append(s, e) = 1 .. (Len(s) + 1)
      /\ Append(s, e)[Len(s) + 1] = e
      /\ \A i \in 1 .. Len(s) : Append(s, e)[i] = s[i]
  OBVIOUS
<1>2. \A i : i \in 1 .. (Len(s) + 1) <=> i \in 1 .. Len(s) \/ i = Len(s) + 1
  BY <1>1
<1>3. ASSUME NEW x PROVE x \in ToSet(Append(s, e)) <=> x \in ToSet(s) \/ x = e
  <2>1. x \in ToSet(Append(s, e)) <=> \E i \in 1 .. (Len(s) + 1) : Append(s, e)[i] = x
    BY <1>1 DEF ToSet
  <2>2. x \in ToSet(s) <=> \E i \in 1 .. Len(s) : s[i] = x
    BY <1>1 DEF ToSet
  <2>3. QED
    BY <1>1, <1>2, <2>1, <2>2
<1>4. QED
  BY <1>1, <1>3

LEMMA SeqOfItsOwn ==
    ASSUME NEW X, NEW Y, NEW s \in Seq(X), ToSet(s) \subseteq Y
    PROVE  s \in Seq(Y)
<1>1. s \in [1 .. Len(s) -> X] /\ Len(s) \in Nat /\ DOMAIN s = 1 .. Len(s)
  OBVIOUS
<1>2. \A i \in 1 .. Len(s) : s[i] \in Y
  BY <1>1 DEF ToSet
<1>3. s \in [1 .. Len(s) -> Y]
  BY <1>1, <1>2
<1>4. QED
  BY <1>1, <1>3

LEMMA ConcatIsAll ==
    ASSUME NEW X, NEW s \in Seq(X), NEW t \in Seq(X)
    PROVE  s \o t \in Seq(X) /\ ToSet(s \o t) = ToSet(s) \cup ToSet(t)
<1>1. /\ s \o t \in Seq(X) /\ Len(s) \in Nat /\ Len(t) \in Nat
      /\ Len(s \o t) = Len(s) + Len(t)
  OBVIOUS
<1>2. /\ DOMAIN s = 1 .. Len(s) /\ DOMAIN t = 1 .. Len(t)
      /\ DOMAIN (s \o t) = 1 .. (Len(s) + Len(t))
  BY <1>1
<1>3. \A i \in 1 .. Len(s) : i \in DOMAIN (s \o t) /\ (s \o t)[i] = s[i]
  BY <1>1, <1>2
<1>4. \A i \in 1 .. Len(t) :
         Len(s) + i \in DOMAIN (s \o t) /\ (s \o t)[Len(s) + i] = t[i]
  BY <1>1, <1>2
<1>5. ASSUME NEW i \in DOMAIN (s \o t) PROVE (s \o t)[i] \in ToSet(s) \cup ToSet(t)
  <2>1. CASE i \in 1 .. Len(s)
    BY <1>2, <1>3, <2>1 DEF ToSet
  <2>2. CASE i \notin 1 .. Len(s)
    <3>1. i - Len(s) \in 1 .. Len(t) /\ Len(s) + (i - Len(s)) = i
      BY <1>1, <1>2, <2>2
    <3>2. (s \o t)[i] = t[i - Len(s)]
      BY <1>4, <3>1
    <3>3. QED
      BY <1>2, <3>1, <3>2 DEF ToSet
  <2>3. QED
    BY <2>1, <2>2
<1>6. \A x \in ToSet(s \o t) : x \in ToSet(s) \cup ToSet(t)
  BY <1>5 DEF ToSet
<1>7. \A x \in ToSet(s) : x \in ToSet(s \o t)
  BY <1>2, <1>3 DEF ToSet
<1>8. \A x \in ToSet(t) : x \in ToSet(s \o t)
  BY <1>2, <1>4 DEF ToSet
<1>9. QED
  BY <1>1, <1>6, <1>7, <1>8

LEMMA FourAreAll ==
    ASSUME NEW X, NEW a \in Seq(X), NEW b \in Seq(X), NEW c \in Seq(X), NEW d \in Seq(X)
    PROVE  /\ a \o b \o c \o d \in Seq(X)
           /\ ToSet(a \o b \o c \o d) = ToSet(a) \cup ToSet(b) \cup ToSet(c) \cup ToSet(d)
<1> DEFINE two == a \o b
           three == two \o c
<1>1. two \in Seq(X) /\ ToSet(two) = ToSet(a) \cup ToSet(b)
  BY ConcatIsAll
<1> HIDE DEF two
<1>2. three \in Seq(X) /\ ToSet(three) = ToSet(two) \cup ToSet(c)
  BY <1>1, ConcatIsAll
<1> HIDE DEF three
<1>3. three \o d \in Seq(X) /\ ToSet(three \o d) = ToSet(three) \cup ToSet(d)
  BY <1>2, ConcatIsAll
<1>4. ToSet(three \o d) = ToSet(a) \cup ToSet(b) \cup ToSet(c) \cup ToSet(d)
  BY <1>1, <1>2, <1>3
<1>5. QED
  BY <1>3, <1>4 DEF three, two

StartsWith(s, t) == \A k \in DOMAIN t : k \in DOMAIN s /\ s[k] = t[k]

\* The sequences of a sequence, one after the other: nothing is lost and nothing added.
LEMMA FlattenIsAll ==
    ASSUME NEW X, NEW ss \in Seq(Seq(X))
    PROVE  /\ FlattenSeq(ss) \in Seq(X)
           /\ \A x : x \in ToSet(FlattenSeq(ss)) <=> \E i \in DOMAIN ss : x \in ToSet(ss[i])
           /\ ss # <<>> => StartsWith(FlattenSeq(ss), ss[1])
<1> DEFINE n == Len(ss)
           A == Seq(X)
           step == [c \in (1 .. n) \X A |-> c[2] \o ss[c[1]]]
<1>1. n \in Nat /\ DOMAIN ss = 1 .. n /\ \A i \in 1 .. n : ss[i] \in A
  OBVIOUS
<1>2. CASE n = 0
  <2>1. ss = <<>> /\ FlattenSeq(ss) = <<>>
    BY <1>2 DEF FlattenSeq
  <2> HIDE DEF n, A, step
  <2>2. DOMAIN ss = {} /\ DOMAIN FlattenSeq(ss) = {} /\ FlattenSeq(ss) \in Seq(X)
    <3>1. <<>> \in Seq(X) /\ DOMAIN <<>> = {}
      OBVIOUS
    <3>2. QED
      BY <2>1, <3>1
  <2>3. ToSet(FlattenSeq(ss)) = {}
    BY <2>2 DEF ToSet
  <2>4. QED
    BY <2>1, <2>2, <2>3
<1>3. CASE n # 0
  <2> HIDE DEF n, A
  <2>1. <<>> \in A /\ step \in [(1 .. n) \X A -> A]
    BY <1>1 DEF A
  <2>2. \A i \in 1 .. n : \A a \in A : step[<<i, a>>] = a \o ss[i]
    OBVIOUS
  <2> HIDE DEF step
  <2>3. PICK F \in [0 .. n -> A] : IsRun(F, n, <<>>, step)
    BY <1>1, <2>1, RunExists
  <2>4. F[0] = <<>> /\ \A i \in 1 .. n : F[i] = F[i - 1] \o ss[i]
    <3>1. \A i \in 1 .. n : F[i - 1] \in A
      BY <1>1
    <3>2. QED
      BY <2>2, <2>3, <3>1 DEF IsRun
  <2> DEFINE Flattens(f) == f = [i \in 1 .. n |-> IF i = 1 THEN ss[i] ELSE f[i - 1] \o ss[i]]
             flatten == CHOOSE f : Flattens(f)
  <2>5. Flattens([i \in 1 .. n |-> F[i]])
    <3> DEFINE f == [i \in 1 .. n |-> F[i]]
    <3>1. ASSUME NEW i \in 1 .. n
          PROVE  f[i] = IF i = 1 THEN ss[i] ELSE f[i - 1] \o ss[i]
      <4>1. CASE i = 1
        <5>1. ss[1] \in Seq(X) /\ 1 \in 1 .. n
          BY <1>1, <4>1 DEF A
        <5>2. <<>> \o ss[1] = ss[1]
          BY <5>1
        <5>3. F[1] = F[0] \o ss[1] /\ F[0] = <<>>
          <6>1. F[1] = F[1 - 1] \o ss[1]
            BY <2>4, <5>1
          <6>2. 1 - 1 = 0
            OBVIOUS
          <6>3. QED
            BY <2>4, <6>1, <6>2
        <5>4. QED
          BY <4>1, <5>1, <5>2, <5>3
      <4>2. CASE i # 1
        <5>1. i - 1 \in 1 .. n
          BY <1>1, <4>2
        <5>2. QED
          BY <2>4, <4>2, <5>1
      <4>3. QED
        BY <4>1, <4>2
    <3>2. QED
      BY <3>1
  <2>6. Flattens(flatten)
    BY <2>5
  <2>7. FlattenSeq(ss) = flatten[n]
    BY <1>3 DEF FlattenSeq, n
  <2> HIDE DEF flatten
  <2>8. \A i \in 1 .. n : flatten[i] = IF i = 1 THEN ss[i] ELSE flatten[i - 1] \o ss[i]
    BY <2>6
  <2> HIDE DEF Flattens
  <2> DEFINE Good == {k \in 0 .. n : k = 0 \/
                        /\ flatten[k] \in A
                        /\ \A x : x \in ToSet(flatten[k]) <=> \E i \in 1 .. k : x \in ToSet(ss[i])
                        /\ StartsWith(flatten[k], ss[1])}
  <2>9. ASSUME NEW k \in 1 .. n, k - 1 \in Good PROVE k \in Good
    <3>1. CASE k = 1
      BY <1>1, <2>8, <3>1 DEF StartsWith
    <3>2. CASE k # 1
      <4>1. k - 1 \in 1 .. n /\ k - 1 # 0
        BY <1>1, <3>2
      <4>2. /\ flatten[k - 1] \in Seq(X) /\ ss[k] \in Seq(X)
            /\ flatten[k] = flatten[k - 1] \o ss[k]
            /\ \A x : x \in ToSet(flatten[k - 1]) <=> \E i \in 1 .. (k - 1) : x \in ToSet(ss[i])
            /\ StartsWith(flatten[k - 1], ss[1])
        BY <1>1, <2>8, <2>9, <3>2, <4>1 DEF A
      <4>3. /\ flatten[k] \in Seq(X)
            /\ ToSet(flatten[k]) = ToSet(flatten[k - 1]) \cup ToSet(ss[k])
        BY <4>2, ConcatIsAll
      <4>4. \A x : x \in ToSet(flatten[k]) <=> \E i \in 1 .. k : x \in ToSet(ss[i])
        BY <4>1, <4>2, <4>3
      <4>5. StartsWith(flatten[k], ss[1])
        <5>1. \A s, t \in Seq(X) : \A j \in DOMAIN s : j \in DOMAIN (s \o t) /\ (s \o t)[j] = s[j]
          OBVIOUS
        <5>2. \A j \in DOMAIN flatten[k - 1] :
                 j \in DOMAIN flatten[k] /\ flatten[k][j] = flatten[k - 1][j]
          BY <4>2, <5>1
        <5>3. QED
          BY <4>2, <5>2 DEF StartsWith
      <4>6. QED
        BY <4>3, <4>4, <4>5 DEF A
    <3>3. QED
      BY <3>1, <3>2
  <2>10. 0 \in Good
    BY <1>1
  <2> HIDE DEF Good
  <2>11. n \in Good
    <3>1. \A i \in 0 .. n : i \in Good
      <4>1. \A i \in 1 .. n : i - 1 \in Good => i \in Good
        BY <2>9
      <4>2. QED
        BY <1>1, <2>10, <4>1, Climb
    <3>2. n \in 0 .. n
      BY <1>1
    <3>3. QED
      BY <3>1, <3>2
  <2>12. QED
    BY <1>1, <1>3, <2>7, <2>11 DEF Good, A
<1>4. QED
  BY <1>2, <1>3

\* What SubSeq is, place by place.
LEMMA StretchIs ==
    ASSUME NEW X, NEW s \in Seq(X), NEW a \in Nat \ {0}, NEW b \in Nat
    PROVE  SubSeq(s, a, b) = [j \in 1 .. (b - a + 1) |-> s[j + a - 1]]
OBVIOUS

\* In a strict total order on a finite set every place has one element.
Orders(R, S) ==
    /\ \A x \in S, y \in S : <<x, y>> \in R => <<y, x>> \notin R
    /\ \A x \in S, y \in S, z \in S : <<x, y>> \in R /\ <<y, z>> \in R => <<x, z>> \in R
    /\ \A x \in S, y \in S : x # y => <<x, y>> \in R \/ <<y, x>> \in R

Place(x, R, S) == Cardinality({y \in S : <<y, x>> \in R})

LEMMA PlacesDiffer ==
    ASSUME NEW S, IsFiniteSet(S), NEW R, Orders(R, S)
    PROVE  /\ \A x \in S : Place(x, R, S) \in 0 .. (Cardinality(S) - 1)
           /\ \A x \in S, y \in S : Place(x, R, S) = Place(y, R, S) => x = y
<1> DEFINE before(x) == {y \in S : <<y, x>> \in R}
<1>1. \A x \in S : IsFiniteSet(before(x)) /\ Cardinality(before(x)) \in Nat
  BY FS_Subset, FS_CardinalityType
<1>2. ASSUME NEW x \in S PROVE Place(x, R, S) \in 0 .. (Cardinality(S) - 1)
  <2>1. before(x) \in SUBSET (S \ {x})
    BY DEF Orders
  <2>2. IsFiniteSet(S \ {x}) /\ Cardinality(S \ {x}) = Cardinality(S) - 1
    BY FS_RemoveElement
  <2>3. Place(x, R, S) = Cardinality(before(x)) /\ Cardinality(before(x)) \in Nat
    BY <1>1 DEF Place
  <2> HIDE DEF before
  <2>4. Cardinality(before(x)) <= Cardinality(S \ {x})
    BY <2>1, <2>2, FS_Subset
  <2>5. Cardinality(S) \in Nat
    BY FS_CardinalityType
  <2>6. QED
    BY <2>2, <2>3, <2>4, <2>5
<1>3. ASSUME NEW x \in S, NEW y \in S, <<x, y>> \in R
      PROVE  Place(x, R, S) < Place(y, R, S)
  <2>1. x \notin before(x) /\ before(x) \cup {x} \in SUBSET before(y)
    BY <1>3 DEF Orders
  <2>2. Cardinality(before(x) \cup {x}) = Cardinality(before(x)) + 1
    <3> HIDE DEF before
    <3>1. QED
      BY <1>1, <2>1, FS_AddElement
  <2>3. Cardinality(before(x) \cup {x}) <= Cardinality(before(y))
    <3>1. IsFiniteSet(before(y))
      BY <1>1
    <3> HIDE DEF before
    <3>2. QED
      BY <2>1, <3>1, FS_Subset
  <2>4. Place(x, R, S) = Cardinality(before(x)) /\ Place(y, R, S) = Cardinality(before(y))
    BY DEF Place
  <2>5. Cardinality(before(x)) \in Nat /\ Cardinality(before(y)) \in Nat
    BY <1>1
  <2> HIDE DEF before
  <2>6. QED
    BY <2>2, <2>3, <2>4, <2>5
<1>4. ASSUME NEW x \in S, NEW y \in S, Place(x, R, S) = Place(y, R, S)
      PROVE  x = y
  <2> SUFFICES ASSUME x # y PROVE FALSE
    OBVIOUS
  <2>1. Place(x, R, S) < Place(y, R, S) \/ Place(y, R, S) < Place(x, R, S)
    BY <1>3 DEF Orders
  <2>2. Place(x, R, S) \in Int /\ Place(y, R, S) \in Int
    BY <1>2
  <2>3. QED
    BY <1>4, <2>1, <2>2
<1>5. QED
  BY <1>2, <1>4

LEMMA PlacesAreTaken ==
    ASSUME NEW S, IsFiniteSet(S), NEW R, Orders(R, S)
    PROVE  \A n \in 1 .. Cardinality(S) : \E x \in S : Place(x, R, S) = n - 1
<1> DEFINE last == Cardinality(S) - 1
           places == 0 .. last
           f == [x \in S |-> Place(x, R, S)]
<1>1. Cardinality(S) \in Nat
  BY FS_CardinalityType
<1>2. IsFiniteSet(places) /\ Cardinality(places) = Cardinality(S)
  <2>1. last \in Int /\ (0 > last <=> Cardinality(S) = 0) /\ last - 0 + 1 = Cardinality(S)
    BY <1>1
  <2> HIDE DEF last
  <2>2. 0 \in Int
    OBVIOUS
  <2>3. QED
    BY <2>1, <2>2, FS_Interval
<1> HIDE DEF last
<1>3. f \in Injection(S, places)
  <2>1. f \in [S -> places]
    BY PlacesDiffer DEF last
  <2>2. \A x \in S, y \in S : f[x] = f[y] => x = y
    BY PlacesDiffer
  <2> HIDE DEF f, places
  <2>3. QED
    BY <2>1, <2>2 DEF Injection, IsInjective
<1>4. f \in Surjection(S, places)
  <2> HIDE DEF f, places
  <2>1. QED
    BY <1>2, <1>3, FS_Injection
<1>5. ASSUME NEW n \in 1 .. Cardinality(S) PROVE \E x \in S : Place(x, R, S) = n - 1
  <2>1. n - 1 \in places
    BY <1>1 DEF last
  <2>2. PICK x \in S : f[x] = n - 1
    <3> HIDE DEF f, places
    <3>1. QED
      BY <1>4, <2>1 DEF Surjection
  <2>3. QED
    BY <2>2
<1>6. QED
  BY <1>5

\* A sequence that has everything at its place.
LEMMA InOrder ==
    ASSUME NEW S, IsFiniteSet(S), NEW R, Orders(R, S),
           NEW s \in [1 .. Cardinality(S) -> S],
           \A n \in 1 .. Cardinality(S) : Place(s[n], R, S) = n - 1
    PROVE  s \in Seq(S) /\ Len(s) = Cardinality(S) /\ ToSet(s) = S
<1>1. Cardinality(S) \in Nat
  BY FS_CardinalityType
<1>2. s \in [1 .. Cardinality(S) -> S]
  OBVIOUS
<1>3. s \in Seq(S) /\ Len(s) = Cardinality(S) /\ DOMAIN s = 1 .. Cardinality(S)
  BY <1>1, <1>2
<1>4. ASSUME NEW x \in S PROVE \E n \in 1 .. Cardinality(S) : s[n] = x
  <2>1. Place(x, R, S) \in 0 .. (Cardinality(S) - 1)
    BY PlacesDiffer
  <2>2. /\ Place(x, R, S) + 1 \in 1 .. Cardinality(S)
        /\ (Place(x, R, S) + 1) - 1 = Place(x, R, S)
    BY <1>1, <2>1
  <2>3. /\ s[Place(x, R, S) + 1] \in S
        /\ Place(s[Place(x, R, S) + 1], R, S) = Place(x, R, S)
    BY <2>2
  <2>4. s[Place(x, R, S) + 1] = x
    BY <2>3, PlacesDiffer
  <2>5. QED
    BY <2>2, <2>4
<1>5. \A x \in S : x \in ToSet(s)
  BY <1>3, <1>4 DEF ToSet
<1>6. \A x \in ToSet(s) : x \in S
  BY <1>2, <1>3 DEF ToSet
<1>7. QED
  BY <1>3, <1>5, <1>6

\* The function a fold is the last value of, on its own and along the places.
Solves(g, n, A, base, step) ==
    /\ g = [t \in SUBSET (1 .. n) |-> g[t]]
    /\ g[{}] = base
    /\ \A t \in SUBSET (1 .. n) : t # {} =>
          /\ Max(t) \in 1 .. n /\ g[t \ {Max(t)}] \in A
          /\ g[t] = step[<<Max(t), g[t \ {Max(t)}]>>]

Follows(g, n, A, base, step) ==
    /\ g[{}] = base
    /\ \A t \in SUBSET (1 .. n) : t # {} /\ g[t \ {Max(t)}] \in A =>
          g[t] = step[<<Max(t), g[t \ {Max(t)}]>>]

Steps(g, n, A, base, step) ==
    /\ g[1 .. 0] = base
    /\ \A i \in 0 .. n : g[1 .. i] \in A
    /\ \A i \in 1 .. n : g[1 .. i] = step[<<i, g[1 .. (i - 1)]>>]

LEMMA FoldSteps ==
    ASSUME NEW n \in Nat, NEW A, NEW base \in A, NEW step \in [(1 .. n) \X A -> A],
           NEW fold, Follows(fold, n, A, base, step)
    PROVE  Steps(fold, n, A, base, step)
<1> DEFINE Good == {k \in 0 .. n : fold[1 .. k] \in A}
<1>1. 0 \in Good /\ fold[1 .. 0] = base
  <2>1. 1 .. 0 = {} /\ 0 \in 0 .. n
    OBVIOUS
  <2>2. QED
    BY <2>1 DEF Follows
<1>2. ASSUME NEW k \in 1 .. n, k - 1 \in Good
      PROVE  fold[1 .. k] = step[<<k, fold[1 .. (k - 1)]>>] /\ k \in Good
  <2>1. k \in Nat \ {0} /\ 1 .. k \in SUBSET (1 .. n) /\ k \in 0 .. n
    OBVIOUS
  <2>2. 1 .. k # {} /\ Max(1 .. k) = k /\ (1 .. k) \ {k} = 1 .. (k - 1)
    BY <2>1, FirstPlaces
  <2>3. fold[1 .. (k - 1)] \in A
    BY <1>2
  <2>4. fold[1 .. k] = step[<<k, fold[1 .. (k - 1)]>>]
    BY <2>1, <2>2, <2>3 DEF Follows
  <2>5. step[<<k, fold[1 .. (k - 1)]>>] \in A
    BY <2>3
  <2>6. QED
    BY <2>1, <2>4, <2>5
<1>3. \A i \in 0 .. n : i \in Good
  <2>1. \A k \in 1 .. n : k - 1 \in Good => k \in Good
    BY <1>2
  <2> HIDE DEF Good
  <2>2. QED
    BY <1>1, <2>1, Climb
<1>4. \A i \in 1 .. n : i - 1 \in Good
  BY <1>3
<1>5. QED
  BY <1>1, <1>2, <1>3, <1>4 DEF Steps

\* There is such a CHOOSE: the function FoldExists gives.
LEMMA FoldSolves ==
    ASSUME NEW n \in Nat, NEW A, NEW base \in A, NEW step \in [(1 .. n) \X A -> A]
    PROVE  \E g : Solves(g, n, A, base, step)
<1>1. PICK g \in [SUBSET (1 .. n) -> A] : IsFold(g, n, base, step)
  BY FoldExists
<1>2. ASSUME NEW t \in SUBSET (1 .. n), t # {}
      PROVE  /\ Max(t) \in 1 .. n /\ g[t \ {Max(t)}] \in A
             /\ g[t] = step[<<Max(t), g[t \ {Max(t)}]>>]
  <2>1. Max(t) \in t
    BY <1>2, MaxIsLast DEF IsLast
  <2>2. QED
    BY <1>1, <1>2, <2>1 DEF IsFold
<1>3. g[{}] = base
  BY <1>1 DEF IsFold
<1>4. g = [t \in SUBSET (1 .. n) |-> g[t]]
  OBVIOUS
<1>5. QED
  BY <1>2, <1>3, <1>4 DEF Solves

\* What is kept after each element of the list.
KeepsEach(run, s, S, X) ==
    /\ run \in [0 .. Len(s) -> Seq(X)] /\ run[0] = <<>>
    /\ \A i \in 1 .. Len(s) : run[i] = IF s[i] \in S THEN Append(run[i - 1], s[i]) ELSE run[i - 1]

LEMMA WithinIsRun ==
    ASSUME NEW X, NEW s \in Seq(X), NEW S
    PROVE  \E run : KeepsEach(run, s, S, X) /\ run[Len(s)] = Within(s, S)
<1> DEFINE n == Len(s)
           A == Seq(X)
           step == [c \in (1 .. n) \X A |-> IF s[c[1]] \in S THEN Append(c[2], s[c[1]]) ELSE c[2]]
           Folds(g) == g = [t \in SUBSET DOMAIN s |->
                              IF t = {} THEN <<>>
                              ELSE IF s[Max(t)] \in S
                                   THEN Append(g[t \ {Max(t)}], s[Max(t)])
                                   ELSE g[t \ {Max(t)}]]
           fold == CHOOSE g : Folds(g)
           run == [i \in 0 .. n |-> fold[1 .. i]]
<1>1. n \in Nat /\ DOMAIN s = 1 .. n /\ \A i \in 1 .. n : s[i] \in X
  OBVIOUS
<1>2. <<>> \in A /\ step \in [(1 .. n) \X A -> A]
  BY <1>1
<1>3. Within(s, S) = fold[DOMAIN s]
  BY DEF Within, FoldLeft, MapThenFoldSet
<1> HIDE DEF n, A
<1>4. \A i \in 1 .. n : \A a \in A :
         step[<<i, a>>] = IF s[i] \in S THEN Append(a, s[i]) ELSE a
  OBVIOUS
<1> HIDE DEF step
<1>5. \E g : Folds(g)
  <2>1. PICK g : Solves(g, n, A, <<>>, step)
    BY <1>1, <1>2, FoldSolves
  <2>2. Folds(g)
    BY <1>1, <1>4, <2>1 DEF Solves
  <2>3. QED
    BY <2>2
<1>6. Folds(fold)
  BY <1>5
<1> HIDE DEF fold
<1>7. /\ fold[{}] = <<>>
      /\ \A t \in SUBSET (1 .. n) : t # {} =>
           fold[t] = IF s[Max(t)] \in S
                     THEN Append(fold[t \ {Max(t)}], s[Max(t)])
                     ELSE fold[t \ {Max(t)}]
  BY <1>1, <1>6
<1> HIDE DEF Folds
<1>8. Follows(fold, n, A, <<>>, step)
  <2>1. \A t \in SUBSET (1 .. n) : t # {} => Max(t) \in 1 .. n
    BY <1>1, MaxIsLast DEF IsLast
  <2>2. QED
    BY <1>4, <1>7, <2>1 DEF Follows
<1>9. Steps(fold, n, A, <<>>, step)
  BY <1>1, <1>2, <1>8, FoldSteps
<1>10. run \in [0 .. n -> A] /\ run[0] = <<>>
  BY <1>1, <1>9 DEF Steps
<1>11. ASSUME NEW i \in 1 .. n
       PROVE  run[i] = IF s[i] \in S THEN Append(run[i - 1], s[i]) ELSE run[i - 1]
  <2>1. i \in 0 .. n /\ i - 1 \in 0 .. n
    BY <1>1
  <2>2. fold[1 .. (i - 1)] \in A /\ fold[1 .. i] = step[<<i, fold[1 .. (i - 1)]>>]
    BY <1>9, <2>1 DEF Steps
  <2>3. fold[1 .. i] = IF s[i] \in S THEN Append(fold[1 .. (i - 1)], s[i]) ELSE fold[1 .. (i - 1)]
    BY <1>4, <2>2
  <2>4. QED
    BY <2>1, <2>3
<1>12. run[n] = Within(s, S)
  <2>1. n \in 0 .. n
    BY <1>1
  <2>2. QED
    BY <1>1, <1>3, <2>1
<1> HIDE DEF run
<1>13. QED
  BY <1>10, <1>11, <1>12 DEF n, A, KeepsEach

\* A comprehension's filter keeps what it says.
LEMMA WithinIsAll ==
    ASSUME NEW X, NEW s \in Seq(X), NEW S
    PROVE  /\ Within(s, S) \in Seq(X)
           /\ ToSet(Within(s, S)) = ToSet(s) \cap S
           /\ Len(Within(s, S)) <= Len(s)
<1> DEFINE n == Len(s)
<1>1. n \in Nat /\ DOMAIN s = 1 .. n /\ \A i \in 1 .. n : s[i] \in X
  OBVIOUS
<1>2. PICK run : KeepsEach(run, s, S, X) /\ run[Len(s)] = Within(s, S)
  BY WithinIsRun
<1>3. /\ run \in [0 .. n -> Seq(X)] /\ run[0] = <<>> /\ run[n] = Within(s, S)
      /\ \A i \in 1 .. n : run[i] = IF s[i] \in S THEN Append(run[i - 1], s[i]) ELSE run[i - 1]
  BY <1>2 DEF KeepsEach
<1> HIDE DEF n
<1> DEFINE Good == {k \in 0 .. n :
                      /\ \A x : x \in ToSet(run[k]) <=> \E i \in 1 .. k : s[i] = x /\ x \in S
                      /\ Len(run[k]) <= k}
<1>4. 0 \in Good
  <2>1. 1 .. 0 = {} /\ 0 \in 0 .. n /\ ToSet(<<>>) = {} /\ Len(<<>>) <= 0
    BY <1>1 DEF ToSet
  <2>2. QED
    BY <1>3, <2>1
<1>5. \A k \in 1 .. n : k - 1 \in Good => k \in Good
  <2> SUFFICES ASSUME NEW k \in 1 .. n, k - 1 \in Good PROVE k \in Good
    OBVIOUS
  <2>1. /\ k \in 0 .. n /\ run[k - 1] \in Seq(X) /\ s[k] \in X
        /\ \A x : x \in ToSet(run[k - 1]) <=> \E i \in 1 .. (k - 1) : s[i] = x /\ x \in S
        /\ Len(run[k - 1]) <= k - 1
    BY <1>1, <1>3
  <2>2. \A i : i \in 1 .. k <=> i = k \/ i \in 1 .. (k - 1)
    BY <1>1
  <2>3. CASE s[k] \in S
    <3>1. run[k] = Append(run[k - 1], s[k])
      BY <1>3, <2>3
    <3>2. /\ run[k] \in Seq(X)
          /\ \A x : x \in ToSet(run[k]) <=> x \in ToSet(run[k - 1]) \/ x = s[k]
          /\ Len(run[k]) = Len(run[k - 1]) + 1
      BY <2>1, <3>1, AppendIsAll
    <3>3. Len(run[k]) <= k
      BY <1>1, <2>1, <3>2
    <3>4. QED
      BY <2>1, <2>2, <2>3, <3>2, <3>3
  <2>4. CASE s[k] \notin S
    <3>1. run[k] = run[k - 1]
      BY <1>3, <2>4
    <3>2. Len(run[k]) <= k
      BY <1>1, <2>1, <3>1
    <3>3. QED
      BY <2>1, <2>2, <2>4, <3>1, <3>2
  <2>5. QED
    BY <2>3, <2>4
<1> HIDE DEF Good
<1>6. n \in Good
  <2>1. \A i \in 0 .. n : i \in Good
    BY <1>1, <1>4, <1>5, Climb
  <2>2. n \in 0 .. n
    BY <1>1
  <2>3. QED
    BY <2>1, <2>2
<1>7. \A x : x \in ToSet(s) <=> \E i \in 1 .. n : s[i] = x
  BY <1>1 DEF ToSet
<1>8. QED
  <2>1. /\ run[n] \in Seq(X)
        /\ \A x : x \in ToSet(run[n]) <=> \E i \in 1 .. n : s[i] = x /\ x \in S
        /\ Len(run[n]) <= n
    BY <1>3, <1>6 DEF Good
  <2>2. \A x : x \in ToSet(run[n]) <=> x \in ToSet(s) /\ x \in S
    BY <1>7, <2>1
  <2>3. QED
    BY <1>1, <1>3, <2>1, <2>2

\* What is on a list once is once on what is kept of it.
LEMMA WithinIsDistinct ==
    ASSUME NEW X, NEW s \in Seq(X), NEW S, \A i, j \in DOMAIN s : s[i] = s[j] => i = j
    PROVE  \A i, j \in DOMAIN Within(s, S) : Within(s, S)[i] = Within(s, S)[j] => i = j
<1> DEFINE n == Len(s)
<1>1. n \in Nat /\ DOMAIN s = 1 .. n /\ \A i \in 1 .. n : s[i] \in X
  OBVIOUS
<1>2. PICK run : KeepsEach(run, s, S, X) /\ run[Len(s)] = Within(s, S)
  BY WithinIsRun
<1>3. /\ run \in [0 .. n -> Seq(X)] /\ run[0] = <<>> /\ run[n] = Within(s, S)
      /\ \A i \in 1 .. n : run[i] = IF s[i] \in S THEN Append(run[i - 1], s[i]) ELSE run[i - 1]
  BY <1>2 DEF KeepsEach
<1> HIDE DEF n
<1> DEFINE Once(list) == \A i, j \in DOMAIN list : list[i] = list[j] => i = j
           From(list, k) == \A i \in DOMAIN list : \E j \in 1 .. k : list[i] = s[j]
           Good == {k \in 0 .. n : Once(run[k]) /\ From(run[k], k)}
<1>4. 0 \in Good
  <2>1. DOMAIN <<>> = {}
    OBVIOUS
  <2>2. QED
    BY <1>1, <1>3, <2>1
<1>5. ASSUME NEW k \in 1 .. n, k - 1 \in Good PROVE k \in Good
  <2> DEFINE old == run[k - 1]
             m == Len(old)
  <2>1. /\ k \in 0 .. n /\ k - 1 \in 0 .. n /\ old \in Seq(X) /\ Once(old) /\ From(old, k - 1)
        /\ k \in DOMAIN s /\ s[k] \in X
    BY <1>1, <1>3, <1>5
  <2>2. \A j \in 1 .. (k - 1) : j \in 1 .. k /\ j \in DOMAIN s /\ j # k
    BY <1>1
  <2>3. CASE s[k] \in S
    <3>1. run[k] = Append(old, s[k])
      BY <1>3, <2>3
    <3>2. m \in Nat /\ DOMAIN old = 1 .. m
      BY <2>1
    <3> DEFINE now == Append(old, s[k])
    <3>3. /\ DOMAIN now = 1 .. (m + 1) /\ now[m + 1] = s[k]
          /\ \A i \in 1 .. m : now[i] = old[i]
      BY <2>1
    <3>4. \A i \in 1 .. m : old[i] # s[k]
      BY <2>1, <2>2, <3>2
    <3> HIDE DEF now, old, m
    <3>5. \A i \in DOMAIN now : i = m + 1 \/ i \in 1 .. m
      BY <3>2, <3>3
    <3>6. Once(now)
      BY <2>1, <3>2, <3>3, <3>4, <3>5
    <3>7. From(now, k)
      <4>1. k \in 1 .. k
        BY <1>1
      <4>2. QED
        BY <2>1, <2>2, <3>2, <3>3, <3>5, <4>1
    <3> HIDE DEF Once, From
    <3>8. QED
      BY <2>1, <3>1, <3>6, <3>7 DEF now
  <2>4. CASE s[k] \notin S
    <3>1. run[k] = old
      BY <1>3, <2>4
    <3> HIDE DEF old
    <3>2. From(old, k)
      BY <2>1, <2>2
    <3> HIDE DEF Once, From
    <3>3. QED
      BY <2>1, <3>1, <3>2
  <2>5. QED
    BY <2>3, <2>4
<1> HIDE DEF Good
<1>6. \A k \in 0 .. n : k \in Good
  BY <1>1, <1>4, <1>5, Climb
<1>7. n \in Good
  BY <1>1, <1>6
<1>8. QED
  BY <1>3, <1>7 DEF Good
=============================================================================
