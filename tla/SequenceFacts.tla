--------------------------- MODULE SequenceFacts ----------------------------
(***************************************************************************)
(* What the proofs need of sets of numbers and of sequences, and the       *)
(* library does not state: a set of numbers has a least element, a bounded *)
(* one a largest, and what is left of a sequence without one element.  The *)
(* first is an instance of the order of the naturals being well-founded    *)
(* (NatLessThanWellFounded, WFMin); no induction is used.                  *)
(***************************************************************************)
EXTENDS Naturals, Integers, SequencesExt, FiniteSetsExt, SequenceTheorems,
        WellFoundedInduction, TLAPS

LessThan == {p \in Nat \X Nat : p[1] < p[2]}

LEMMA LessIsWellFounded == IsWellFoundedOn(LessThan, Nat)
<1>1. OpToRel(<, Nat) = LessThan
  BY DEF OpToRel, LessThan
<1>2. QED
  BY <1>1, NatLessThanWellFounded, Zenon

LEMMA MinIsLeast ==
    ASSUME NEW S \in SUBSET Nat, S # {}
    PROVE  Min(S) \in S /\ \A s \in S : Min(S) <= s
<1>1. PICK m \in S : \A s \in S : ~(<<s, m>> \in LessThan)
  BY LessIsWellFounded, WFMin
<1>2. ASSUME NEW s \in S
      PROVE  m =< s
  <2>1. s \in Nat /\ m \in Nat /\ ~(s < m)
    BY <1>1 DEF LessThan
  <2>2. QED
    BY <2>1
<1>3. QED
  BY <1>2, Zenon DEF Min

\* A bounded set of numbers has a largest one, and Max is it.
LEMMA MaxIsLargest ==
    ASSUME NEW N \in Nat, NEW S \in SUBSET (0 .. N), S # {}
    PROVE  Max(S) \in S /\ \A s \in S : s <= Max(S)
<1> DEFINE T == {N - s : s \in S}
<1>1. T \in SUBSET Nat /\ T # {}
  <2>1. \A s \in S : N - s \in Nat
    OBVIOUS
  <2>2. QED
    BY <2>1
<1>2. PICK t \in T : \A u \in T : ~(<<u, t>> \in LessThan)
  BY <1>1, LessIsWellFounded, WFMin
<1>3. PICK m \in S : t = N - m
  BY <1>2
<1>4. ASSUME NEW s \in S
      PROVE  m >= s
  <2>1. N - s \in T /\ N - s \in Nat /\ t \in Nat /\ m \in Nat /\ s \in Nat
    BY <1>1
  <2>2. ~(N - s < t)
    BY <1>2, <2>1 DEF LessThan
  <2>3. QED
    BY <1>3, <2>1, <2>2
<1>5. Max(S) \in S /\ \A s \in S : Max(S) >= s
  BY <1>4, Zenon DEF Max
<1>6. QED
  BY <1>5

LEMMA MaxOfTwo ==
    ASSUME NEW a \in Nat, NEW b \in Nat
    PROVE  Max({a, b}) \in {a, b} /\ Max({a, b}) >= a /\ Max({a, b}) >= b
<1>1. \E m \in {a, b} : \A s \in {a, b} : m >= s
  <2>1. CASE a >= b
    BY <2>1
  <2>2. CASE b >= a
    BY <2>2
  <2>3. QED
    BY <2>1, <2>2
<1>2. Max({a, b}) \in {a, b} /\ \A s \in {a, b} : Max({a, b}) >= s
  BY <1>1, Zenon DEF Max
<1>3. QED
  BY <1>2

LEMMA RemoveAtFacts ==
    ASSUME NEW T, NEW q \in Seq(T), NEW k \in 1 .. Len(q)
    PROVE  /\ RemoveAt(q, k) \in Seq(T) /\ Len(RemoveAt(q, k)) = Len(q) - 1
           /\ \A i \in 1 .. Len(q) - 1 :
                RemoveAt(q, k)[i] = IF i < k THEN q[i] ELSE q[i + 1]
<1> DEFINE a == SubSeq(q, 1, k - 1)
           b == SubSeq(q, k + 1, Len(q))
<1>1. Len(q) \in Nat /\ k \in Nat /\ k >= 1 /\ k <= Len(q) /\ \A i \in 1 .. Len(q) : q[i] \in T
  BY LenProperties, ElementOfSeq
<1>2. /\ a \in Seq(T) /\ Len(a) = k - 1
      /\ \A i \in 1 .. k - 1 : a[i] = q[i]
  <2>1. \A i \in 1 .. k - 1 : q[i] \in T
    BY <1>1
  <2>2. 1 \in Int /\ k - 1 \in Int
    BY <1>1
  <2>3. /\ a \in Seq(T) /\ Len(a) = IF 1 <= k - 1 THEN (k - 1) - 1 + 1 ELSE 0
        /\ \A i \in 1 .. (k - 1) - 1 + 1 : a[i] = q[1 + i - 1]
    BY <2>1, <2>2, SubSeqProperties
  <2>4. QED
    BY <1>1, <2>3
<1>3. /\ b \in Seq(T) /\ Len(b) = Len(q) - k
      /\ \A i \in 1 .. Len(q) - k : b[i] = q[k + i]
  <2>1. \A i \in k + 1 .. Len(q) : q[i] \in T
    BY <1>1
  <2>2. k + 1 \in Int /\ Len(q) \in Int
    BY <1>1
  <2>3. /\ b \in Seq(T) /\ Len(b) = IF k + 1 <= Len(q) THEN Len(q) - (k + 1) + 1 ELSE 0
        /\ \A i \in 1 .. Len(q) - (k + 1) + 1 : b[i] = q[(k + 1) + i - 1]
    BY <2>1, <2>2, SubSeqProperties
  <2>4. QED
    BY <1>1, <2>3
<1> HIDE DEF a, b
<1>4. /\ a \o b \in Seq(T) /\ Len(a \o b) = Len(a) + Len(b)
      /\ \A i \in 1 .. Len(a) + Len(b) : (a \o b)[i] = IF i <= Len(a) THEN a[i] ELSE b[i - Len(a)]
  BY <1>2, <1>3, ConcatProperties
<1>5. \A i \in 1 .. Len(q) - 1 : (a \o b)[i] = IF i < k THEN q[i] ELSE q[i + 1]
  <2>1. TAKE i \in 1 .. Len(q) - 1
  <2>2. CASE i < k
    BY <1>1, <1>2, <1>3, <1>4, <2>2
  <2>3. CASE ~(i < k)
    <3>1. i - (k - 1) \in 1 .. Len(q) - k /\ k + (i - (k - 1)) = i + 1
      BY <1>1, <2>3
    <3>2. (a \o b)[i] = b[i - (k - 1)]
      BY <1>1, <1>2, <1>3, <1>4, <2>3
    <3>3. QED
      BY <1>3, <2>3, <3>1, <3>2
  <2>4. QED
    BY <2>2, <2>3
<1>6. RemoveAt(q, k) = a \o b
  BY DEF RemoveAt, a, b
<1>7. Len(a \o b) = Len(q) - 1
  BY <1>1, <1>2, <1>3, <1>4
<1>8. QED
  BY <1>4, <1>5, <1>6, <1>7

\* A sequence of different elements, and what is left of it without one of them.
Different(q) == \A i, j \in 1 .. Len(q) : q[i] = q[j] => i = j
Among(w, q) == \E i \in 1 .. Len(q) : q[i] = w

LEMMA RemoveFirstFacts ==
    ASSUME NEW T, NEW q \in Seq(T), Different(q), NEW w
    PROVE  /\ RemoveFirst(q, w) \in Seq(T) /\ Different(RemoveFirst(q, w))
           /\ \A x : Among(x, RemoveFirst(q, w)) <=> x # w /\ Among(x, q)
<1> DEFINE p == RemoveFirst(q, w)
<1>1. Len(q) \in Nat
  OBVIOUS
<1>2. CASE \E i \in 1 .. Len(q) : q[i] = w
  <2> DEFINE I == {i \in 1 .. Len(q) : q[i] = w}
             k == Min(I)
             was(n) == IF n < k THEN n ELSE n + 1
  <2>1. I # {} /\ I \in SUBSET Nat
    BY <1>1, <1>2
  <2>2. k \in I
    BY <2>1, MinIsLeast
  <2>3. p = RemoveAt(q, k)
    BY <1>2, <2>1 DEF RemoveFirst, SelectInSeq
  <2>4. k \in 1 .. Len(q) /\ q[k] = w /\ k \in Nat
    BY <2>2
  <2> HIDE DEF k, p
  <2>5. /\ p \in Seq(T) /\ Len(p) = Len(q) - 1
        /\ \A i \in 1 .. Len(q) - 1 : p[i] = IF i < k THEN q[i] ELSE q[i + 1]
    BY <2>3, <2>4, RemoveAtFacts
  <2>6. ASSUME NEW i \in 1 .. Len(p)
        PROVE  was(i) \in 1 .. Len(q) /\ was(i) # k /\ p[i] = q[was(i)]
    <3>1. i \in 1 .. Len(q) - 1
      BY <2>5
    <3>2. CASE i < k
      BY <1>1, <2>4, <2>5, <3>1, <3>2
    <3>3. CASE ~(i < k)
      BY <1>1, <2>4, <2>5, <3>1, <3>3
    <3>4. QED
      BY <3>2, <3>3
  <2>7. ASSUME NEW i \in 1 .. Len(p), NEW j \in 1 .. Len(p), p[i] = p[j]
        PROVE  i = j
    <3>1. was(i) = was(j)
      BY <2>6, <2>7 DEF Different
    <3>2. i \in Nat /\ j \in Nat
      BY <1>1, <2>5
    <3>3. QED
      BY <2>4, <3>1, <3>2
  <2>8. ASSUME NEW i \in 1 .. Len(p)
        PROVE  p[i] # w /\ Among(p[i], q)
    BY <2>4, <2>6 DEF Different, Among
  <2>9. ASSUME NEW i \in 1 .. Len(q), q[i] # w
        PROVE  Among(q[i], p)
    <3>1. i # k
      BY <2>4, <2>9
    <3>2. CASE i < k
      <4>1. i \in 1 .. Len(q) - 1
        BY <1>1, <2>4, <3>2
      <4>2. QED
        BY <2>5, <3>2, <4>1 DEF Among
    <3>3. CASE i > k
      <4>1. i - 1 \in 1 .. Len(q) - 1 /\ ~(i - 1 < k) /\ (i - 1) + 1 = i
        BY <1>1, <2>4, <3>3
      <4>2. p[i - 1] = q[i]
        BY <2>5, <4>1
      <4>3. QED
        BY <2>5, <4>1, <4>2 DEF Among
    <3>4. QED
      BY <1>1, <2>4, <3>1, <3>2, <3>3
  <2>10. \A x : Among(x, p) <=> x # w /\ Among(x, q)
    <3>1. \A x : Among(x, p) => x # w /\ Among(x, q)
      BY <2>8 DEF Among
    <3>2. \A x : x # w /\ Among(x, q) => Among(x, p)
      BY <2>9 DEF Among
    <3>3. QED
      BY <3>1, <3>2
  <2>11. QED
    BY <2>5, <2>7, <2>10 DEF p, Different
<1>3. CASE ~\E i \in 1 .. Len(q) : q[i] = w
  BY <1>3 DEF RemoveFirst, Different, Among
<1>4. QED
  BY <1>2, <1>3

\* One more element that was not there, and one less at the front.
LEMMA AppendFacts ==
    ASSUME NEW T, NEW q \in Seq(T), Different(q), NEW w \in T, ~Among(w, q)
    PROVE  /\ Append(q, w) \in Seq(T) /\ Different(Append(q, w))
           /\ \A x : Among(x, Append(q, w)) <=> x = w \/ Among(x, q)
<1> DEFINE p == Append(q, w)
<1>1. /\ p \in Seq(T) /\ Len(p) = Len(q) + 1 /\ Len(q) \in Nat /\ p[Len(q) + 1] = w
      /\ \A i \in 1 .. Len(q) : p[i] = q[i]
  OBVIOUS
<1> HIDE DEF p
<1>2. \A i \in 1 .. Len(p) : i \in 1 .. Len(q) \/ i = Len(q) + 1
  BY <1>1
<1>3. \A i \in 1 .. Len(q) : i \in 1 .. Len(p) /\ i # Len(q) + 1 /\ q[i] # w
  BY <1>1 DEF Among
<1>4. Len(q) + 1 \in 1 .. Len(p)
  BY <1>1
<1>5. Different(p)
  BY <1>1, <1>2, <1>3 DEF Different
<1>6. \A x : Among(x, p) <=> x = w \/ Among(x, q)
  BY <1>1, <1>2, <1>3, <1>4 DEF Among
<1>7. QED
  BY <1>1, <1>5, <1>6 DEF p

LEMMA TailFacts ==
    ASSUME NEW T, NEW q \in Seq(T), Different(q), q # <<>>
    PROVE  /\ Head(q) \in T /\ Tail(q) \in Seq(T) /\ Different(Tail(q)) /\ Among(Head(q), q)
           /\ \A x : Among(x, Tail(q)) <=> x # Head(q) /\ Among(x, q)
<1> DEFINE p == Tail(q)
<1>1. /\ p \in Seq(T) /\ Len(p) = Len(q) - 1 /\ Len(q) \in Nat /\ Len(q) > 0 /\ Head(q) = q[1]
      /\ \A i \in 1 .. Len(p) : p[i] = q[i + 1]
  OBVIOUS
<1> HIDE DEF p
<1>2. \A i \in 1 .. Len(p) : i + 1 \in 1 .. Len(q) /\ i + 1 # 1 /\ i \in Nat
  BY <1>1
<1>3. \A i \in 1 .. Len(q) : i = 1 \/ (i - 1 \in 1 .. Len(p) /\ (i - 1) + 1 = i)
  BY <1>1
<1>4. 1 \in 1 .. Len(q) /\ q[1] \in T
  BY <1>1
<1>5. Different(p)
  BY <1>1, <1>2 DEF Different
<1>6. \A x : Among(x, p) => x # q[1] /\ Among(x, q)
  BY <1>1, <1>2, <1>4 DEF Among, Different
<1>7. \A x : x # q[1] /\ Among(x, q) => Among(x, p)
  <2>1. ASSUME NEW i \in 1 .. Len(q), q[i] # q[1]
        PROVE  i - 1 \in 1 .. Len(p) /\ p[i - 1] = q[i]
    BY <1>1, <1>3, <2>1
  <2>2. QED
    BY <2>1 DEF Among
<1>8. QED
  BY <1>1, <1>4, <1>5, <1>6, <1>7 DEF p, Among

\* What holds of 0, and of k when of k - 1, holds of all.
LEMMA CountingUp ==
    ASSUME NEW N \in Nat, NEW T, 0 \in T, \A k \in 1 .. N : k - 1 \in T => k \in T
    PROVE  \A k \in 0 .. N : k \in T
<1> DEFINE B == {k \in 0 .. N : k \notin T}
<1>1. SUFFICES ASSUME B # {} PROVE FALSE
  OBVIOUS
<1>2. B \in SUBSET Nat
  OBVIOUS
<1>3. PICK m \in B : \A s \in B : m <= s
  BY <1>1, <1>2, MinIsLeast
<1>4. m \in 1 .. N /\ m - 1 \in 0 .. N /\ m - 1 \notin B
  BY <1>3
<1>5. QED
  BY <1>3, <1>4

\* Three sequences in a row.
Associates(s, t, r) == s \o (t \o r) = (s \o t) \o r

LEMMA InARow ==
    ASSUME NEW V, NEW s \in Seq(V), NEW t \in Seq(V), NEW r \in Seq(V)
    PROVE  Associates(s, t, r)
BY ConcatAssociative DEF Associates

\* A sequence cut in two, and one without its last element.
LEMMA CutInTwo ==
    ASSUME NEW V, NEW s \in Seq(V), NEW k \in 0 .. Len(s)
    PROVE  /\ SubSeq(s, 1, k) \in Seq(V) /\ Len(SubSeq(s, 1, k)) = k
           /\ SubSeq(s, k + 1, Len(s)) \in Seq(V)
           /\ SubSeq(s, 1, k) \o SubSeq(s, k + 1, Len(s)) = s
<1> DEFINE front == SubSeq(s, 1, k)
           back == SubSeq(s, k + 1, Len(s))
<1>1. Len(s) \in Nat /\ k \in Nat /\ k <= Len(s) /\ \A i \in 1 .. Len(s) : s[i] \in V
  OBVIOUS
<1>2. front \in Seq(V) /\ Len(front) = k /\ \A i \in 1 .. k : front[i] = s[i]
  BY <1>1
<1>3. /\ back \in Seq(V) /\ Len(back) = Len(s) - k
      /\ \A i \in 1 .. Len(s) - k : back[i] = s[k + i]
  BY <1>1
<1> HIDE DEF front, back
<1> DEFINE c == front \o back
<1>4. /\ c \in Seq(V) /\ Len(c) = Len(front) + Len(back)
      /\ \A i \in 1 .. Len(front) : c[i] = front[i]
      /\ \A i \in 1 .. Len(back) : c[Len(front) + i] = back[i]
  BY <1>2, <1>3
<1> HIDE DEF c
<1>5. ASSUME NEW i \in 1 .. Len(s)
      PROVE  c[i] = s[i]
  <2>1. CASE i <= k
    BY <1>1, <1>2, <1>4, <2>1
  <2>2. CASE i > k
    <3> DEFINE j == i - k
    <3>1. j \in 1 .. Len(s) - k /\ k + j = i
      BY <1>1, <2>2
    <3> HIDE DEF j
    <3>2. c[k + j] = back[j] /\ back[j] = s[k + j]
      BY <1>2, <1>3, <1>4, <3>1
    <3>3. QED
      BY <3>1, <3>2
  <2>3. QED
    BY <1>1, <2>1, <2>2
<1>6. c = s
  BY <1>1, <1>2, <1>3, <1>4, <1>5, SeqEqual
<1>7. QED
  BY <1>2, <1>3, <1>6 DEF c, front, back

LEMMA LastApart ==
    ASSUME NEW V, NEW q \in Seq(V), Len(q) >= 1
    PROVE  /\ SubSeq(q, 1, Len(q) - 1) \in Seq(V) /\ <<q[Len(q)]>> \in Seq(V)
           /\ SubSeq(q, 1, Len(q) - 1) \o <<q[Len(q)]>> = q
<1>1. Len(q) \in Nat /\ Len(q) \in 1 .. Len(q) /\ Len(q) - 1 \in 0 .. Len(q)
      /\ (Len(q) - 1) + 1 = Len(q)
  OBVIOUS
<1>2. q[Len(q)] \in V
  BY <1>1
<1>3. <<q[Len(q)]>> \in Seq(V)
  BY <1>2
<1>4. SubSeq(q, Len(q), Len(q)) = <<q[Len(q)]>>
  <2> DEFINE c == SubSeq(q, Len(q), Len(q))
             d == <<q[Len(q)]>>
  <2>1. c \in Seq(V) /\ Len(c) = 1 /\ c[1] = q[Len(q)]
    BY <1>1, <1>2
  <2>2. d \in Seq(V) /\ Len(d) = 1 /\ d[1] = q[Len(q)]
    BY <1>2
  <2> HIDE DEF c, d
  <2>3. Len(c) = Len(d) /\ \A i \in 1 .. Len(c) : c[i] = d[i]
    BY <2>1, <2>2
  <2>4. c = d
    BY <2>1, <2>2, <2>3, SeqEqual
  <2>5. QED
    BY <2>4 DEF c, d
<1>5. QED
  BY <1>1, <1>3, <1>4, CutInTwo
=============================================================================
