--------------------------- MODULE SelectionFacts ----------------------------
(***************************************************************************)
(* What the proofs need of numbers and lists and the library does not      *)
(* offer in a form that can be used here: induction and extreme elements,  *)
(* stated with sets, and what Chosen keeps.                                *)
(***************************************************************************)
EXTENDS Selections, Integers, FiniteSetTheorems, SequenceTheorems, TLAPS

-----------------------------------------------------------------------------
(* Numbers.                                                                *)

\* A set of numbers up to a bound has a least one: the numbers up to it are a
\* least set of their kind, and inclusion of finite sets is well founded.
LEMMA LeastExists ==
  ASSUME NEW k \in Nat, NEW S \in SUBSET (0..k), S # {}
  PROVE  \E n \in S : \A m \in S : n <= m
<1> DEFINE UpTo(n) == {m \in S : m <= n}
           R == StrictSubsetOrdering(0..k)
           T == {UpTo(n) : n \in S}
<1>1. IsFiniteSet(0..k)
  BY FS_Interval
<1>2. IsWellFoundedOn(R, SUBSET (0..k))
  BY <1>1, FS_StrictSubsetOrderingWellFounded, FS_FiniteSubsetsOfFinite
<1>3. T \subseteq SUBSET (0..k) /\ T # {}
  OBVIOUS
<1>4. \E x \in T : \A y \in T : ~(<<y, x>> \in R)
  <2> HIDE DEF R, T
  <2> QED  BY <1>2, <1>3, WFMin
<1>5. PICK n \in S : \A m \in S : ~(<<UpTo(m), UpTo(n)>> \in R)
  BY <1>4
<1>6. \A m \in S : n <= m
  <2> SUFFICES ASSUME NEW m \in S, m < n PROVE FALSE
    OBVIOUS
  <2>0. S \subseteq Nat
    OBVIOUS
  <2>1. UpTo(m) \subseteq UpTo(n)
    <3>1. \A x \in S : x <= m => x <= n
      BY <2>0
    <3> QED  BY <3>1
  <2>2. n \in UpTo(n) /\ n \notin UpTo(m)
    BY <2>0
  <2>3. <<UpTo(m), UpTo(n)>> \in R
    <3>1. UpTo(m) \in SUBSET (0..k) /\ UpTo(n) \in SUBSET (0..k)
      OBVIOUS
    <3> HIDE DEF UpTo
    <3> QED  BY <2>1, <2>2, <3>1 DEF StrictSubsetOrdering
  <2> QED  BY <2>3, <1>5
<1> QED
  BY <1>6

\* And so has every set of numbers.
LEMMA LeastNumber ==
  ASSUME NEW S \in SUBSET Nat, S # {}
  PROVE  \E n \in S : \A m \in S : n <= m
<1>1. PICK k \in S : TRUE
  OBVIOUS
<1> DEFINE B == S \cap (0..k)
<1>2. k \in Nat /\ B \in SUBSET (0..k) /\ B # {}
  BY <1>1
<1>3. PICK n \in B : \A m \in B : n <= m
  <2> HIDE DEF B
  <2> QED  BY <1>2, LeastExists
<1>4. \A m \in S : n <= m
  BY <1>2, <1>3
<1> QED
  BY <1>4

\* Induction, for a set in the place of a predicate.
LEMMA Induction ==
  ASSUME NEW S, 0 \in S, \A n \in Nat : n \in S => n + 1 \in S
  PROVE  Nat \subseteq S
<1> DEFINE B == Nat \ S
<1> SUFFICES ASSUME B # {} PROVE FALSE
  OBVIOUS
<1>1. PICK n \in B : \A m \in B : n <= m
  BY LeastNumber
<1>2. n # 0 /\ n - 1 \in Nat /\ n - 1 \notin B
  BY <1>1
<1> QED
  BY <1>1, <1>2

\* The same up to a bound.
LEMMA InductionUpTo ==
  ASSUME NEW k \in Nat, NEW S, 0 \in S, \A n \in 0..(k - 1) : n \in S => n + 1 \in S
  PROVE  0..k \subseteq S
<1> DEFINE B == (0..k) \ S
<1> SUFFICES ASSUME B # {} PROVE FALSE
  OBVIOUS
<1>1. PICK n \in B : \A m \in B : n <= m
  BY LeastExists
<1>2. n # 0 /\ n - 1 \in 0..(k - 1) /\ n - 1 \notin B
  BY <1>1
<1> QED
  BY <1>1, <1>2

\* A set of numbers up to a bound has a greatest one.
LEMMA GreatestExists ==
  ASSUME NEW k \in Nat, NEW S \in SUBSET (0..k), S # {}
  PROVE  \E n \in S : \A m \in S : m <= n
<1> DEFINE Bounds == {b \in Nat : \A m \in S : m <= b}
<1>1. k \in Bounds
  OBVIOUS
<1>2. PICK b \in Bounds : \A c \in Bounds : b <= c
  BY <1>1, LeastNumber
<1>3. b \in S
  <2> SUFFICES ASSUME b \notin S PROVE FALSE
    OBVIOUS
  <2>1. \A m \in S : m <= b - 1
    BY <1>2
  <2>2. PICK m \in S : TRUE
    OBVIOUS
  <2>3. b - 1 \in Nat
    <3>1. m \in Nat
      OBVIOUS
    <3> QED  BY <1>2, <2>1, <3>1
  <2> QED  BY <1>2, <2>1, <2>3
<1> QED
  BY <1>2, <1>3

-----------------------------------------------------------------------------
(* Chosen.                                                                 *)

\* The loop, unfolded: the function that Chosen is defined by exists.
Loop(s, places, F) ==
  F = [n \in 0..Len(s) |-> IF n = 0 THEN <<>>
                         ELSE IF n \in places THEN Append(F[n - 1], s[n]) ELSE F[n - 1]]

LEMMA LoopExists ==
  ASSUME NEW s, NEW places, Len(s) \in Nat
  PROVE  \E F : Loop(s, places, F)
<1> DEFINE Part(k, F) ==
      F = [n \in 0..k |-> IF n = 0 THEN <<>>
                        ELSE IF n \in places THEN Append(F[n - 1], s[n]) ELSE F[n - 1]]
           S == {k \in Nat : \E F : Part(k, F)}
<1>1. 0 \in S
  <2> DEFINE F == [n \in 0..0 |-> <<>>]
  <2>1. Part(0, F)
    OBVIOUS
  <2> QED  BY <2>1
<1>2. ASSUME NEW k \in Nat, k \in S PROVE k + 1 \in S
  <2>1. PICK F : Part(k, F)
    BY <1>2
  <2> DEFINE e == IF k + 1 \in places THEN Append(F[k], s[k + 1]) ELSE F[k]
             G == [n \in 0..(k + 1) |-> IF n = k + 1 THEN e ELSE F[n]]
  <2>2. ASSUME NEW n \in 0..(k + 1)
        PROVE  G[n] = IF n = 0 THEN <<>>
                      ELSE IF n \in places THEN Append(G[n - 1], s[n]) ELSE G[n - 1]
    <3>1. CASE n = k + 1
      <4>1. G[n] = e /\ G[n - 1] = F[k] /\ n # 0
        BY <3>1
      <4> QED  BY <3>1, <4>1
    <3>2. CASE n = 0
      <4>1. G[n] = F[0] /\ F[0] = <<>>
        BY <2>1, <3>2
      <4> QED  BY <3>2, <4>1
    <3>3. CASE n \in 1..k
      <4>1. G[n] = F[n] /\ G[n - 1] = F[n - 1] /\ n \in 0..k /\ n # 0
        BY <3>3
      <4>2. F[n] = IF n \in places THEN Append(F[n - 1], s[n]) ELSE F[n - 1]
        BY <2>1, <4>1
      <4> HIDE DEF G
      <4> QED  BY <4>1, <4>2
    <3> QED  BY <3>1, <3>2, <3>3
  <2>3. Part(k + 1, G)
    <3>1. G = [n \in 0..(k + 1) |-> G[n]]
      OBVIOUS
    <3> HIDE DEF G
    <3> QED  BY <2>2, <3>1
  <2>4. \E H : Part(k + 1, H)
    <3> HIDE DEF G, Part
    <3> QED  BY <2>3
  <2>5. k + 1 \in Nat
    OBVIOUS
  <2> HIDE DEF G, Part
  <2> QED  BY <2>4, <2>5
<1>3. Nat \subseteq S
  <2> HIDE DEF S
  <2> QED  BY <1>1, <1>2, Induction
<1> QED
  BY <1>3 DEF Loop

\* Chosen is such a loop, carried out to the end.
LEMMA ChosenIsLoop ==
  ASSUME NEW s, NEW places, Len(s) \in Nat
  PROVE  \E F : Loop(s, places, F) /\ Chosen(s, places) = F[Len(s)]
<1> DEFINE Body(F) == [n \in 0..Len(s) |-> IF n = 0 THEN <<>>
                         ELSE IF n \in places THEN Append(F[n - 1], s[n]) ELSE F[n - 1]]
           C == CHOOSE F : F = Body(F)
<1>1. Chosen(s, places) = C[Len(s)]
  BY DEF Chosen
<1>2. \E F : F = Body(F)
  BY LoopExists DEF Loop
<1>3. C = Body(C)
  <2> HIDE DEF Body
  <2> QED  BY <1>2
<1>4. Loop(s, places, C)
  BY <1>3 DEF Loop
<1> HIDE DEF C
<1> QED
  BY <1>1, <1>4

\* One turn of the loop.
LEMMA LoopTurn ==
  ASSUME NEW s, NEW places, NEW F, Loop(s, places, F), NEW n \in 1..Len(s), Len(s) \in Nat
  PROVE  /\ F[0] = <<>>
         /\ F[n] = IF n \in places THEN Append(F[n - 1], s[n]) ELSE F[n - 1]
<1>1. n \in 0..Len(s) /\ 0 \in 0..Len(s) /\ n # 0
  OBVIOUS
<1> DEFINE e(m) == IF m = 0 THEN <<>>
                   ELSE IF m \in places THEN Append(F[m - 1], s[m]) ELSE F[m - 1]
<1>2. F = [m \in 0..Len(s) |-> e(m)]
  BY DEF Loop
<1>3. F[n] = e(n) /\ F[0] = e(0)
  <2> HIDE DEF e
  <2> QED  BY <1>1, <1>2
<1> QED
  BY <1>1, <1>3

\* Two loops that have met the same have kept the same.
LEMMA LoopsAgree ==
  ASSUME NEW s, NEW places, NEW F, Loop(s, places, F), Len(s) \in Nat,
         NEW t, NEW others, NEW G, Loop(t, others, G), Len(t) \in Nat,
         NEW k \in Nat, k <= Len(s), k <= Len(t),
         \A n \in 1..k : s[n] = t[n] /\ (n \in places <=> n \in others)
  PROVE  F[k] = G[k]
<1> DEFINE S == {n \in 0..k : F[n] = G[n]}
<1>1. 0 \in S
  <2>1. 0 \in 0..Len(s) /\ 0 \in 0..Len(t)
    OBVIOUS
  <2>2. F[0] = <<>> /\ G[0] = <<>>
    BY <2>1 DEF Loop
  <2> QED  BY <2>2
<1>2. ASSUME NEW n \in 0..(k - 1), n \in S PROVE n + 1 \in S
  <2>1. n + 1 \in 1..Len(s) /\ n + 1 \in 1..Len(t) /\ n + 1 \in 1..k /\ (n + 1) - 1 = n
    OBVIOUS
  <2>2. F[n + 1] = IF n + 1 \in places THEN Append(F[(n + 1) - 1], s[n + 1]) ELSE F[(n + 1) - 1]
    BY <2>1, LoopTurn
  <2>3. G[n + 1] = IF n + 1 \in others THEN Append(G[(n + 1) - 1], t[n + 1]) ELSE G[(n + 1) - 1]
    BY <2>1, LoopTurn
  <2>4. F[n] = G[n] /\ s[n + 1] = t[n + 1] /\ (n + 1 \in places <=> n + 1 \in others)
    BY <1>2, <2>1
  <2>5. F[n + 1] = G[n + 1]
    BY <2>1, <2>2, <2>3, <2>4
  <2> QED  BY <2>1, <2>5
<1>3. 0..k \subseteq S
  <2> HIDE DEF S
  <2> QED  BY <1>1, <1>2, InductionUpTo
<1> QED
  BY <1>3

\* Only the places that a list has count.
LEMMA ChosenSame ==
  ASSUME NEW s, Len(s) \in Nat, NEW places, NEW others,
         \A n \in 1..Len(s) : n \in places <=> n \in others
  PROVE  Chosen(s, places) = Chosen(s, others)
<1>1. PICK F : Loop(s, places, F) /\ Chosen(s, places) = F[Len(s)]
  BY ChosenIsLoop
<1>2. PICK G : Loop(s, others, G) /\ Chosen(s, others) = G[Len(s)]
  BY ChosenIsLoop
<1>3. F[Len(s)] = G[Len(s)]
  BY <1>1, <1>2, LoopsAgree
<1> QED
  BY <1>1, <1>2, <1>3

\* A list that grows by one element: what was chosen stays, and the element
\* follows it if it is chosen.
LEMMA ChosenAppend ==
  ASSUME NEW T, NEW s \in Seq(T), NEW e \in T, NEW places, NEW others,
         \A n \in 1..Len(s) : n \in places <=> n \in others
  PROVE  Chosen(Append(s, e), others) =
           IF Len(s) + 1 \in others THEN Append(Chosen(s, places), e) ELSE Chosen(s, places)
<1> DEFINE t == Append(s, e)
           k == Len(s)
<1>1. k \in Nat /\ Len(t) = k + 1 /\ t[k + 1] = e /\ \A n \in 1..k : t[n] = s[n]
  BY AppendProperties, LenProperties
<1> HIDE DEF t, k
<1>2. PICK F : Loop(s, places, F) /\ Chosen(s, places) = F[k]
  BY <1>1, ChosenIsLoop DEF k
<1>3. PICK G : Loop(t, others, G) /\ Chosen(t, others) = G[k + 1]
  BY <1>1, ChosenIsLoop
<1>4. F[k] = G[k]
  BY <1>1, <1>2, <1>3, LoopsAgree DEF k
<1>5. k + 1 \in 1..Len(t) /\ (k + 1) - 1 = k /\ Len(t) \in Nat
  BY <1>1
<1>6. G[k + 1] = IF k + 1 \in others THEN Append(G[(k + 1) - 1], t[k + 1]) ELSE G[(k + 1) - 1]
  BY <1>3, <1>5, LoopTurn
<1> QED
  BY <1>1, <1>2, <1>3, <1>4, <1>5, <1>6 DEF t, k

\* What is chosen, and from where: p leads from the places of the result to
\* the chosen places of the list, in order, and to all of them.
Leads(s, places, c, p) ==
  /\ p \in [1..Len(c) -> places \cap (1..Len(s))]
  /\ \A i, j \in 1..Len(c) : i < j => p[i] < p[j]
  /\ \A n \in places \cap (1..Len(s)) : \E i \in 1..Len(c) : p[i] = n
  /\ \A i \in 1..Len(c) : c[i] = s[p[i]]

LEMMA ChosenFacts ==
  ASSUME NEW T, NEW s \in Seq(T), NEW places
  PROVE  /\ Chosen(s, places) \in Seq(T)
         /\ \E p : Leads(s, places, Chosen(s, places), p)
<1> DEFINE Good(k, c, p) ==
             /\ p \in [1..Len(c) -> places \cap (1..k)]
             /\ \A i, j \in 1..Len(c) : i < j => p[i] < p[j]
             /\ \A n \in places \cap (1..k) : \E i \in 1..Len(c) : p[i] = n
             /\ \A i \in 1..Len(c) : c[i] = s[p[i]]
           m == Len(s)
<1>0. m \in Nat /\ \A n \in 1..m : s[n] \in T
  BY LenProperties, ElementOfSeq
<1>1. PICK F : Loop(s, places, F) /\ Chosen(s, places) = F[m]
  BY <1>0, ChosenIsLoop
<1> DEFINE S == {k \in 0..m : F[k] \in Seq(T) /\ \E p : Good(k, F[k], p)}
<1>2. 0 \in S
  <2>1. F[0] = <<>>
    <3>1. 0 \in 0..m
      BY <1>0
    <3> QED  BY <1>1, <3>1 DEF Loop
  <2>2. Len(F[0]) = 0 /\ F[0] \in Seq(T)
    BY <2>1
  <2>3. Good(0, F[0], [i \in {} |-> 0])
    BY <2>2
  <2> HIDE DEF Good
  <2> QED  BY <1>0, <2>2, <2>3
<1>3. ASSUME NEW k \in 0..(m - 1), k \in S PROVE k + 1 \in S
  <2> HIDE DEF m
  <2>1. k + 1 \in 1..m /\ (k + 1) - 1 = k /\ k \in Nat
    BY <1>0
  <2>2. F[k + 1] = IF k + 1 \in places THEN Append(F[k], s[k + 1]) ELSE F[k]
    <3>1. F[k + 1] = IF k + 1 \in places THEN Append(F[(k + 1) - 1], s[k + 1])
                                         ELSE F[(k + 1) - 1]
      BY <1>0, <1>1, <2>1, LoopTurn DEF m
    <3> QED  BY <2>1, <3>1
  <2>3. F[k] \in Seq(T)
    BY <1>3
  <2>4. PICK p : Good(k, F[k], p)
    BY <1>3
  <2>5. CASE k + 1 \notin places
    <3>1. F[k + 1] = F[k] /\ places \cap (1..(k + 1)) = places \cap (1..k)
      BY <2>1, <2>2, <2>5
    <3>2. Good(k + 1, F[k + 1], p)
      BY <2>4, <3>1
    <3> HIDE DEF Good
    <3> QED  BY <2>1, <2>3, <3>1, <3>2
  <2>6. CASE k + 1 \in places
    <3> DEFINE c == F[k]
               d == F[k + 1]
               l == Len(c)
               q == [i \in 1..(l + 1) |-> IF i = l + 1 THEN k + 1 ELSE p[i]]
    <3>1. l \in Nat /\ d = Append(c, s[k + 1]) /\ s[k + 1] \in T
      BY <1>0, <2>1, <2>2, <2>3, <2>6, LenProperties
    <3>2. /\ d \in Seq(T) /\ Len(d) = l + 1
          /\ d[l + 1] = s[k + 1] /\ \A i \in 1..l : d[i] = c[i]
      BY <2>3, <3>1, AppendProperties
    <3> HIDE DEF c, d, l
    <3>3. /\ p \in [1..l -> places \cap (1..k)]
          /\ \A i, j \in 1..l : i < j => p[i] < p[j]
          /\ \A n \in places \cap (1..k) : \E i \in 1..l : p[i] = n
          /\ \A i \in 1..l : c[i] = s[p[i]]
      BY <2>4 DEF c, l
    <3>4. /\ q[l + 1] = k + 1
          /\ \A i \in 1..l : q[i] = p[i] /\ p[i] \in places /\ p[i] \in 1..k
          /\ \A i \in 1..(l + 1) : i = l + 1 \/ i \in 1..l
      BY <3>1, <3>3
    <3>5. q \in [1..(l + 1) -> places \cap (1..(k + 1))]
      <4>1. \A i \in 1..(l + 1) : q[i] \in places /\ q[i] \in 1..(k + 1)
        <5> HIDE DEF q
        <5> QED  BY <2>1, <2>6, <3>4
      <4>2. \A i \in 1..(l + 1) : (IF i = l + 1 THEN k + 1 ELSE p[i]) \in places \cap (1..(k + 1))
        BY <4>1
      <4> QED  BY <4>2
    <3> HIDE DEF q
    <3>6. ASSUME NEW i \in 1..(l + 1), NEW j \in 1..(l + 1), i < j PROVE q[i] < q[j]
      <4>1. i \in 1..l
        BY <3>1, <3>6
      <4>2. CASE j = l + 1
        BY <2>1, <3>4, <4>1, <4>2
      <4>3. CASE j \in 1..l
        BY <3>3, <3>4, <3>6, <4>1, <4>3
      <4> QED  BY <3>4, <4>2, <4>3
    <3>7. ASSUME NEW n \in places \cap (1..(k + 1)) PROVE \E i \in 1..(l + 1) : q[i] = n
      <4>1. CASE n = k + 1
        BY <3>1, <3>4, <4>1
      <4>2. CASE n # k + 1
        <5>1. n \in places \cap (1..k)
          BY <2>1, <4>2
        <5>2. PICK i \in 1..l : p[i] = n
          BY <3>3, <5>1
        <5>3. i \in 1..(l + 1)
          BY <3>1
        <5> QED  BY <3>4, <5>2, <5>3
      <4> QED  BY <4>1, <4>2
    <3>8. \A i \in 1..(l + 1) : d[i] = s[q[i]]
      BY <3>2, <3>3, <3>4
    <3>9. Good(k + 1, d, q)
      BY <3>2, <3>5, <3>6, <3>7, <3>8
    <3>10. \E r : Good(k + 1, d, r)
      <4> HIDE DEF Good
      <4> QED  BY <3>9
    <3> HIDE DEF Good
    <3> QED  BY <2>1, <3>2, <3>10 DEF d
  <2> QED  BY <2>5, <2>6
<1>4. m \in S
  <2>1. 0..m \subseteq S
    <3> HIDE DEF S, m
    <3> QED  BY <1>0, <1>2, <1>3, InductionUpTo
  <2> QED  BY <1>0, <2>1
<1>5. PICK p : Good(m, F[m], p)
  BY <1>4
<1>6. Leads(s, places, F[m], p)
  BY <1>5 DEF Leads
<1>7. F[m] \in Seq(T)
  BY <1>4
<1> HIDE DEF m, Good, S
<1> QED
  BY <1>1, <1>6, <1>7

\* One list is the beginning of another.
Begins(g, s) == Len(g) <= Len(s) /\ \A k \in 1..Len(g) : g[k] = s[k]

\* The loop only ever adds to what it has kept.
LEMMA LoopGrows ==
  ASSUME NEW T, NEW s \in Seq(T), NEW places, NEW F, Loop(s, places, F),
         NEW k \in 0..Len(s)
  PROVE  /\ F[k] \in Seq(T)
         /\ \A m \in k..Len(s) : Begins(F[k], F[m])
<1> DEFINE l == Len(s)
           S == {n \in 0..l : F[n] \in Seq(T) /\ (n >= k => Begins(F[k], F[n]))}
<1>1. l \in Nat /\ \A n \in 1..l : s[n] \in T
  BY LenProperties, ElementOfSeq
<1>2. F[0] = <<>>
  <2>1. 0 \in 0..l
    BY <1>1
  <2> QED  BY <2>1 DEF Loop
<1>3. 0 \in S
  <2>1. Begins(F[0], F[0])
    BY <1>2 DEF Begins
  <2>2. 0 >= k => Begins(F[k], F[0])
    <3>1. 0 >= k => k = 0
      BY <1>1
    <3> QED  BY <2>1, <3>1
  <2>3. F[0] \in Seq(T)
    BY <1>2, EmptySeq
  <2> QED  BY <1>1, <2>2, <2>3
<1>4. ASSUME NEW n \in 0..(l - 1), n \in S PROVE n + 1 \in S
  <2> HIDE DEF l
  <2>1. n + 1 \in 1..l /\ n \in Nat /\ (n + 1) - 1 = n
    BY <1>1
  <2>2. F[n + 1] = IF n + 1 \in places THEN Append(F[n], s[n + 1]) ELSE F[n]
    <3>1. F[n + 1] = IF n + 1 \in places THEN Append(F[(n + 1) - 1], s[n + 1])
                                         ELSE F[(n + 1) - 1]
      BY <1>1, <2>1, LoopTurn DEF l
    <3> QED  BY <2>1, <3>1
  <2>3. F[n] \in Seq(T) /\ (n >= k => Begins(F[k], F[n]))
    BY <1>4
  <2>4. F[n + 1] \in Seq(T) /\ Len(F[n]) \in Nat /\ Len(F[n]) <= Len(F[n + 1])
        /\ \A j \in 1..Len(F[n]) : F[n + 1][j] = F[n][j]
    <3>1. CASE n + 1 \in places
      <4>1. s[n + 1] \in T
        BY <1>1, <2>1
      <4> QED  BY <2>2, <2>3, <3>1, <4>1, AppendProperties, LenProperties
    <3>2. CASE n + 1 \notin places
      BY <2>2, <2>3, <3>2, LenProperties
    <3> QED  BY <3>1, <3>2
  <2>5. n + 1 >= k => Begins(F[k], F[n + 1])
    <3>1. CASE n >= k
      <4>1. Begins(F[k], F[n])
        BY <2>3, <3>1
      <4>2. Len(F[n + 1]) \in Nat
        BY <2>4, LenProperties
      <4>3. \A j \in 1..Len(F[k]) : F[k][j] = F[n][j] /\ j \in 1..Len(F[n])
        BY <2>4, <4>1 DEF Begins
      <4>4. \A j \in 1..Len(F[k]) : F[k][j] = F[n + 1][j]
        BY <2>4, <4>3
      <4> QED  BY <2>4, <4>1, <4>2, <4>4 DEF Begins
    <3>2. CASE n < k
      <4>1. n + 1 >= k => k = n + 1
        BY <2>1, <3>2
      <4>2. Begins(F[n + 1], F[n + 1])
        BY <2>4, LenProperties DEF Begins
      <4> QED  BY <4>1, <4>2
    <3> QED  BY <2>1, <3>1, <3>2
  <2> QED  BY <2>1, <2>4, <2>5
<1>5. 0..l \subseteq S
  <2> HIDE DEF S, l
  <2> QED  BY <1>1, <1>3, <1>4, InductionUpTo
<1> QED
  BY <1>1, <1>5

\* A function on the first numbers is a list.
LEMMA ListFacts ==
  ASSUME NEW T, NEW k \in Nat, NEW f \in [1..k -> T]
  PROVE  f \in Seq(T) /\ Len(f) = k /\ DOMAIN f = 1..k
  OBVIOUS

\* What is chosen from a beginning is a beginning of what is chosen.
LEMMA ChosenBegins ==
  ASSUME NEW T, NEW s \in Seq(T), NEW t \in Seq(T), Begins(s, t), NEW places, NEW others,
         \A n \in 1..Len(s) : n \in places <=> n \in others
  PROVE  Begins(Chosen(s, places), Chosen(t, others))
<1>1. Len(s) \in Nat /\ Len(t) \in Nat /\ Len(s) <= Len(t) /\ \A n \in 1..Len(s) : s[n] = t[n]
  BY LenProperties DEF Begins
<1>2. PICK F : Loop(s, places, F) /\ Chosen(s, places) = F[Len(s)]
  BY <1>1, ChosenIsLoop
<1>3. PICK G : Loop(t, others, G) /\ Chosen(t, others) = G[Len(t)]
  BY <1>1, ChosenIsLoop
<1>4. F[Len(s)] = G[Len(s)]
  BY <1>1, <1>2, <1>3, LoopsAgree
<1>5. Len(s) \in 0..Len(t) /\ Len(t) \in Len(s)..Len(t)
  BY <1>1
<1>6. Begins(G[Len(s)], G[Len(t)])
  BY <1>3, <1>5, LoopGrows
<1> QED
  BY <1>2, <1>3, <1>4, <1>6

\* A list is what it has at all of its places.
LEMMA ChosenAll ==
  ASSUME NEW T, NEW s \in Seq(T), NEW places, \A n \in 1..Len(s) : n \in places
  PROVE  Chosen(s, places) = s
<1> DEFINE l == Len(s)
<1>1. l \in Nat /\ \A n \in 1..l : s[n] \in T
  BY LenProperties, ElementOfSeq
<1>2. PICK F : Loop(s, places, F) /\ Chosen(s, places) = F[l]
  BY <1>1, ChosenIsLoop
<1> DEFINE S == {n \in 0..l : F[n] \in Seq(T) /\ Len(F[n]) = n /\ \A i \in 1..n : F[n][i] = s[i]}
<1>3. 0 \in S
  <2>1. 0 \in 0..l
    BY <1>1
  <2>2. F[0] = <<>>
    BY <1>2, <2>1 DEF Loop
  <2>3. F[0] \in Seq(T) /\ Len(F[0]) = 0
    BY <2>2, EmptySeq
  <2> QED  BY <2>1, <2>3
<1>4. ASSUME NEW n \in 0..(l - 1), n \in S PROVE n + 1 \in S
  <2> HIDE DEF l
  <2>1. n + 1 \in 1..l /\ n + 1 \in 0..l /\ n \in Nat /\ (n + 1) - 1 = n /\ s[n + 1] \in T
    BY <1>1
  <2>2. F[n + 1] = Append(F[n], s[n + 1])
    <3>1. n + 1 \in places
      BY <2>1 DEF l
    <3>2. F[n + 1] = IF n + 1 \in places THEN Append(F[(n + 1) - 1], s[n + 1])
                                         ELSE F[(n + 1) - 1]
      BY <1>1, <1>2, <2>1, LoopTurn DEF l
    <3> QED  BY <2>1, <3>1, <3>2
  <2>3. F[n] \in Seq(T) /\ Len(F[n]) = n /\ \A i \in 1..n : F[n][i] = s[i]
    BY <1>4
  <2>4. /\ F[n + 1] \in Seq(T) /\ Len(F[n + 1]) = n + 1 /\ F[n + 1][n + 1] = s[n + 1]
        /\ \A i \in 1..n : F[n + 1][i] = F[n][i]
    BY <2>1, <2>2, <2>3, AppendProperties
  <2>5. \A i \in 1..(n + 1) : F[n + 1][i] = s[i]
    <3>1. \A i \in 1..(n + 1) : i = n + 1 \/ i \in 1..n
      BY <2>1
    <3> QED  BY <2>3, <2>4, <3>1
  <2> QED  BY <2>1, <2>4, <2>5
<1>5. l \in S
  <2>1. 0..l \subseteq S
    <3> HIDE DEF S, l
    <3> QED  BY <1>1, <1>3, <1>4, InductionUpTo
  <2> QED  BY <1>1, <2>1
<1>6. F[l] \in Seq(T) /\ Len(F[l]) = Len(s) /\ \A i \in 1..Len(s) : F[l][i] = s[i]
  BY <1>5
<1>7. F[l] = s
  BY <1>6, SeqEqual
<1> QED
  BY <1>2, <1>7

-----------------------------------------------------------------------------
(* InOrder.                                                                *)

\* The first k elements of s, brought in order by q.
Ordering(s, k, q) ==
  /\ q \in [1..k -> 1..k]
  /\ \A i, j \in 1..k : q[i] = q[j] => i = j
  /\ \A n \in 1..k : \E i \in 1..k : q[i] = n
  /\ \A i, j \in 1..k : i < j => s[q[i]] <= s[q[j]]

\* One element more goes before the first that is greater.
LEMMA OrderingInserted ==
  ASSUME NEW s, NEW k \in Nat, NEW q, Ordering(s, k, q), \A n \in 1..(k + 1) : s[n] \in Nat
  PROVE  \E r : Ordering(s, k + 1, r)
<1> DEFINE Later == {i \in 1..(k + 1) : i = k + 1 \/ s[q[i]] > s[k + 1]}
<1>1. Later \in SUBSET (0..(k + 1)) /\ k + 1 \in Later /\ k + 1 \in Nat
  OBVIOUS
<1>2. PICK a \in Later : \A i \in Later : a <= i
  <2> HIDE DEF Later
  <2> QED  BY <1>1, LeastExists
<1>3. a \in 1..(k + 1) /\ \A i \in 1..k : q[i] \in 1..k /\ s[q[i]] \in Nat
  <2>1. \A i \in 1..k : q[i] \in 1..k
    BY DEF Ordering
  <2>2. \A n \in 1..k : n \in 1..(k + 1)
    OBVIOUS
  <2>3. \A i \in 1..k : s[q[i]] \in Nat
    BY <2>1, <2>2
  <2>4. a \in 1..(k + 1)
    BY <1>2
  <2> QED  BY <2>1, <2>3, <2>4
<1>4. \A i \in 1..k : i < a => s[q[i]] <= s[k + 1]
  <2> SUFFICES ASSUME NEW i \in 1..k, i < a PROVE s[q[i]] <= s[k + 1]
    OBVIOUS
  <2>1. i \notin Later
    BY <1>2, <1>3
  <2>2. s[k + 1] \in Nat
    OBVIOUS
  <2> QED  BY <1>3, <2>1, <2>2
<1>5. \A i \in 1..k : i >= a => s[k + 1] <= s[q[i]]
  <2> SUFFICES ASSUME NEW i \in 1..k, i >= a PROVE s[k + 1] <= s[q[i]]
    OBVIOUS
  <2>1. a \in 1..k
    BY <1>3
  <2>2. s[q[a]] > s[k + 1] /\ s[k + 1] \in Nat
    BY <1>2, <2>1
  <2>3. s[q[a]] <= s[q[i]]
    <3>1. CASE i = a
      BY <1>3, <2>1, <3>1
    <3>2. CASE i > a
      BY <2>1, <3>2 DEF Ordering
    <3> QED  BY <1>3, <3>1, <3>2
  <2> QED  BY <1>3, <2>1, <2>2, <2>3
<1> HIDE DEF Later
<1> DEFINE r == [i \in 1..(k + 1) |-> IF i < a THEN q[i] ELSE IF i = a THEN k + 1 ELSE q[i - 1]]
<1>6. \A i \in 1..(k + 1) :
        \/ i < a /\ i \in 1..k /\ r[i] = q[i] /\ r[i] \in 1..k
        \/ i = a /\ r[i] = k + 1
        \/ i > a /\ i - 1 \in 1..k /\ i - 1 >= a /\ r[i] = q[i - 1] /\ r[i] \in 1..k
  BY <1>3
<1>7. r \in [1..(k + 1) -> 1..(k + 1)]
  <2>1. r = [i \in 1..(k + 1) |-> r[i]]
    OBVIOUS
  <2>2. \A i \in 1..(k + 1) : r[i] \in 1..(k + 1)
    <3> HIDE DEF r
    <3> QED  BY <1>6
  <2> HIDE DEF r
  <2> QED  BY <2>1, <2>2
<1> HIDE DEF r
<1>8. ASSUME NEW i \in 1..(k + 1), NEW j \in 1..(k + 1), r[i] = r[j] PROVE i = j
  <2>1. \A m, n \in 1..k : q[m] = q[n] => m = n
    BY DEF Ordering
  <2>2. CASE i = a \/ j = a
    <3>1. ASSUME NEW n \in 1..(k + 1), n # a PROVE r[n] # k + 1
      <4>1. r[n] \in 1..k
        BY <1>6, <3>1
      <4> QED  BY <4>1
    <3>2. r[a] = k + 1
      BY <1>3, <1>6
    <3> QED  BY <1>8, <2>2, <3>1, <3>2
  <2>3. CASE i # a /\ j # a
    <3>1. CASE i < a /\ j < a
      <4>1. q[i] = q[j] /\ i \in 1..k /\ j \in 1..k
        BY <1>3, <1>6, <1>8, <3>1
      <4> QED  BY <2>1, <4>1
    <3>2. CASE i < a /\ j > a
      <4>1. q[i] = q[j - 1] /\ i \in 1..k /\ j - 1 \in 1..k /\ j - 1 >= a
        BY <1>3, <1>6, <1>8, <3>2
      <4> QED  BY <1>3, <2>1, <3>2, <4>1
    <3>3. CASE i > a /\ j < a
      <4>1. q[j] = q[i - 1] /\ j \in 1..k /\ i - 1 \in 1..k /\ i - 1 >= a
        BY <1>3, <1>6, <1>8, <3>3
      <4> QED  BY <1>3, <2>1, <3>3, <4>1
    <3>4. CASE i > a /\ j > a
      <4>1. q[j - 1] = q[i - 1] /\ j - 1 \in 1..k /\ i - 1 \in 1..k
        BY <1>3, <1>6, <1>8, <3>4
      <4>2. j - 1 = i - 1
        BY <2>1, <4>1
      <4> QED  BY <4>2
    <3> QED  BY <1>3, <2>3, <3>1, <3>2, <3>3, <3>4
  <2> QED  BY <2>2, <2>3
<1>9. ASSUME NEW n \in 1..(k + 1) PROVE \E i \in 1..(k + 1) : r[i] = n
  <2>1. CASE n = k + 1
    <3>1. r[a] = k + 1
      BY <1>3, <1>6
    <3> QED  BY <1>3, <2>1, <3>1
  <2>2. CASE n # k + 1
    <3>1. PICK i \in 1..k : q[i] = n
      BY <2>2 DEF Ordering
    <3>2. CASE i < a
      <4>1. i \in 1..(k + 1)
        OBVIOUS
      <4>2. r[i] = q[i]
        BY <1>3, <1>6, <3>2, <4>1
      <4> QED  BY <3>1, <4>1, <4>2
    <3>3. CASE i >= a
      <4>1. i + 1 \in 1..(k + 1) /\ i + 1 > a /\ (i + 1) - 1 = i
        BY <1>3, <3>3
      <4>2. r[i + 1] = q[(i + 1) - 1]
        BY <1>3, <1>6, <4>1
      <4> QED  BY <3>1, <4>1, <4>2
    <3> QED  BY <1>3, <3>2, <3>3
  <2> QED  BY <2>1, <2>2
<1>10. ASSUME NEW i \in 1..(k + 1), NEW j \in 1..(k + 1), i < j PROVE s[r[i]] <= s[r[j]]
  <2>1. \A m, n \in 1..k : m < n => s[q[m]] <= s[q[n]]
    BY DEF Ordering
  <2>2. CASE j < a
    <3>1. i < a
      BY <1>3, <1>10, <2>2
    <3> QED  BY <1>3, <1>6, <1>10, <2>1, <2>2, <3>1
  <2>3. CASE j = a
    <3>1. i < a
      BY <1>3, <1>10, <2>3
    <3>2. r[j] = k + 1 /\ i \in 1..k /\ r[i] = q[i]
      BY <1>3, <1>6, <2>3, <3>1
    <3> QED  BY <1>4, <3>1, <3>2
  <2>4. CASE j > a
    <3>0. r[j] = q[j - 1] /\ j - 1 \in 1..k /\ j - 1 >= a
      BY <1>3, <1>6, <2>4
    <3>1. CASE i < a
      <4>1. r[i] = q[i] /\ i \in 1..k /\ i < j - 1
        BY <1>3, <1>6, <3>0, <3>1
      <4> QED  BY <2>1, <3>0, <4>1
    <3>2. CASE i = a
      BY <1>3, <1>5, <1>6, <3>0, <3>2
    <3>3. CASE i > a
      <4>1. r[i] = q[i - 1] /\ i - 1 \in 1..k
        BY <1>3, <1>6, <3>3
      <4>2. i - 1 < j - 1
        BY <1>10
      <4> QED  BY <2>1, <3>0, <4>1, <4>2
    <3> QED  BY <1>3, <3>1, <3>2, <3>3
  <2> QED  BY <1>3, <2>2, <2>3, <2>4
<1>11. Ordering(s, k + 1, r)
  BY <1>7, <1>8, <1>9, <1>10 DEF Ordering
<1> QED
  BY <1>11

\* So every list of numbers can be put in order ...
LEMMA OrderingExists ==
  ASSUME NEW s \in Seq(Nat)
  PROVE  \E q : Ordering(s, Len(s), q)
<1> DEFINE m == Len(s)
           S == {k \in 0..m : \E q : Ordering(s, k, q)}
<1>1. m \in Nat /\ \A n \in 1..m : s[n] \in Nat
  BY LenProperties, ElementOfSeq
<1> HIDE DEF m
<1>2. 0 \in S
  <2>1. Ordering(s, 0, [i \in {} |-> 0])
    BY DEF Ordering
  <2> QED  BY <1>1, <2>1
<1>3. ASSUME NEW k \in 0..(m - 1), k \in S PROVE k + 1 \in S
  <2>1. k \in Nat /\ k + 1 \in 0..m /\ \A n \in 1..(k + 1) : s[n] \in Nat
    BY <1>1
  <2>2. \E r : Ordering(s, k + 1, r)
    BY <1>3, <2>1, OrderingInserted
  <2> QED  BY <2>1, <2>2
<1>4. 0..m \subseteq S
  <2> HIDE DEF S
  <2> QED  BY <1>1, <1>2, <1>3, InductionUpTo
<1> QED
  BY <1>1, <1>4 DEF m

\* ... and InOrder does so, without losing or repeating anything.
LEMMA InOrderFacts ==
  ASSUME NEW s \in Seq(Nat)
  PROVE  /\ Range(InOrder(s)) = Range(s)
         /\ IsInjective(InOrder(s)) => IsInjective(s)
<1> DEFINE Good(q) == q \in Bijection(DOMAIN s, DOMAIN s)
                      /\ \A i, j \in DOMAIN s : i < j => s[q[i]] <= s[q[j]]
           p == CHOOSE q \in Bijection(DOMAIN s, DOMAIN s) :
                  \A i, j \in DOMAIN s : i < j => s[q[i]] <= s[q[j]]
<1>1. DOMAIN s = 1..Len(s)
  BY LenProperties
<1>2. PICK q : Ordering(s, Len(s), q)
  BY OrderingExists
<1>3. q \in Bijection(DOMAIN s, DOMAIN s)
  BY <1>1, <1>2 DEF Ordering, Bijection, Injection, Surjection, IsInjective
<1>4. \A i, j \in DOMAIN s : i < j => s[q[i]] <= s[q[j]]
  BY <1>1, <1>2 DEF Ordering
<1>5. p \in Bijection(DOMAIN s, DOMAIN s)
  BY <1>3, <1>4
<1>6. InOrder(s) = [n \in DOMAIN s |-> s[p[n]]]
  BY DEF InOrder
<1> HIDE DEF p
<1>7. /\ p \in [DOMAIN s -> DOMAIN s]
      /\ \A i, j \in DOMAIN s : p[i] = p[j] => i = j
      /\ \A n \in DOMAIN s : \E i \in DOMAIN s : p[i] = n
  BY <1>5 DEF Bijection, Injection, Surjection, IsInjective
<1>8. Range(InOrder(s)) = Range(s)
  BY <1>6, <1>7 DEF Range
<1>9. ASSUME IsInjective(InOrder(s)) PROVE IsInjective(s)
  <2> SUFFICES ASSUME NEW a \in DOMAIN s, NEW b \in DOMAIN s, s[a] = s[b] PROVE a = b
    BY DEF IsInjective
  <2>1. PICK i \in DOMAIN s : p[i] = a
    BY <1>7
  <2>2. PICK j \in DOMAIN s : p[j] = b
    BY <1>7
  <2>3. InOrder(s)[i] = InOrder(s)[j] /\ i \in DOMAIN InOrder(s) /\ j \in DOMAIN InOrder(s)
    BY <1>6, <2>1, <2>2
  <2>4. i = j
    BY <1>9, <2>3 DEF IsInjective
  <2> QED  BY <2>1, <2>2, <2>4
<1> QED
  BY <1>8, <1>9

-----------------------------------------------------------------------------
(* Ranks.                                                                  *)

\* Where before says for each element of a finite set which others come before
\* it, and does so as a linear order does, the number of these is its place.
LEMMA Ranks ==
  ASSUME NEW S, IsFiniteSet(S), NEW before,
         \A i \in S : before[i] \subseteq S /\ i \notin before[i],
         \A i, j \in S : i = j \/ i \in before[j] \/ j \in before[i],
         \A i, j, k \in S : i \in before[j] /\ j \in before[k] => i \in before[k]
  PROVE  /\ \A i \in S : Cardinality(before[i]) \in Nat
         /\ \A i, j \in S : i \in before[j] <=> Cardinality(before[i]) < Cardinality(before[j])
         /\ \A n \in 1..Cardinality(S) : \E i \in S : Cardinality(before[i]) = n - 1
<1> DEFINE m == Cardinality(S)
           rank == [i \in S |-> Cardinality(before[i])]
<1>1. m \in Nat
  BY FS_CardinalityType
<1>2. \A i \in S : IsFiniteSet(before[i]) /\ rank[i] \in Nat
  <2> SUFFICES ASSUME NEW i \in S PROVE IsFiniteSet(before[i]) /\ Cardinality(before[i]) \in Nat
    OBVIOUS
  <2>1. before[i] \in SUBSET S
    OBVIOUS
  <2> QED  BY <2>1, FS_Subset, FS_CardinalityType
<1>3. ASSUME NEW i \in S, NEW j \in S, i \in before[j] PROVE rank[i] < rank[j]
  <2>1. before[i] \subseteq before[j] /\ before[i] # before[j]
    BY <1>3
  <2>2. before[i] \in SUBSET before[j]
    BY <2>1
  <2>3. Cardinality(before[i]) <= Cardinality(before[j])
        /\ Cardinality(before[i]) # Cardinality(before[j])
    BY <1>2, <2>1, <2>2, FS_Subset
  <2>4. rank[i] = Cardinality(before[i]) /\ rank[j] = Cardinality(before[j])
    OBVIOUS
  <2> HIDE DEF rank
  <2> QED  BY <1>2, <2>3, <2>4
<1>4. ASSUME NEW i \in S, NEW j \in S, rank[i] < rank[j] PROVE i \in before[j]
  <2>1. i # j /\ ~(rank[j] < rank[i])
    BY <1>2, <1>4
  <2> QED  BY <1>3, <2>1
<1>5. \A i \in S : rank[i] \in 0..(m - 1)
  <2> SUFFICES ASSUME NEW i \in S PROVE rank[i] \in 0..(m - 1)
    OBVIOUS
  <2>1. before[i] \in SUBSET S /\ before[i] # S
    OBVIOUS
  <2>2. Cardinality(before[i]) <= m /\ Cardinality(before[i]) # m
    BY <2>1, FS_Subset
  <2>3. rank[i] = Cardinality(before[i])
    OBVIOUS
  <2> HIDE DEF rank, m
  <2> QED  BY <1>1, <1>2, <2>2, <2>3
<1>6. rank \in Injection(S, 0..(m - 1))
  <2>1. \A i, j \in S : rank[i] = rank[j] => i = j
    <3> SUFFICES ASSUME NEW i \in S, NEW j \in S, rank[i] = rank[j] PROVE i = j
      OBVIOUS
    <3>1. ~(rank[i] < rank[j]) /\ ~(rank[j] < rank[i])
      BY <1>2
    <3> HIDE DEF rank
    <3> QED  BY <1>3, <3>1
  <2>2. rank \in [S -> 0..(m - 1)]
    BY <1>5
  <2> HIDE DEF rank
  <2> QED  BY <2>1, <2>2 DEF Injection, IsInjective
<1>7. IsFiniteSet(0..(m - 1)) /\ Cardinality(0..(m - 1)) = m
  <2>1. 0 \in Int /\ m - 1 \in Int
    BY <1>1
  <2>2. IsFiniteSet(0..(m - 1))
        /\ Cardinality(0..(m - 1)) = IF 0 > m - 1 THEN 0 ELSE (m - 1) - 0 + 1
    BY <2>1, FS_Interval
  <2> HIDE DEF m
  <2> QED  BY <1>1, <2>2
<1>8. rank \in Surjection(S, 0..(m - 1))
  <2> HIDE DEF rank
  <2> QED  BY <1>6, <1>7, FS_Injection
<1>9. \A n \in 1..m : \E i \in S : rank[i] = n - 1
  <2> SUFFICES ASSUME NEW n \in 1..m PROVE \E i \in S : rank[i] = n - 1
    OBVIOUS
  <2>1. n - 1 \in 0..(m - 1)
    BY <1>1
  <2> HIDE DEF rank, m
  <2> QED  BY <1>8, <2>1 DEF Surjection
<1>10. \A i \in S : rank[i] = Cardinality(before[i])
  OBVIOUS
<1> HIDE DEF rank
<1> QED
  BY <1>2, <1>3, <1>4, <1>9, <1>10


=============================================================================
